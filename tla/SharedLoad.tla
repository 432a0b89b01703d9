----------------------------- MODULE SharedLoad -----------------------------
(***************************************************************************)
(* What request coalescing promises to its callers, independently of how   *)
(* internal/singleflight keeps its promise.                                *)
(*                                                                         *)
(* A key has at most one execution of its load function at a time.  Every  *)
(* caller that asked for the key while the execution was running, or while *)
(* it was finished and not yet forgotten, is answered with the result of   *)
(* that execution.  A caller may also leave without an answer: it timed    *)
(* out, its context ended, or its goroutine unwound with a panic.          *)
(*                                                                         *)
(* Singleflight implements this module (Singleflight!SharedLoadSpec), and  *)
(* Group uses it as its loader.                                            *)
(***************************************************************************)
CONSTANTS Caller,   \* the requests that may be in progress at the same time
          Key,      \* the keys they ask for
          Result,   \* what an execution may return (a value or an error)
          None      \* stands for "no key" and "no result"

VARIABLES flight,   \* flight[k]: the state of the execution for key k
          answer,   \* answer[k]: its result, once it has finished
          want,     \* want[p]: the key request p waits for, None otherwise
          reply,    \* reply[p]: the result p has been answered with
          got       \* got[p]: what p returned to its user

vars == <<flight, answer, want, reply, got>>

Init ==
  /\ flight = [k \in Key |-> "none"]
  /\ answer = [k \in Key |-> None]
  /\ want   = [p \in Caller |-> None]
  /\ reply  = [p \in Caller |-> None]
  /\ got    = [p \in Caller |-> None]

\* Request p asks for k while nothing is known of k: it causes an execution.
Start(p, k) ==
  /\ want[p] = None
  /\ flight[k] = "none"
  /\ flight' = [flight EXCEPT ![k] = "running"]
  /\ want' = [want EXCEPT ![p] = k]
  /\ UNCHANGED <<answer, reply, got>>

\* Request p shares the execution that is running or has just finished.
Join(p, k) ==
  /\ want[p] = None
  /\ flight[k] # "none"
  /\ want' = [want EXCEPT ![p] = k]
  /\ reply' = [reply EXCEPT ![p] = answer[k]]
  /\ UNCHANGED <<flight, answer, got>>

\* The execution ends; everyone who waits for it is answered at once.
Finish(k, r) ==
  /\ flight[k] = "running"
  /\ flight' = [flight EXCEPT ![k] = "finished"]
  /\ answer' = [answer EXCEPT ![k] = r]
  /\ reply' = [p \in Caller |->
                 IF want[p] = k /\ reply[p] = None THEN r ELSE reply[p]]
  /\ UNCHANGED <<want, got>>

\* The finished execution is forgotten: the next request starts a new one.
Retire(k) ==
  /\ flight[k] = "finished"
  /\ flight' = [flight EXCEPT ![k] = "none"]
  /\ answer' = [answer EXCEPT ![k] = None]
  /\ UNCHANGED <<want, reply, got>>

\* An answered request returns exactly the result it was answered with.
Return(p) ==
  /\ want[p] # None
  /\ reply[p] # None
  /\ got' = [got EXCEPT ![p] = reply[p]]
  /\ want' = [want EXCEPT ![p] = None]
  /\ reply' = [reply EXCEPT ![p] = None]
  /\ UNCHANGED <<flight, answer>>

\* A request leaves without looking at its answer.
Abandon(p) ==
  /\ want[p] # None
  /\ want' = [want EXCEPT ![p] = None]
  /\ reply' = [reply EXCEPT ![p] = None]
  /\ UNCHANGED <<flight, answer, got>>

\* The user of request p has consumed what it returned.
Consume(p) ==
  /\ want[p] = None
  /\ got' = [got EXCEPT ![p] = None]
  /\ UNCHANGED <<flight, answer, want, reply>>

Next ==
  \/ \E p \in Caller, k \in Key : Start(p, k) \/ Join(p, k)
  \/ \E k \in Key, r \in Result : Finish(k, r)
  \/ \E k \in Key : Retire(k)
  \/ \E p \in Caller : Return(p) \/ Abandon(p) \/ Consume(p)

Spec == Init /\ [][Next]_vars
=============================================================================
