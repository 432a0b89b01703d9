---------------------------- MODULE Singleflight ----------------------------
(***************************************************************************)
(* internal/singleflight/singleflight.go: Group.Do, Group.DoChan and       *)
(* completeCall.                                                           *)
(*                                                                         *)
(* A request is one invocation of Do or DoChan, a call is one heap object  *)
(* of type call.  Every region the code runs under g.mu is one action; the *)
(* shared function, wg.Wait and the channel operations happen outside the  *)
(* lock and are actions of their own.  Identities are reused the way the   *)
(* garbage collector allows it: a call once nothing refers to it, a        *)
(* request once it has returned and its channel is in no call's list.      *)
(***************************************************************************)
EXTENDS Naturals

CONSTANTS Caller,     \* requests (goroutines) that may be active together
          Key,        \* keys
          Call,       \* identities of call objects
          Value,      \* what the shared function returns, errors included
          PanicErr,   \* the error safeCall makes of a panic
          MayPanic,   \* may the shared function panic?
          None        \* nil

ASSUME NoneAssumption == None \notin Call \cup Key \cup Value \cup {PanicErr}
ASSUME PanicAssumption == MayPanic \in BOOLEAN

VARIABLES m,      \* m[k]: the call registered for k (Group.m)
          st,     \* st[c]: how far call c has come
          ckey,   \* ckey[c]: the key call c was created for
          res,    \* res[c]: c.val and c.err
          chs,    \* chs[c]: channels of c not written yet, by their request
          pc,     \* pc[p]: where request p is
          arg,    \* arg[p]: the key p asks for
          ref,    \* ref[p]: the call p refers to
          ch,     \* ch[p]: the buffer of p's channel
          got     \* got[p]: what p returned

vars == <<m, st, ckey, res, chs, pc, arg, ref, ch, got>>
callVars == <<m, st, ckey, res, chs>>

Result == Value \cup {PanicErr}

\* "dead" stands for a call that was never created or whose completeCall
\* has returned, "wedged" for one whose function panicked inside Do.
CallState == {"dead", "running", "finished", "delivering", "wedged"}

\* "lead": runs the function in Do; "waitWG": in c.wg.Wait(); "waitCh":
\* receives from its channel; "left": gave up on its channel; "panicked":
\* unwound out of Do.
CallerState ==
  {"idle", "lead", "waitWG", "waitCh", "left", "returned", "panicked"}

\* The types of the variables; a request that has returned has a result.
TypeOK ==
  /\ m    \in [Key -> Call \cup {None}]
  /\ st   \in [Call -> CallState]
  /\ ckey \in [Call -> Key \cup {None}]
  /\ res  \in [Call -> Result \cup {None}]
  /\ chs  \in [Call -> SUBSET Caller]
  /\ pc   \in [Caller -> CallerState]
  /\ arg  \in [Caller -> Key \cup {None}]
  /\ ref  \in [Caller -> Call \cup {None}]
  /\ ch   \in [Caller -> Result \cup {None}]
  /\ got  \in [Caller -> Result \cup {None}]
  /\ \A p \in Caller : pc[p] = "returned" => got[p] \in Result

Init ==
  /\ m    = [k \in Key |-> None]
  /\ st   = [c \in Call |-> "dead"]
  /\ ckey = [c \in Call |-> None]
  /\ res  = [c \in Call |-> None]
  /\ chs  = [c \in Call |-> {}]
  /\ pc   = [p \in Caller |-> "idle"]
  /\ arg  = [p \in Caller |-> None]
  /\ ref  = [p \in Caller |-> None]
  /\ ch   = [p \in Caller |-> None]
  /\ got  = [p \in Caller |-> None]

-----------------------------------------------------------------------------
\* new(call): an object nothing refers to any more.
Fresh(c) == st[c] = "dead" /\ \A p \in Caller : ref[p] # c

\* c := new(call); c.wg.Add(1); g.m[key] = c, with the first channel, if any.
NewCall(c, k, channels) ==
  /\ Fresh(c)
  /\ m' = [m EXCEPT ![k] = c]
  /\ st' = [st EXCEPT ![c] = "running"]
  /\ ckey' = [ckey EXCEPT ![c] = k]
  /\ res' = [res EXCEPT ![c] = None]
  /\ chs' = [chs EXCEPT ![c] = channels]

\* Request p has gone to state s of its run, for key k and on call c.
Enter(p, s, k, c) ==
  /\ pc' = [pc EXCEPT ![p] = s]
  /\ arg' = [arg EXCEPT ![p] = k]
  /\ ref' = [ref EXCEPT ![p] = c]

\* Do finds a call for its key and waits for it.
DoJoin(p, k) ==
  /\ pc[p] = "idle"
  /\ m[k] # None
  /\ Enter(p, "waitWG", k, m[k])
  /\ UNCHANGED <<callVars, ch, got>>

\* Mutant of DoLead: a call is registered without looking the key up.
DoLeadUnchecked(p, k, c) ==
  /\ pc[p] = "idle"
  /\ NewCall(c, k, {})
  /\ Enter(p, "lead", k, c)
  /\ UNCHANGED <<ch, got>>

\* Do registers a call and goes on to run the function itself.
DoLead(p, k, c) ==
  /\ pc[p] = "idle"
  /\ m[k] = None
  /\ NewCall(c, k, {})
  /\ Enter(p, "lead", k, c)
  /\ UNCHANGED <<ch, got>>

\* DoChan finds a call for its key and adds its channel to it.
DoChanJoin(p, k) ==
  /\ pc[p] = "idle"
  /\ m[k] # None
  /\ chs' = [chs EXCEPT ![m[k]] = @ \cup {p}]
  /\ Enter(p, "waitCh", k, m[k])
  /\ UNCHANGED <<m, st, ckey, res, ch, got>>

\* DoChan registers a call and starts a goroutine that runs the function.
DoChanLead(p, k, c) ==
  /\ pc[p] = "idle"
  /\ m[k] = None
  /\ NewCall(c, k, {p})
  /\ Enter(p, "waitCh", k, c)
  /\ UNCHANGED <<ch, got>>

-----------------------------------------------------------------------------
\* Call c was created by Do, so its function runs on the leader's goroutine.
LedByDo(c) == \E p \in Caller : pc[p] = "lead" /\ ref[p] = c

\* Mutant of Publish: wg.Done without storing the result.
PublishNothing(c, r) ==
  /\ st' = [st EXCEPT ![c] = "finished"]
  /\ UNCHANGED res

\* The result is stored in c and c.wg released.
Publish(c, r) ==
  /\ st' = [st EXCEPT ![c] = "finished"]
  /\ res' = [res EXCEPT ![c] = r]

\* The function returns; completeCall stores the result and calls wg.Done.
FnReturn(c, r) ==
  /\ st[c] = "running"
  /\ Publish(c, r)
  /\ UNCHANGED <<m, ckey, chs, pc, arg, ref, ch, got>>

\* The function panics under DoChan: safeCall recovers and makes it an error.
FnPanicRecovered(c) ==
  /\ MayPanic
  /\ st[c] = "running"
  /\ ~LedByDo(c)
  /\ Publish(c, PanicErr)
  /\ UNCHANGED <<m, ckey, chs, pc, arg, ref, ch, got>>

\* The function panics under Do: the panic unwinds past completeCall.
FnPanicUnwinds(p) ==
  /\ MayPanic
  /\ pc[p] = "lead"
  /\ st[ref[p]] = "running"
  /\ st' = [st EXCEPT ![ref[p]] = "wedged"]
  /\ pc' = [pc EXCEPT ![p] = "panicked"]
  /\ UNCHANGED <<m, ckey, res, chs, arg, ref, ch, got>>

\* Mutant of Delete: the early return of a call without channels comes first.
DeleteWithChannels(c) ==
  /\ st[c] = "finished"
  /\ chs[c] # {}
  /\ st' = [st EXCEPT ![c] = "delivering"]
  /\ m' = [m EXCEPT ![ckey[c]] = None]
  /\ UNCHANGED <<ckey, res, chs, pc, arg, ref, ch, got>>

\* Mutant of Delete: the key is deleted before the result is stored.
DeleteEarly(c) ==
  /\ st[c] \in {"running", "finished"}
  /\ st' = [st EXCEPT ![c] = IF @ = "finished" THEN "delivering" ELSE @]
  /\ m' = [m EXCEPT ![ckey[c]] = None]
  /\ UNCHANGED <<ckey, res, chs, pc, arg, ref, ch, got>>

\* completeCall, under g.mu: the key is deleted and the channels are copied.
Delete(c) ==
  /\ st[c] = "finished"
  /\ st' = [st EXCEPT ![c] = "delivering"]
  /\ m' = [m EXCEPT ![ckey[c]] = None]
  /\ UNCHANGED <<ckey, res, chs, pc, arg, ref, ch, got>>

\* Mutant of Send: an unbuffered channel needs its receiver.
SendUnbuffered(c, p) ==
  /\ st[c] = "delivering"
  /\ p \in chs[c]
  /\ pc[p] = "waitCh"
  /\ ch' = [ch EXCEPT ![p] = res[c]]
  /\ chs' = [chs EXCEPT ![c] = @ \ {p}]
  /\ UNCHANGED <<m, st, ckey, res, pc, arg, ref, got>>

\* completeCall sends on one channel.  A channel has room for one result, so
\* the send does not wait for its request, whatever that request is doing.
Send(c, p) ==
  /\ st[c] = "delivering"
  /\ p \in chs[c]
  /\ ch[p] = None
  /\ ch' = [ch EXCEPT ![p] = res[c]]
  /\ chs' = [chs EXCEPT ![c] = @ \ {p}]
  /\ UNCHANGED <<m, st, ckey, res, pc, arg, ref, got>>

\* Mutant of EndCall: the send loop stops before its last channel.
EndCallEarly(c) ==
  /\ st[c] = "delivering"
  /\ st' = [st EXCEPT ![c] = "dead"]
  /\ UNCHANGED <<m, ckey, res, chs, pc, arg, ref, ch, got>>

\* completeCall returns.
EndCall(c) ==
  /\ st[c] = "delivering"
  /\ chs[c] = {}
  /\ st' = [st EXCEPT ![c] = "dead"]
  /\ UNCHANGED <<m, ckey, res, chs, pc, arg, ref, ch, got>>

-----------------------------------------------------------------------------
\* Request p returns r.
Returns(p, r) ==
  /\ pc' = [pc EXCEPT ![p] = "returned"]
  /\ got' = [got EXCEPT ![p] = r]
  /\ UNCHANGED <<callVars, arg, ref, ch>>

\* c.wg.Wait() returns once wg.Done was called; the stored result is read.
WaitReturns(p) ==
  /\ pc[p] = "waitWG"
  /\ st[ref[p]] \notin {"running", "wedged"}
  /\ Returns(p, res[ref[p]])

\* The leader of Do returns after its completeCall.
LeadReturns(p) ==
  /\ pc[p] = "lead"
  /\ st[ref[p]] = "dead"
  /\ Returns(p, res[ref[p]])

\* A request receives from its channel.
Receive(p) ==
  /\ pc[p] = "waitCh"
  /\ ch[p] # None
  /\ Returns(p, ch[p])

\* A request stops waiting for its channel (a timeout or a cancellation).
Leave(p) ==
  /\ pc[p] = "waitCh"
  /\ pc' = [pc EXCEPT ![p] = "left"]
  /\ UNCHANGED <<callVars, arg, ref, ch, got>>

\* The request is over and its channel is garbage: its identity is reused.
Recycle(p) ==
  /\ pc[p] \in {"returned", "left", "panicked"}
  /\ \A c \in Call : p \notin chs[c]
  /\ pc' = [pc EXCEPT ![p] = "idle"]
  /\ arg' = [arg EXCEPT ![p] = None]
  /\ ref' = [ref EXCEPT ![p] = None]
  /\ ch' = [ch EXCEPT ![p] = None]
  /\ got' = [got EXCEPT ![p] = None]
  /\ UNCHANGED callVars

Next ==
  \/ \E p \in Caller, k \in Key :
       \/ DoJoin(p, k)
       \/ DoChanJoin(p, k)
       \/ \E c \in Call : DoLead(p, k, c) \/ DoChanLead(p, k, c)
  \/ \E c \in Call :
       \/ \E r \in Value : FnReturn(c, r)
       \/ FnPanicRecovered(c)
       \/ Delete(c)
       \/ \E p \in Caller : Send(c, p)
       \/ EndCall(c)
  \/ \E p \in Caller :
       \/ FnPanicUnwinds(p)
       \/ WaitReturns(p)
       \/ LeadReturns(p)
       \/ Receive(p)
       \/ Leave(p)
       \/ Recycle(p)

\* Every goroutine that can run is scheduled, and the shared function ends.
Fairness ==
  /\ \A c \in Call :
       /\ WF_vars((\E r \in Value : FnReturn(c, r)) \/ FnPanicRecovered(c)
                   \/ (\E p \in Caller : ref[p] = c /\ FnPanicUnwinds(p)))
       /\ WF_vars(Delete(c))
       /\ WF_vars(\E p \in Caller : Send(c, p))
       /\ WF_vars(EndCall(c))
  /\ \A p \in Caller :
       WF_vars(WaitReturns(p) \/ LeadReturns(p) \/ Receive(p))

Spec == Init /\ [][Next]_vars
FairSpec == Spec /\ Fairness

-----------------------------------------------------------------------------
\* The function of call c is running or its result is not yet forgotten.
Registered(c) == st[c] \in {"running", "finished", "wedged"}

\* Coalescing: no two calls of one key are registered at the same time, so
\* the function never runs twice concurrently for a key, although completeCall
\* releases its waiters before it takes the lock and deletes the key.
OneFlight ==
  \A c, d \in Call :
    Registered(c) /\ Registered(d) /\ ckey[c] = ckey[d] => c = d

\* No lost caller: a request that waits on its channel either has its result
\* in the buffer or is still in the list of a call that has not finished
\* sending.  A request that joins between wg.Done and the delete is included.
NoLostCaller ==
  \A p \in Caller :
    pc[p] = "waitCh" =>
      \/ ch[p] # None
      \/ p \in chs[ref[p]] /\ st[ref[p]] # "dead"

\* "wait until completion": a request that waits is eventually answered, or
\* leaves on its own.
EveryCallerReturns ==
  \A p \in Caller :
    pc[p] \in {"lead", "waitWG", "waitCh"} ~>
      pc[p] \in {"returned", "left", "panicked"}

\* The same, but for the requests of a call whose function has panicked in Do.
EveryCallerServed ==
  \A p \in Caller :
    pc[p] \in {"lead", "waitWG", "waitCh"} ~>
      \/ pc[p] \in {"returned", "left", "panicked"}
      \/ \E c \in Call : ref[p] = c /\ st[c] = "wedged"

\* The goroutine of a call always comes to its end, also when the requests
\* that wait for the call have all left.
EveryCallEnds ==
  \A c \in Call : st[c] = "running" ~> st[c] \in {"dead", "wedged"}

-----------------------------------------------------------------------------
Waiting(p) == pc[p] \in {"lead", "waitWG", "waitCh"}

flightOf(k) ==
  IF m[k] = None THEN "none"
  ELSE IF st[m[k]] = "finished" THEN "finished" ELSE "running"
answerOf(k) == IF flightOf(k) = "finished" THEN res[m[k]] ELSE None
replyOf(p) ==
  IF ~Waiting(p) THEN None
  ELSE IF ch[p] # None THEN ch[p]
  ELSE IF st[ref[p]] \in {"running", "wedged"} THEN None
  ELSE res[ref[p]]

Shared == INSTANCE SharedLoad WITH
  flight <- [k \in Key |-> flightOf(k)],
  answer <- [k \in Key |-> answerOf(k)],
  want   <- [p \in Caller |-> IF Waiting(p) THEN arg[p] ELSE None],
  reply  <- [p \in Caller |-> replyOf(p)],
  got    <- got

\* Do, DoChan and completeCall implement SharedLoad: whoever asked for a key
\* during an execution returns the result of that very execution.
SharedLoadSpec == Shared!Spec
=============================================================================
