----------------------------- MODULE FilterGate -----------------------------
(***************************************************************************)
(* groupcache_filter.go with Group.Warmup and getLocallyOnlyForWarmUp: the *)
(* gate that keeps requests for unknown keys from the getter, and the      *)
(* goroutines that rebuild its filter.                                     *)
(*                                                                         *)
(* A task is a goroutine that rebuilds: a call of Group.Warmup or a        *)
(* refresh loop.  A Bloom filter may let a key pass that was never added;  *)
(* this module is about keys that are turned away although they were       *)
(* recorded.                                                               *)
(***************************************************************************)
EXTENDS BloomFilter

CONSTANTS User,     \* tasks that call Warmup
          Loop,     \* identities of refresh loops and of their stop channels
          MayFail,  \* may the getter fail during a warm-up?
          None

Task == User \cup Loop

ASSUME FilterGateAssumption ==
  /\ User \cap Loop = {}
  /\ None \notin Task
  /\ MayFail \in BOOLEAN

VARIABLES filter,       \* the Bloom filter
          ready,        \* the gate may reject
          warmupKeys,   \* the keys a refresh starts from
          refreshStop,  \* the loop whose channel is in refreshStop, or None
          closing,      \* loops taken out of refreshStop and not yet closed
          closed,       \* loops whose stop channel is closed
          pc,           \* pc[t]: where task t is
          keys,         \* keys[t]: the keys it rebuilds from
          todo,         \* todo[t]: those it has not loaded yet
          ok,           \* ok[t]: no load has failed
          overlap       \* history: rebuilds have overlapped since the filter
                        \* was last reset by a task that was alone

gate == <<filter, ready, warmupKeys>>
channels == <<refreshStop, closing, closed>>
local == <<pc, keys, todo, ok>>
vars == <<gate, channels, local, overlap>>

\* "wait": a loop in its select; "record" and "publish": the end of warmup.
TaskState == {"idle", "wait", "reset", "load", "record", "publish"}

\* The types of the variables.  In particular stopRefresh never closes a nil
\* channel: what it is about to close is the channel of a loop.
TypeOK ==
  /\ filter \subseteq 0 .. Len - 1 /\ ready \in BOOLEAN /\ warmupKeys \subseteq Key
  /\ refreshStop \in Loop \cup {None}
  /\ closing \subseteq Loop /\ closed \subseteq Loop
  /\ pc \in [Task -> TaskState]
  /\ keys \in [Task -> SUBSET Key]
  /\ todo \in [Task -> SUBSET Key]
  /\ ok \in [Task -> BOOLEAN]
  /\ overlap \in BOOLEAN

Init ==
  /\ filter = EmptyFilter /\ ready = FALSE /\ warmupKeys = {}
  /\ refreshStop = None /\ closing = {} /\ closed = {}
  /\ pc = [t \in Task |-> "idle"]
  /\ keys = [t \in Task |-> {}]
  /\ todo = [t \in Task |-> {}]
  /\ ok = [t \in Task |-> TRUE]
  /\ overlap = FALSE

-----------------------------------------------------------------------------
Goto(t, s) == pc' = [pc EXCEPT ![t] = s]

\* Task t returns from warmup, whose variables go out of scope.
Returned(t) ==
  /\ Goto(t, IF t \in User THEN "idle" ELSE "wait")
  /\ keys' = [keys EXCEPT ![t] = {}]
  /\ ok' = [ok EXCEPT ![t] = TRUE]

\* No other task than t is rebuilding.
Alone(t) == \A u \in Task \ {t} : pc[u] \in {"idle", "wait"}

\* add: a load or an Increment records a key.
Add(k) ==
  /\ filter' = BloomAdd(filter, k)
  /\ UNCHANGED <<ready, warmupKeys, channels, local, overlap>>

\* rejects: both reads happen under the lock that reset takes.
Rejects(k) == ready /\ ~BloomContains(filter, k)

\* Group.Warmup is called.
Warmup(t, ks) ==
  /\ pc[t] = "idle"
  /\ Goto(t, "load")
  /\ keys' = [keys EXCEPT ![t] = ks]
  /\ todo' = [todo EXCEPT ![t] = ks]
  /\ overlap' = (overlap \/ ~Alone(t))
  /\ UNCHANGED <<gate, channels, ok>>

\* Mutant of Load: getLocallyOnlyForWarmUp returns before it adds the key.
LoadUnrecorded(t, k) ==
  /\ pc[t] = "load"
  /\ k \in todo[t]
  /\ todo' = [todo EXCEPT ![t] = @ \ {k}]
  /\ UNCHANGED <<gate, channels, pc, keys, ok, overlap>>

\* warmup loads a key, and getLocallyOnlyForWarmUp adds it to the filter.
Load(t, k) ==
  /\ pc[t] = "load"
  /\ k \in todo[t]
  /\ todo' = [todo EXCEPT ![t] = @ \ {k}]
  /\ filter' = BloomAdd(filter, k)
  /\ UNCHANGED <<ready, warmupKeys, channels, pc, keys, ok, overlap>>

\* The getter fails for a key; the others are loaded all the same.
LoadFails(t, k) ==
  /\ MayFail
  /\ pc[t] = "load"
  /\ k \in todo[t]
  /\ todo' = [todo EXCEPT ![t] = @ \ {k}]
  /\ ok' = [ok EXCEPT ![t] = FALSE]
  /\ UNCHANGED <<gate, channels, pc, keys, overlap>>

\* The loop over the keys ends; warmup gives up if a load has failed.
Loaded(t) ==
  /\ pc[t] = "load"
  /\ todo[t] = {}
  /\ IF ok[t] THEN Goto(t, "record") /\ UNCHANGED <<keys, ok>> ELSE Returned(t)
  /\ UNCHANGED <<gate, channels, todo, overlap>>

\* f.warmupKeys = keys, under warmupMu.
Record(t) ==
  /\ pc[t] = "record"
  /\ warmupKeys' = keys[t]
  /\ Goto(t, "publish")
  /\ UNCHANGED <<filter, ready, channels, keys, todo, ok, overlap>>

\* f.ready.Store(true), under no lock; warmup returns.
Publish(t) ==
  /\ pc[t] = "publish"
  /\ ready' = TRUE
  /\ Returned(t)
  /\ UNCHANGED <<filter, warmupKeys, channels, todo, overlap>>

-----------------------------------------------------------------------------
\* Mutant of StartRefresh: the channel of a running loop is overwritten.
StartRefreshAnyway(t) ==
  /\ pc[t] = "idle" /\ t \notin closing
  /\ refreshStop' = t
  /\ closed' = closed \ {t}
  /\ Goto(t, "wait")
  /\ UNCHANGED <<gate, closing, keys, todo, ok, overlap>>

\* startRefresh, under warmupMu: it does nothing while there is a loop.
StartRefresh(t) ==
  /\ refreshStop = None
  /\ pc[t] = "idle" /\ t \notin closing
  /\ refreshStop' = t
  /\ closed' = closed \ {t}
  /\ Goto(t, "wait")
  /\ UNCHANGED <<gate, closing, keys, todo, ok, overlap>>

\* Mutant of StopRefresh: the channel is taken without a look at it.
StopRefreshUnchecked ==
  /\ closing' = closing \cup {refreshStop}
  /\ refreshStop' = None
  /\ UNCHANGED <<gate, closed, local, overlap>>

\* stopRefresh, under warmupMu: the channel is taken.
StopRefresh ==
  /\ refreshStop # None
  /\ closing' = closing \cup {refreshStop}
  /\ refreshStop' = None
  /\ UNCHANGED <<gate, closed, local, overlap>>

\* stopRefresh closes it.
CloseStop(t) ==
  /\ t \in closing
  /\ closing' = closing \ {t}
  /\ closed' = closed \cup {t}
  /\ UNCHANGED <<gate, refreshStop, local, overlap>>

\* The select sees the closed channel, and the loop returns.
LoopEnds(t) ==
  /\ pc[t] = "wait"
  /\ t \in closed
  /\ Goto(t, "idle")
  /\ UNCHANGED <<gate, channels, keys, todo, ok, overlap>>

\* The ticker fires: keysForRefresh, and nothing more if there are none.
RefreshTick(t) ==
  /\ pc[t] = "wait"
  /\ warmupKeys # {}
  /\ keys' = [keys EXCEPT ![t] = warmupKeys]
  /\ todo' = [todo EXCEPT ![t] = warmupKeys]
  /\ Goto(t, "reset")
  /\ overlap' = (overlap \/ ~Alone(t))
  /\ UNCHANGED <<gate, channels, ok>>

\* Mutant of Reset: the gate stays ready while its filter is rebuilt.
ResetKeepsReady(t) ==
  /\ pc[t] = "reset"
  /\ filter' = EmptyFilter
  /\ Goto(t, "load")
  /\ overlap' = (overlap /\ ~Alone(t))
  /\ UNCHANGED <<ready, warmupKeys, channels, keys, todo, ok>>

\* reset, under f.mu.
Reset(t) ==
  /\ pc[t] = "reset"
  /\ ready' = FALSE
  /\ filter' = EmptyFilter
  /\ Goto(t, "load")
  /\ overlap' = (overlap /\ ~Alone(t))
  /\ UNCHANGED <<warmupKeys, channels, keys, todo, ok>>

TaskStep(t) ==
  \/ \E k \in Key : Load(t, k) \/ LoadFails(t, k)
  \/ Loaded(t) \/ Record(t) \/ Publish(t)

LoopStep(t) == LoopEnds(t) \/ RefreshTick(t) \/ Reset(t)

Next ==
  \/ \E k \in Key : Add(k)
  \/ \E t \in User, ks \in SUBSET Key : Warmup(t, ks)
  \/ \E t \in Task : TaskStep(t)
  \/ \E t \in Loop : StartRefresh(t) \/ CloseStop(t) \/ LoopStep(t)
  \/ StopRefresh

Spec == Init /\ [][Next]_vars

\* Goroutines are scheduled and tickers fire.  A select takes one of the cases
\* that are ready at random, so a closed channel is not passed over for ever.
FairSpec ==
  /\ Spec
  /\ \A t \in Task : WF_vars(TaskStep(t))
  /\ \A t \in Loop :
       WF_vars(LoopStep(t)) /\ WF_vars(CloseStop(t)) /\ SF_vars(LoopEnds(t))

-----------------------------------------------------------------------------
\* "filter gate should allow recorded keys": the gate does not turn away a key
\* of the last completed warm-up.
RecordedKeysAlwaysPass == \A k \in warmupKeys : ~Rejects(k)

\* The same while the filter is reset and rebuilt, with loads that fail and
\* loops that come and go, as long as no two rebuilds overlap; and again as
\* soon as one task has reset the filter without another one under way.
RecordedKeysPass == ~overlap => RecordedKeysAlwaysPass

\* "refresh start should keep the existing loop": however start and stop
\* interleave, at most one loop will go on for ever.
OneLoopLasts ==
  \A t, u \in Loop :
    pc[t] # "idle" /\ pc[u] # "idle" /\ t # u =>
      {t, u} \cap (closing \cup closed) # {}

\* "filter refresh did not publish a ready rebuild for warmup keys": once a loop
\* is not stopped any more, the users do not call Warmup any more and no load
\* fails any more, the gate is again and again ready with all its keys,
\* whatever state failures and overlaps have left it in.
RefreshRecovers ==
  <>[](/\ refreshStop # None
       /\ warmupKeys # {}
       /\ \A t \in User : pc[t] = "idle"
       /\ \A t \in Task : ok[t]) =>
    []<>(ready /\ \A k \in warmupKeys : BloomContains(filter, k))
=============================================================================
