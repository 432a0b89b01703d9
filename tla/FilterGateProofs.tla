-------------------------- MODULE FilterGateProofs --------------------------
(***************************************************************************)
(* Proofs about FilterGate and BloomFilter, for every set of keys, users   *)
(* and loops, every size of the filter and every pair of hash functions:   *)
(* the types, that at most one refresh loop lasts, and that the gate never *)
(* turns away a recorded key as long as rebuilds do not overlap.           *)
(*                                                                         *)
(* OneLoopLasts needs to know that a running loop whose channel has left   *)
(* refreshStop has it closed or about to be closed (LoopInv).              *)
(* RecordedKeysPass needs to know that rebuilds which do not overlap are   *)
(* alone (AloneInv), and what the filter holds at each step of a rebuild   *)
(* (RebuildInv).                                                           *)
(***************************************************************************)
EXTENDS FilterGate, TLAPS

\* Task t is between the start and the end of a rebuild.
Busy(t) == pc[t] \notin {"idle", "wait"}

LoopInv ==
  \A t \in Loop : pc[t] # "idle" => t = refreshStop \/ t \in closing \cup closed

\* The history variable overlap says what its comment says.
AloneInv == ~overlap => \A t, u \in Task : Busy(t) /\ Busy(u) => t = u

\* What a rebuild has done so far is in the filter, unless another one came in
\* between; a rebuild that resets the filter starts over with all of its keys.
RebuildInv ==
  \A t \in Task :
    /\ pc[t] = "reset" => todo[t] = keys[t]
    /\ ~overlap /\ pc[t] = "load" /\ ok[t] =>
         \A k \in keys[t] \ todo[t] : BloomContains(filter, k)
    /\ ~overlap /\ pc[t] \in {"record", "publish"} =>
         \A k \in keys[t] : BloomContains(filter, k)
    /\ ~overlap /\ pc[t] = "publish" => warmupKeys = keys[t]

IInv == TypeOK /\ LoopInv /\ AloneInv /\ RebuildInv /\ RecordedKeysPass

-----------------------------------------------------------------------------
\* New leaves a filter of at least one position.
LEMMA LenType == Len \in Nat \ {0}
  BY BloomFilterAssumption DEF Len

\* What % returns is below the divisor.
LEMMA ModRange ==
  ASSUME NEW a \in Int, NEW b \in Nat \ {0}
  PROVE  a % b \in 0 .. b - 1
  OBVIOUS

\* indexes stays within the array, whatever the hash values are and however the
\* arithmetic wraps around.
LEMMA IndexesInRange ==
  ASSUME NEW k \in Key
  PROVE  Indexes(k) \subseteq 0 .. Len - 1
  <1>1. SUFFICES ASSUME NEW i \in 0 .. Hashes - 1
                 PROVE  ((Hash1[k] + i * Step(k)) % Word) % Len \in 0 .. Len - 1
    BY DEF Indexes
  <1>2. Hash1[k] \in Int /\ Step(k) \in Int
    BY BloomFilterAssumption DEF Step
  <1>3. i * Step(k) \in Int
    BY <1>2
  <1>4. Hash1[k] + i * Step(k) \in Int
    BY <1>2, <1>3
  <1>5. Word \in Nat \ {0}
    BY BloomFilterAssumption
  <1>6. (Hash1[k] + i * Step(k)) % Word \in 0 .. Word - 1
    BY <1>4, <1>5, ModRange
  <1>7. (Hash1[k] + i * Step(k)) % Word \in Int
    BY <1>5, <1>6
  <1> QED
    BY <1>7, LenType, ModRange

\* Add makes a key pass and takes no other key back.
LEMMA AddKeeps ==
  ASSUME NEW f, NEW k
  PROVE  /\ BloomContains(BloomAdd(f, k), k)
         /\ \A j : BloomContains(f, j) => BloomContains(BloomAdd(f, k), j)
  BY DEF BloomContains, BloomAdd

LEMMA AddType ==
  ASSUME NEW f \in SUBSET (0 .. Len - 1), NEW k \in Key
  PROVE  BloomAdd(f, k) \subseteq 0 .. Len - 1
  BY IndexesInRange DEF BloomAdd

-----------------------------------------------------------------------------
\* The gate as newFilterGate returns it satisfies the inductive invariant.
LEMMA InitIInv == Init => IInv
  <1> SUFFICES ASSUME Init PROVE IInv
    OBVIOUS
  <1> USE FilterGateAssumption DEF Init
  <1>1. TypeOK     BY DEF TypeOK, TaskState, EmptyFilter, Task
  <1>2. LoopInv    BY DEF LoopInv, Task
  <1>3. AloneInv   BY DEF AloneInv, Busy
  <1>4. RebuildInv BY DEF RebuildInv
  <1>5. RecordedKeysPass BY DEF RecordedKeysPass, RecordedKeysAlwaysPass
  <1> QED BY <1>1, <1>2, <1>3, <1>4, <1>5 DEF IInv

\* A load or an Increment that adds its key preserves it.
LEMMA AddIInv ==
  ASSUME IInv, NEW k \in Key, Add(k)
  PROVE  IInv'
  <1> USE FilterGateAssumption DEF IInv, Add, gate, channels, local, Goto, Task
  <1>1. TypeOK'
    BY AddType DEF TypeOK, TaskState
  <1>2. LoopInv'
    BY DEF TypeOK, LoopInv
  <1>3. AloneInv'
    BY DEF TypeOK, AloneInv, Busy
  <1>4. RebuildInv'
    BY AddKeeps DEF TypeOK, RebuildInv, AloneInv, Busy
  <1>5. RecordedKeysPass'
    BY AddKeeps DEF TypeOK, RecordedKeysPass, RecordedKeysAlwaysPass, Rejects
  <1> QED BY <1>1, <1>2, <1>3, <1>4, <1>5

\* A call of Warmup preserves it: it overlaps, or no one else is rebuilding.
LEMMA WarmupIInv ==
  ASSUME IInv, NEW t \in User, NEW ks \in SUBSET Key, Warmup(t, ks)
  PROVE  IInv'
  <1> USE FilterGateAssumption DEF IInv, Warmup, gate, channels, local, Goto, Task
  <1>1. TypeOK'
    BY DEF TypeOK, TaskState
  <1>2. LoopInv'
    BY DEF TypeOK, LoopInv
  <1>3. AloneInv'
    BY DEF TypeOK, AloneInv, Busy, Alone
  <1>4. RebuildInv'
    BY DEF TypeOK, RebuildInv, AloneInv, Busy, Alone
  <1>5. RecordedKeysPass'
    BY DEF TypeOK, RecordedKeysPass, RecordedKeysAlwaysPass, Rejects, Alone
  <1> QED BY <1>1, <1>2, <1>3, <1>4, <1>5

\* A key that is loaded is in the filter from then on.
LEMMA LoadIInv ==
  ASSUME IInv, NEW t \in Task, NEW k \in Key, Load(t, k)
  PROVE  IInv'
  <1> USE FilterGateAssumption DEF IInv, Load, gate, channels, local, Goto, Task
  <1>1. TypeOK'
    BY AddType DEF TypeOK, TaskState
  <1>2. LoopInv'
    BY DEF TypeOK, LoopInv
  <1>3. AloneInv'
    BY DEF TypeOK, AloneInv, Busy
  <1>4. RebuildInv'
    BY AddKeeps DEF TypeOK, RebuildInv, AloneInv, Busy
  <1>5. RecordedKeysPass'
    BY AddKeeps DEF TypeOK, RecordedKeysPass, RecordedKeysAlwaysPass, Rejects
  <1> QED BY <1>1, <1>2, <1>3, <1>4, <1>5

\* A load that fails makes its rebuild fail.
LEMMA LoadFailsIInv ==
  ASSUME IInv, NEW t \in Task, NEW k \in Key, LoadFails(t, k)
  PROVE  IInv'
  <1> USE FilterGateAssumption DEF IInv, LoadFails, gate, channels, local, Goto, Task
  <1>1. TypeOK'
    BY DEF TypeOK, TaskState
  <1>2. LoopInv'
    BY DEF TypeOK, LoopInv
  <1>3. AloneInv'
    BY DEF TypeOK, AloneInv, Busy
  <1>4. RebuildInv'
    BY DEF TypeOK, RebuildInv, AloneInv, Busy
  <1>5. RecordedKeysPass'
    BY DEF TypeOK, RecordedKeysPass, RecordedKeysAlwaysPass, Rejects
  <1> QED BY <1>1, <1>2, <1>3, <1>4, <1>5

\* The end of the loop over the keys preserves it.
LEMMA LoadedIInv ==
  ASSUME IInv, NEW t \in Task, Loaded(t)
  PROVE  IInv'
  <1> USE FilterGateAssumption DEF IInv, Loaded, Returned, gate, channels, local, Goto, Task
  <1>1. TypeOK'
    BY DEF TypeOK, TaskState
  <1>2. LoopInv'
    BY DEF TypeOK, LoopInv
  <1>3. AloneInv'
    BY DEF TypeOK, AloneInv, Busy
  <1>4. RebuildInv'
    BY DEF TypeOK, RebuildInv, AloneInv, Busy
  <1>5. RecordedKeysPass'
    BY DEF TypeOK, RecordedKeysPass, RecordedKeysAlwaysPass, Rejects
  <1> QED BY <1>1, <1>2, <1>3, <1>4, <1>5

\* The keys of a rebuild are in the filter when they replace warmupKeys.
LEMMA RecordIInv ==
  ASSUME IInv, NEW t \in Task, Record(t)
  PROVE  IInv'
  <1> USE FilterGateAssumption DEF IInv, Record, gate, channels, local, Goto, Task
  <1>1. TypeOK'
    BY DEF TypeOK, TaskState
  <1>2. LoopInv'
    BY DEF TypeOK, LoopInv
  <1>3. AloneInv'
    BY DEF TypeOK, AloneInv, Busy
  <1>4. RebuildInv'
    BY DEF TypeOK, RebuildInv, AloneInv, Busy
  <1>5. RecordedKeysPass'
    BY DEF TypeOK, RecordedKeysPass, RecordedKeysAlwaysPass, Rejects, RebuildInv
  <1> QED BY <1>1, <1>2, <1>3, <1>4, <1>5

\* The gate becomes ready with the keys of the rebuild that publishes it.
LEMMA PublishIInv ==
  ASSUME IInv, NEW t \in Task, Publish(t)
  PROVE  IInv'
  <1> USE FilterGateAssumption DEF IInv, Publish, Returned, gate, channels, local, Goto, Task
  <1>1. TypeOK'
    BY DEF TypeOK, TaskState
  <1>2. LoopInv'
    BY DEF TypeOK, LoopInv
  <1>3. AloneInv'
    BY DEF TypeOK, AloneInv, Busy
  <1>4. RebuildInv'
    BY DEF TypeOK, RebuildInv, AloneInv, Busy
  <1>5. RecordedKeysPass'
    BY DEF TypeOK, RecordedKeysPass, RecordedKeysAlwaysPass, Rejects, RebuildInv
  <1> QED BY <1>1, <1>2, <1>3, <1>4, <1>5

\* startRefresh preserves it: every loop that still runs is being stopped.
LEMMA StartRefreshIInv ==
  ASSUME IInv, NEW t \in Loop, StartRefresh(t)
  PROVE  IInv'
  <1> USE FilterGateAssumption DEF IInv, StartRefresh, gate, channels, local, Goto, Task
  <1>1. TypeOK'
    BY DEF TypeOK, TaskState
  <1>2. LoopInv'
    BY DEF TypeOK, LoopInv
  <1>3. AloneInv'
    BY DEF TypeOK, AloneInv, Busy
  <1>4. RebuildInv'
    BY DEF TypeOK, RebuildInv, AloneInv, Busy
  <1>5. RecordedKeysPass'
    BY DEF TypeOK, RecordedKeysPass, RecordedKeysAlwaysPass, Rejects
  <1> QED BY <1>1, <1>2, <1>3, <1>4, <1>5

\* stopRefresh taking the channel preserves it.
LEMMA StopRefreshIInv ==
  ASSUME IInv, StopRefresh
  PROVE  IInv'
  <1> USE FilterGateAssumption DEF IInv, StopRefresh, gate, channels, local, Goto, Task
  <1>1. TypeOK'
    BY DEF TypeOK, TaskState
  <1>2. LoopInv'
    BY DEF TypeOK, LoopInv
  <1>3. AloneInv'
    BY DEF TypeOK, AloneInv, Busy
  <1>4. RebuildInv'
    BY DEF TypeOK, RebuildInv, AloneInv, Busy
  <1>5. RecordedKeysPass'
    BY DEF TypeOK, RecordedKeysPass, RecordedKeysAlwaysPass, Rejects
  <1> QED BY <1>1, <1>2, <1>3, <1>4, <1>5

\* stopRefresh closing the channel preserves it.
LEMMA CloseStopIInv ==
  ASSUME IInv, NEW t \in Loop, CloseStop(t)
  PROVE  IInv'
  <1> USE FilterGateAssumption DEF IInv, CloseStop, gate, channels, local, Goto, Task
  <1>1. TypeOK'
    BY DEF TypeOK, TaskState
  <1>2. LoopInv'
    BY DEF TypeOK, LoopInv
  <1>3. AloneInv'
    BY DEF TypeOK, AloneInv, Busy
  <1>4. RebuildInv'
    BY DEF TypeOK, RebuildInv, AloneInv, Busy
  <1>5. RecordedKeysPass'
    BY DEF TypeOK, RecordedKeysPass, RecordedKeysAlwaysPass, Rejects
  <1> QED BY <1>1, <1>2, <1>3, <1>4, <1>5

\* A loop that ends preserves it.
LEMMA LoopEndsIInv ==
  ASSUME IInv, NEW t \in Loop, LoopEnds(t)
  PROVE  IInv'
  <1> USE FilterGateAssumption DEF IInv, LoopEnds, gate, channels, local, Goto, Task
  <1>1. TypeOK'
    BY DEF TypeOK, TaskState
  <1>2. LoopInv'
    BY DEF TypeOK, LoopInv
  <1>3. AloneInv'
    BY DEF TypeOK, AloneInv, Busy
  <1>4. RebuildInv'
    BY DEF TypeOK, RebuildInv, AloneInv, Busy
  <1>5. RecordedKeysPass'
    BY DEF TypeOK, RecordedKeysPass, RecordedKeysAlwaysPass, Rejects
  <1> QED BY <1>1, <1>2, <1>3, <1>4, <1>5

\* A tick of a loop preserves it.
LEMMA RefreshTickIInv ==
  ASSUME IInv, NEW t \in Loop, RefreshTick(t)
  PROVE  IInv'
  <1> USE FilterGateAssumption DEF IInv, RefreshTick, gate, channels, local, Goto, Task
  <1>1. TypeOK'
    BY DEF TypeOK, TaskState
  <1>2. LoopInv'
    BY DEF TypeOK, LoopInv
  <1>3. AloneInv'
    BY DEF TypeOK, AloneInv, Busy, Alone
  <1>4. RebuildInv'
    BY DEF TypeOK, RebuildInv, AloneInv, Busy, Alone
  <1>5. RecordedKeysPass'
    BY DEF TypeOK, RecordedKeysPass, RecordedKeysAlwaysPass, Rejects, Alone
  <1> QED BY <1>1, <1>2, <1>3, <1>4, <1>5

\* A reset preserves it: the gate is not ready any more, and a task that is
\* alone starts with all of its keys.
LEMMA ResetIInv ==
  ASSUME IInv, NEW t \in Loop, Reset(t)
  PROVE  IInv'
  <1> USE FilterGateAssumption DEF IInv, Reset, gate, channels, local, Goto, Task
  <1>1. TypeOK'
    BY LenType DEF TypeOK, TaskState, EmptyFilter
  <1>2. LoopInv'
    BY DEF TypeOK, LoopInv
  <1>3. AloneInv'
    BY DEF TypeOK, AloneInv, Busy, Alone
  <1>4. RebuildInv'
    BY DEF TypeOK, RebuildInv, AloneInv, Busy, Alone, EmptyFilter
  <1>5. RecordedKeysPass'
    BY DEF TypeOK, RecordedKeysPass, RecordedKeysAlwaysPass, Rejects, Alone, EmptyFilter
  <1> QED BY <1>1, <1>2, <1>3, <1>4, <1>5

\* So does every step.
LEMMA NextIInv == IInv /\ [Next]_vars => IInv'
  <1> SUFFICES ASSUME IInv, [Next]_vars PROVE IInv'
    OBVIOUS
  <1>1. CASE \E k \in Key : Add(k)
    BY <1>1, AddIInv
  <1>2. CASE \E t \in User, ks \in SUBSET Key : Warmup(t, ks)
    BY <1>2, WarmupIInv
  <1>3. CASE \E t \in Task : TaskStep(t)
    BY <1>3, LoadIInv, LoadFailsIInv, LoadedIInv, RecordIInv, PublishIInv DEF TaskStep
  <1>4. CASE \E t \in Loop : StartRefresh(t) \/ CloseStop(t) \/ LoopStep(t)
    BY <1>4, StartRefreshIInv, CloseStopIInv, LoopEndsIInv, RefreshTickIInv, ResetIInv
       DEF LoopStep
  <1>5. CASE StopRefresh
    BY <1>5, StopRefreshIInv
  <1>6. CASE UNCHANGED vars
    BY <1>6 DEF vars, gate, channels, local, IInv, TypeOK, LoopInv, AloneInv, Busy,
       RebuildInv, RecordedKeysPass, RecordedKeysAlwaysPass, Rejects
  <1> QED BY <1>1, <1>2, <1>3, <1>4, <1>5, <1>6 DEF Next

LEMMA Invariance == Spec => []IInv
  BY InitIInv, NextIInv, PTL DEF Spec

-----------------------------------------------------------------------------
\* TypeOK, for every filter and every set of tasks: an index is never outside of
\* the array, and stopRefresh never closes a nil channel.
THEOREM TypeCorrect == Spec => []TypeOK
  <1>1. IInv => TypeOK BY DEF IInv
  <1> QED BY <1>1, Invariance, PTL

\* OneLoopLasts: however calls of startRefresh and stopRefresh interleave, at
\* most one refresh loop is not told to end.
THEOREM LoopsAreStopped == Spec => []OneLoopLasts
  <1>1. IInv => OneLoopLasts BY DEF IInv, LoopInv, OneLoopLasts
  <1> QED BY <1>1, Invariance, PTL

\* RecordedKeysPass: the gate does not turn away a key of the last completed
\* warm-up unless rebuilds have overlapped since the last reset that was alone.
THEOREM RecordedKeys == Spec => []RecordedKeysPass
  <1>1. IInv => RecordedKeysPass BY DEF IInv
  <1> QED BY <1>1, Invariance, PTL
=============================================================================
