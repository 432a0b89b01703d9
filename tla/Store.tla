------------------------------- MODULE Store --------------------------------
(***************************************************************************)
(* cache.ensureStore: the store behind a cache, or behind a shard of a     *)
(* ShardedCache, is an LRU or a segmented LRU cache, as the group was      *)
(* configured.  The two differ in their lists and counters; the entries of *)
(* the keys and what the last Get returned are the same variables.         *)
(***************************************************************************)
EXTENDS StoreConfig

VARIABLES useSLRU,                                  \* fixed from the start
          value, expire, curbytes, reply,           \* of both
          ll, adding,                               \* see LRU
          probation, protected, seg, probationBytes, protectedBytes,
          op, loop                                  \* see SLRU

ofLRU == <<ll, adding>>
ofSLRU == <<probation, protected, seg, probationBytes, protectedBytes, op, loop>>
vars == <<useSLRU, value, expire, curbytes, reply, ofLRU, ofSLRU>>

L == INSTANCE LRU
S == INSTANCE SLRU

Init == useSLRU \in BOOLEAN /\ L!Init /\ S!Init

Next ==
  \/ ~useSLRU /\ L!Next /\ UNCHANGED <<useSLRU, ofSLRU>>
  \/ useSLRU /\ S!Next /\ UNCHANGED <<useSLRU, ofLRU>>

\* A method that has the mutex goes on; see LRU and SLRU.
Spec == Init /\ [][Next]_vars
FairSpec == Spec /\ L!Progress /\ S!Progress

-----------------------------------------------------------------------------
\* The types of both stores, and that the lists and the map of each hold the
\* same keys, each key once and in the list that its entry names.
TypeOK == useSLRU \in BOOLEAN /\ IF useSLRU THEN S!TypeOK ELSE L!TypeOK

\* The budget of the group is a limit for all of its stores together, whatever
\* their number: as much as one of them holds between two methods fits in as
\* many times as there are stores.  (A budget below one byte per store is not
\* kept: a store gets at least one byte.)
StoresWithinBudget ==
  /\ CacheBytes >= Stores
  /\ L!Idle /\ S!Idle
  => Stores * L!Bytes(L!Cached) <= CacheBytes

\* The key that an LRU store is adding is the last one to go: it leaves only
\* when it is alone and does not fit by itself.
NewestGoesLast ==
  [][adding # None /\ adding \in L!Cached /\ value'[adding] = None
       => ll = <<adding>> /\ L!Cost(adding) > MaxBytes]_vars

\* The protected segment keeps to its share, by its true bytes and not only by
\* its counter, whenever no method is running.
ProtectedShare ==
  S!Idle /\ MaxBytes > 0 => S!Bytes(S!InSeg("protected")) <= S!ProtectedMax

\* "protected hot key should survive probation scan": storing a new key, of any
\* size, neither evicts nor demotes a protected entry.
ScanResistant == [][op = "add" => UNCHANGED protected]_vars

\* Every method returns: the eviction loop of AddWithTTL, the loops of
\* enforceProtectedLimit and of enforceTotalLimit end.
MethodReturns == ~(L!Idle /\ S!Idle) ~> L!Idle /\ S!Idle

\* Both stores implement BoundedCache.  In particular the byte counters, which
\* nothing ever recomputes, stay equal to the bytes of the entries, a store
\* returns only when they fit, only a store that exceeds the budget evicts, and
\* Get of SLRU, which moves entries around and runs both loops, never loses an
\* entry that has not expired.
Bounded == INSTANCE BoundedCache WITH
  content <- [k \in Key |-> IF k \in L!Cached
                            THEN [len |-> value[k], life |-> expire[k]]
                            ELSE None],
  busy <- adding # None \/ op \in {"add", "update"}
BoundedCacheSpec == Bounded!Spec
=============================================================================
