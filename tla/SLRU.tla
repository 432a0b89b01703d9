-------------------------------- MODULE SLRU --------------------------------
(***************************************************************************)
(* internal/lru/slru.go: the segmented LRU cache.                          *)
(*                                                                         *)
(* A new key starts in the probation segment; a hit moves it to the        *)
(* protected segment, whose oldest entries fall back to probation when it  *)
(* exceeds its share.  As in LRU the caller holds a mutex, and the two     *)
(* loops, enforceProtectedLimit and enforceTotalLimit, take one step per   *)
(* round.                                                                  *)
(***************************************************************************)
EXTENDS StoreConfig

VARIABLES probation, protected,             \* the lists, newest first
          value, expire, seg,               \* the entry of each key
          curbytes,                         \* the byte counters
          probationBytes, protectedBytes,
          op,                               \* the method that is running
          loop,                             \* the loop that it is in
          reply                             \* what the last Get returned

lists == <<probation, protected, seg>>
counters == <<curbytes, probationBytes, protectedBytes>>
vars == <<probation, protected, value, expire, seg, curbytes,
          probationBytes, protectedBytes, op, loop, reply>>

SX == INSTANCE SequencesExt

Cached == {k \in Key : seg[k] # "none"}
Cost(k) == KeyLen + value[k]
Bytes(S) == SX!MapThenSumSet(Cost, S)
InSeg(s) == {k \in Key : seg[k] = s}

Init ==
  /\ probation = <<>> /\ protected = <<>>
  /\ value = [k \in Key |-> None]
  /\ expire = [k \in Key |-> "never"]
  /\ seg = [k \in Key |-> "none"]
  /\ curbytes = 0 /\ probationBytes = 0 /\ protectedBytes = 0
  /\ op = None /\ loop = None /\ reply = None

-----------------------------------------------------------------------------
\* protectedMaxBytes: the share of the protected segment, at least one byte.
\* NewSLRU replaces a ratio outside of (0, 1) by 0.8.
ProtectedMax ==
  LET share == IF 0 < RatioNum /\ RatioNum < RatioDen
               THEN (MaxBytes * RatioNum) \div RatioDen
               ELSE (MaxBytes * 4) \div 5
  IN  IF share <= 0 THEN 1 ELSE share

\* No method is running.
Idle == op = None

\* MoveToFront within list s, or PushFront.
ToFront(s, k) == <<k>> \o Without(s, {k})

\* removeElement for all keys of S, which are in the cache.
RemoveElements(S) ==
  /\ probation' = Without(probation, S)
  /\ protected' = Without(protected, S)
  /\ protectedBytes' = protectedBytes - Bytes(S \cap InSeg("protected"))
  /\ probationBytes' = probationBytes - Bytes(S \cap InSeg("probation"))
  /\ curbytes' = curbytes - Bytes(S)
  /\ value' = [k \in Key |-> IF k \in S THEN None ELSE value[k]]
  /\ expire' = [k \in Key |-> IF k \in S THEN "never" ELSE expire[k]]
  /\ seg' = [k \in Key |-> IF k \in S THEN "none" ELSE seg[k]]

\* The method m goes on with the loop l.
Enters(m, l) == op' = m /\ loop' = l

\* AddWithTTL of a key that is not in the cache, up to its loop.
AddNew(k, v, ttl) ==
  /\ Idle
  /\ k \notin Cached
  /\ probation' = ToFront(probation, k)
  /\ seg' = [seg EXCEPT ![k] = "probation"]
  /\ value' = [value EXCEPT ![k] = v]
  /\ expire' = [expire EXCEPT ![k] = IF ttl THEN "armed" ELSE "never"]
  /\ curbytes' = curbytes + KeyLen + v
  /\ probationBytes' = probationBytes + KeyLen + v
  /\ Enters("add", "total")
  /\ reply' = None
  /\ UNCHANGED <<protected, protectedBytes>>

\* Mutant of Update: the share of the protected segment is not enforced.
UpdateUnenforced(k, v, ttl) ==
  /\ Idle
  /\ k \in Cached
  /\ value' = [value EXCEPT ![k] = v]
  /\ expire' = [expire EXCEPT ![k] = IF ttl THEN "armed" ELSE "never"]
  /\ curbytes' = curbytes + v - value[k]
  /\ IF seg[k] = "protected"
     THEN /\ protectedBytes' = protectedBytes + v - value[k]
          /\ protected' = ToFront(protected, k)
          /\ UNCHANGED <<probation, probationBytes>>
     ELSE /\ probationBytes' = probationBytes + v - value[k]
          /\ probation' = ToFront(probation, k)
          /\ UNCHANGED <<protected, protectedBytes>>
  /\ Enters("update", "total")
  /\ reply' = None
  /\ UNCHANGED seg

\* AddWithTTL of a key that is in the cache: it keeps its segment.
Update(k, v, ttl) ==
  /\ Idle
  /\ k \in Cached
  /\ value' = [value EXCEPT ![k] = v]
  /\ expire' = [expire EXCEPT ![k] = IF ttl THEN "armed" ELSE "never"]
  /\ curbytes' = curbytes + v - value[k]
  /\ IF seg[k] = "protected"
     THEN /\ protectedBytes' = protectedBytes + v - value[k]
          /\ protected' = ToFront(protected, k)
          /\ UNCHANGED <<probation, probationBytes>>
     ELSE /\ probationBytes' = probationBytes + v - value[k]
          /\ probation' = ToFront(probation, k)
          /\ UNCHANGED <<protected, protectedBytes>>
  /\ Enters("update", "protected")
  /\ reply' = None
  /\ UNCHANGED seg

\* Get of a protected entry.
GetProtected(k) ==
  /\ Idle
  /\ seg[k] = "protected" /\ expire[k] # "past"
  /\ protected' = ToFront(protected, k)
  /\ reply' = value[k]
  /\ UNCHANGED <<probation, seg, value, expire, counters, op, loop>>

\* Mutant of Promote: kv.seg keeps its value.
PromoteKeepsSegment(k) ==
  /\ Idle
  /\ seg[k] = "probation" /\ expire[k] # "past"
  /\ probation' = Without(probation, {k})
  /\ probationBytes' = probationBytes - Cost(k)
  /\ protected' = ToFront(protected, k)
  /\ protectedBytes' = protectedBytes + Cost(k)
  /\ Enters("get", "protected")
  /\ reply' = value[k]
  /\ UNCHANGED <<seg, value, expire, curbytes>>

\* Get of a probation entry: promote, up to its loops.
Promote(k) ==
  /\ Idle
  /\ seg[k] = "probation" /\ expire[k] # "past"
  /\ probation' = Without(probation, {k})
  /\ probationBytes' = probationBytes - Cost(k)
  /\ seg' = [seg EXCEPT ![k] = "protected"]
  /\ protected' = ToFront(protected, k)
  /\ protectedBytes' = protectedBytes + Cost(k)
  /\ Enters("get", "protected")
  /\ reply' = value[k]
  /\ UNCHANGED <<value, expire, curbytes>>

\* Get of an entry that is missing or has expired.
GetMiss(k) ==
  /\ Idle
  /\ k \in Cached => expire[k] = "past"
  /\ RemoveElements({k} \cap Cached)
  /\ reply' = None
  /\ UNCHANGED <<op, loop>>

-----------------------------------------------------------------------------
\* The condition of the loop in enforceProtectedLimit.
OverProtected ==
  MaxBytes > 0 /\ protectedBytes > ProtectedMax /\ protected # <<>>

\* Mutant of Demote: the entry is moved within its own segment.
DemoteRotates ==
  /\ loop = "protected"
  /\ OverProtected
  /\ protected' = ToFront(protected, SX!Last(protected))
  /\ UNCHANGED <<probation, seg, value, expire, counters, op, loop, reply>>

\* One round: the oldest protected entry falls back to probation.
Demote ==
  /\ loop = "protected"
  /\ OverProtected
  /\ LET k == SX!Last(protected)
     IN  /\ protected' = SX!Front(protected)
         /\ protectedBytes' = protectedBytes - Cost(k)
         /\ seg' = [seg EXCEPT ![k] = "probation"]
         /\ probation' = ToFront(probation, k)
         /\ probationBytes' = probationBytes + Cost(k)
  /\ UNCHANGED <<value, expire, curbytes, op, loop, reply>>

\* enforceProtectedLimit returns, enforceTotalLimit begins.
ProtectedFits ==
  /\ loop = "protected"
  /\ ~OverProtected
  /\ loop' = "total"
  /\ UNCHANGED <<lists, value, expire, counters, op, reply>>

\* Mutant of Oldest: the protected segment goes first.
OldestProtected ==
  IF protected # <<>> THEN SX!Last(protected) ELSE SX!Last(probation)

\* What RemoveOldest and the loop of enforceTotalLimit remove next.
Oldest == IF probation # <<>> THEN SX!Last(probation) ELSE SX!Last(protected)

\* The loop condition of enforceTotalLimit, which also ends on an empty cache.
OverTotal ==
  MaxBytes # 0 /\ curbytes > MaxBytes /\ probation \o protected # <<>>

\* One round of it.
Evict ==
  /\ loop = "total"
  /\ OverTotal
  /\ RemoveElements({Oldest})
  /\ UNCHANGED <<op, loop, reply>>

\* enforceTotalLimit returns, and with it the method.
TotalFits ==
  /\ loop = "total"
  /\ ~OverTotal
  /\ Enters(None, None)
  /\ UNCHANGED <<lists, value, expire, counters, reply>>

-----------------------------------------------------------------------------
Remove(k) ==
  /\ Idle
  /\ RemoveElements({k} \cap Cached)
  /\ reply' = None
  /\ UNCHANGED <<op, loop>>

RemoveOldest ==
  /\ Idle
  /\ Cached # {}
  /\ RemoveElements({Oldest})
  /\ reply' = None
  /\ UNCHANGED <<op, loop>>

RemoveExpired ==
  /\ Idle
  /\ RemoveElements({k \in Cached : expire[k] = "past"})
  /\ reply' = None
  /\ UNCHANGED <<op, loop>>

\* The clock passes the expireAt of an entry.
Lapse(k) ==
  /\ expire[k] = "armed"
  /\ expire' = [expire EXCEPT ![k] = "past"]
  /\ UNCHANGED <<lists, value, counters, op, loop, reply>>

Next ==
  \/ \E k \in Key, v \in Size, ttl \in BOOLEAN :
       AddNew(k, v, ttl) \/ Update(k, v, ttl)
  \/ \E k \in Key : GetProtected(k) \/ Promote(k) \/ GetMiss(k)
  \/ Demote \/ ProtectedFits \/ Evict \/ TotalFits
  \/ \E k \in Key : Remove(k) \/ Lapse(k)
  \/ RemoveOldest
  \/ RemoveExpired

Spec == Init /\ [][Next]_vars

\* A method that has begun goes on.
Progress == WF_vars(Demote \/ ProtectedFits \/ Evict \/ TotalFits)

-----------------------------------------------------------------------------
\* The types, and that each list holds the keys whose entry names it, once.
TypeOK ==
  /\ probation \in Seq(Key) /\ protected \in Seq(Key)
  /\ value \in [Key -> Size \cup {None}]
  /\ expire \in [Key -> {"never", "armed", "past"}]
  /\ seg \in [Key -> {"none", "probation", "protected"}]
  /\ curbytes \in Nat /\ probationBytes \in Nat /\ protectedBytes \in Nat
  /\ op \in {"add", "update", "get", None}
  /\ loop \in {"protected", "total", None}
  /\ reply \in Size \cup {None}
  /\ SX!ToSet(probation) = InSeg("probation") /\ SX!IsInjective(probation)
  /\ SX!ToSet(protected) = InSeg("protected") /\ SX!IsInjective(protected)
=============================================================================
