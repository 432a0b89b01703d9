-------------------------------- MODULE LRU ---------------------------------
(***************************************************************************)
(* internal/lru/lru.go: the size-limited LRU cache.                        *)
(*                                                                         *)
(* The caller, cache.go, holds its mutex during every method, so methods   *)
(* do not interleave.  The eviction loop of AddWithTTL is a loop here too: *)
(* one RemoveOldest per step, with the state in between visible.           *)
(***************************************************************************)
EXTENDS StoreConfig

VARIABLES ll,        \* the list: keys, the most recently used one first
          value,     \* value[k]: the entry's value, None if k is not in the map
          expire,    \* expire[k]: whether expireAt is set and in the past
          curbytes,  \* the byte counter
          adding,    \* the key that AddWithTTL makes room for, None otherwise
          reply      \* what the last Get returned

vars == <<ll, value, expire, curbytes, adding, reply>>

SX == INSTANCE SequencesExt

Cached == {k \in Key : value[k] # None}
Cost(k) == KeyLen + value[k]
Bytes(S) == SX!MapThenSumSet(Cost, S)
PastDue(k) == expire[k] = "past"

Init ==
  /\ ll = <<>>
  /\ value = [k \in Key |-> None]
  /\ expire = [k \in Key |-> "never"]
  /\ curbytes = 0
  /\ adding = None
  /\ reply = None

-----------------------------------------------------------------------------
\* No method is running.
Idle == adding = None

\* c.ll.MoveToFront, or PushFront for a key that is not in the list.
Front(k) == <<k>> \o Without(ll, {k})

\* Mutant of Deleted: the counter is not adjusted.
DeletedUncounted(S) ==
  /\ ll' = Without(ll, S)
  /\ value' = [k \in Key |-> IF k \in S THEN None ELSE value[k]]
  /\ expire' = [k \in Key |-> IF k \in S THEN "never" ELSE expire[k]]
  /\ UNCHANGED curbytes

\* The entries of S leave the list and the map, and their bytes the counter.
Deleted(S) ==
  /\ ll' = Without(ll, S)
  /\ value' = [k \in Key |-> IF k \in S THEN None ELSE value[k]]
  /\ expire' = [k \in Key |-> IF k \in S THEN "never" ELSE expire[k]]
  /\ curbytes' = curbytes - Bytes(S \cap Cached)

\* AddWithTTL up to its loop; Add is the case without a ttl.
AddWithTTL(k, v, ttl) ==
  /\ Idle
  /\ ll' = Front(k)
  /\ curbytes' = curbytes + v - IF k \in Cached THEN value[k] ELSE -KeyLen
  /\ value' = [value EXCEPT ![k] = v]
  /\ expire' = [expire EXCEPT ![k] = IF ttl THEN "armed" ELSE "never"]
  /\ adding' = k
  /\ reply' = None

\* The condition of the loop.
Over == MaxBytes # 0 /\ curbytes > MaxBytes

\* Mutant of Evict: the wrong end of the list.
EvictNewest ==
  /\ ~Idle
  /\ Over
  /\ Deleted({Head(ll)})
  /\ UNCHANGED <<adding, reply>>

\* One round of the loop: RemoveOldest.
Evict ==
  /\ ~Idle
  /\ Over
  /\ IF ll = <<>> THEN UNCHANGED <<ll, value, expire, curbytes>>
     ELSE Deleted({SX!Last(ll)})
  /\ UNCHANGED <<adding, reply>>

\* The loop ends and AddWithTTL returns.
Fits ==
  /\ ~Idle
  /\ ~Over
  /\ adding' = None
  /\ UNCHANGED <<ll, value, expire, curbytes, reply>>

\* Get: a live entry moves to the front, an expired one is removed.
Get(k) ==
  /\ Idle
  /\ IF k \in Cached /\ ~PastDue(k)
     THEN /\ ll' = Front(k)
          /\ reply' = value[k]
          /\ UNCHANGED <<value, expire, curbytes>>
     ELSE Deleted({k} \cap Cached) /\ reply' = None
  /\ UNCHANGED adding

Remove(k) ==
  /\ Idle
  /\ Deleted({k} \cap Cached)
  /\ reply' = None
  /\ UNCHANGED adding

\* RemoveOldest, called by a user of the package.
RemoveOldest ==
  /\ Idle
  /\ ll # <<>>
  /\ Deleted({SX!Last(ll)})
  /\ reply' = None
  /\ UNCHANGED adding

RemoveExpired ==
  /\ Idle
  /\ Deleted({k \in Cached : PastDue(k)})
  /\ reply' = None
  /\ UNCHANGED adding

\* The clock passes the expireAt of an entry.
Lapse(k) ==
  /\ expire[k] = "armed"
  /\ expire' = [expire EXCEPT ![k] = "past"]
  /\ UNCHANGED <<ll, value, curbytes, adding, reply>>

Next ==
  \/ \E k \in Key, v \in Size, ttl \in BOOLEAN : AddWithTTL(k, v, ttl)
  \/ Evict
  \/ Fits
  \/ \E k \in Key : Get(k) \/ Remove(k) \/ Lapse(k)
  \/ RemoveOldest
  \/ RemoveExpired

Spec == Init /\ [][Next]_vars

\* A method that has begun goes on.
Progress == WF_vars(Evict) /\ WF_vars(Fits)

-----------------------------------------------------------------------------
\* The types, and that the list and the map hold the same keys, each key once.
TypeOK ==
  /\ ll \in Seq(Key)
  /\ value \in [Key -> Size \cup {None}]
  /\ expire \in [Key -> {"never", "armed", "past"}]
  /\ curbytes \in Nat
  /\ adding \in Key \cup {None}
  /\ reply \in Size \cup {None}
  /\ SX!ToSet(ll) = Cached /\ SX!IsInjective(ll)
=============================================================================
