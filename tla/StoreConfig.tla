---------------------------- MODULE StoreConfig -----------------------------
(***************************************************************************)
(* What newConfiguredCache of groupcache_config.go gives a store, and the  *)
(* data the stores work on.  A ShardedCache sends every operation on a key *)
(* to the shard its hash selects, so a shard is a store of its own, with a *)
(* part of the budget.                                                     *)
(***************************************************************************)
EXTENDS Integers, Sequences

CONSTANTS Key,         \* the keys of one store: all keys, or those of a shard
          Size,        \* the lengths a value may have; a value is its length
          KeyLen,      \* the length of a key
          CacheBytes,  \* the budget of the group; 0 means that there is none
          UseShards,   \* WithShardedCache
          Shards,
          RatioNum,    \* the protected ratio of WithSLRU, as a fraction
          RatioDen,
          None

ASSUME StoreConfigAssumption ==
  /\ Size \subseteq Nat
  /\ KeyLen \in Nat \ {0}
  /\ CacheBytes \in Int
  /\ UseShards \in BOOLEAN
  /\ Shards \in Nat
  /\ RatioNum \in Int
  /\ RatioDen \in Nat \ {0}
  /\ None \notin Nat \cup Key
  /\ None \notin {"add", "update", "get", "protected", "total"}
  /\ None \notin [len : Nat, life : {"never", "armed", "past"}]

\* normalizedShardCount.
ShardCount == IF Shards = 0 THEN 256 ELSE Shards

\* How many stores the group spreads its keys over.
Stores == IF UseShards THEN ShardCount ELSE 1

\* Mutant of MaxBytes: every shard gets the whole budget.
MaxBytesUndivided == CacheBytes

\* The budget of one store.  A group without a limit, whose budget is 0, has
\* shards of one byte.
MaxBytes ==
  IF ~UseShards THEN CacheBytes
  ELSE IF CacheBytes \div ShardCount <= 0 THEN 1
  ELSE CacheBytes \div ShardCount

\* list.List.Remove for all elements of T: what is left of the list s.
Without(s, T) ==
  LET F[i \in 0 .. Len(s)] ==
        IF i = 0 THEN <<>>
        ELSE IF s[i] \in T THEN F[i - 1] ELSE Append(F[i - 1], s[i])
  IN  F[Len(s)]
=============================================================================
