---------------------------- MODULE BloomFilter -----------------------------
(***************************************************************************)
(* bloomfilter/bloomfilter.go.  A filter is the set of the positions of    *)
(* its array that are set.  The two hash functions are constants; their    *)
(* values and the arithmetic on them have the width of a uint32, which a   *)
(* configuration may make narrower.                                        *)
(***************************************************************************)
EXTENDS Integers

CONSTANTS Key,          \* items
          BitsetSize,   \* the arguments m and k of New
          HashCount,
          Word,         \* 2^w, where w is the width of a hash value
          Hash1, Hash2  \* the FNV-1a and the CRC-32 hash of each item

ASSUME BloomFilterAssumption ==
  /\ BitsetSize \in Int /\ HashCount \in Int
  /\ Word \in Nat \ {0}
  /\ Hash1 \in [Key -> 0 .. Word - 1] /\ Hash2 \in [Key -> 0 .. Word - 1]

\* New: the length of the array and the number of hash functions.
Len == IF BitsetSize <= 0 THEN 1000 ELSE BitsetSize
Hashes == IF HashCount <= 0 THEN 6 ELSE HashCount

\* indexes: double hashing, in arithmetic that wraps around.
Step(k) == IF Hash2[k] = 0 THEN 1 ELSE Hash2[k]
Indexes(k) ==
  {((Hash1[k] + i * Step(k)) % Word) % Len : i \in 0 .. Hashes - 1}

\* What New and Reset leave.
EmptyFilter == {}

BloomAdd(f, k) == f \cup Indexes(k)
BloomContains(f, k) == Indexes(k) \subseteq f
=============================================================================
