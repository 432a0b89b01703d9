---------------------------- MODULE BoundedCache ----------------------------
(***************************************************************************)
(* What cache.go expects of its store (the interface localCache), whatever *)
(* the eviction policy: a map with a byte budget.  A lookup returns what   *)
(* was stored last for the key unless it has expired, has been removed or  *)
(* has been evicted; an entry is evicted only by a store, and only while   *)
(* the contents exceed the budget; and the store does not return before    *)
(* the contents fit.                                                       *)
(*                                                                         *)
(* LRU and SLRU implement this module.  The contents are added up here;    *)
(* the implementations keep counters.                                      *)
(***************************************************************************)
EXTENDS Integers, FiniteSetsExt

CONSTANTS Key,        \* keys
          Size,       \* the lengths a value may have; a value is its length
          KeyLen,     \* the length of a key
          MaxBytes,   \* the budget; 0 means that there is none
          None

VARIABLES content,    \* content[k]: [len, life] or None
          busy,       \* a store has not returned yet
          reply       \* what the last lookup returned

vars == <<content, busy, reply>>

\* A ttl may be set, and the time may have come.
Life == {"never", "armed", "past"}

Cached == {k \in Key : content[k] # None}
Total == MapThenSumSet(LAMBDA k : KeyLen + content[k].len, Cached)
Over == MaxBytes # 0 /\ Total > MaxBytes

Init ==
  /\ content = [k \in Key |-> None]
  /\ busy = FALSE
  /\ reply = None

\* A value is stored, with or without a ttl.
Put(k, v, life) ==
  /\ ~busy
  /\ content' = [content EXCEPT ![k] = [len |-> v, life |-> life]]
  /\ busy' = TRUE
  /\ reply' = None

\* The store makes room, one entry at a time.
Shrink(k) ==
  /\ busy /\ Over
  /\ content[k] # None
  /\ content' = [content EXCEPT ![k] = None]
  /\ UNCHANGED <<busy, reply>>

\* The store returns: the contents fit, or nothing is left (a negative budget).
Settle ==
  /\ busy /\ (~Over \/ Cached = {})
  /\ busy' = FALSE
  /\ UNCHANGED <<content, reply>>

\* A lookup; it removes an entry that has expired.
Lookup(k) ==
  /\ ~busy
  /\ IF content[k] # None /\ content[k].life # "past"
     THEN reply' = content[k].len /\ UNCHANGED content
     ELSE reply' = None /\ content' = [content EXCEPT ![k] = None]
  /\ UNCHANGED busy

\* Entries are removed on request.
Drop(S) ==
  /\ ~busy
  /\ content' = [k \in Key |-> IF k \in S THEN None ELSE content[k]]
  /\ reply' = None
  /\ UNCHANGED busy

\* Time passes for an entry that has a ttl.
Lapse(k) ==
  /\ content[k] # None
  /\ content[k].life = "armed"
  /\ content' = [content EXCEPT ![k].life = "past"]
  /\ UNCHANGED <<busy, reply>>

Next ==
  \/ \E k \in Key : \E v \in Size, life \in {"never", "armed"} : Put(k, v, life)
  \/ \E k \in Key : Shrink(k) \/ Lookup(k) \/ Lapse(k)
  \/ Settle
  \/ \E S \in SUBSET Key : Drop(S)

Spec == Init /\ [][Next]_vars
=============================================================================
