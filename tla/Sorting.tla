------------------------------ MODULE Sorting -------------------------------
(***************************************************************************)
(* sort.Ints of Go's library, which consistenthash.go and stats.go call.   *)
(***************************************************************************)
EXTENDS Integers, Sequences, FiniteSets

\* Mutant of Sorted: the call of sort.Ints is missing.
Unsorted(s) == s

\* The place of the element at i: how many elements are smaller, or equal and
\* not behind it.
Rank(s, i) ==
  Cardinality({j \in DOMAIN s : s[j] < s[i] \/ (s[j] = s[i] /\ j <= i)})

\* The elements of s, by size.
Sorted(s) == [k \in DOMAIN s |-> s[CHOOSE i \in DOMAIN s : Rank(s, i) = k]]
=============================================================================
