--------------------------- MODULE ConsistentHash ---------------------------
(***************************************************************************)
(* internal/consistenthash/consistenthash.go: the ring that tells a node   *)
(* which peer owns a key.  Hash values are positions on the ring; which    *)
(* ones the replicas of a node get is arbitrary, and two of them may be    *)
(* the same.                                                               *)
(***************************************************************************)
EXTENDS Integers, Sequences, FiniteSets, Sorting

CONSTANTS Node,       \* the strings that are added to the ring
          Positions,  \* the hash values are 0 .. Positions - 1
          Placement,  \* where the replicas of a node may be: a set of
                      \* sequences, one position for each replica
          MaxKeys,    \* bound on the length of the list
          None        \* the empty string

Position == 0 .. Positions - 1

ASSUME ConsistentHashAssumption ==
  /\ Positions \in Nat \ {0}
  /\ Placement \subseteq Seq(Position) \ {<<>>}
  /\ MaxKeys \in Nat
  /\ None \notin Node

VARIABLES hash,      \* hash[n]: the hash values of the replicas of n, fixed
          keys,      \* the sorted list of the positions in use
          hashMap,   \* hashMap[h]: the node at position h, or None
          members,   \* history: the nodes added and not removed since
          twice,     \* history: a member has been added again
          removed    \* history: Remove has been called

vars == <<hash, keys, hashMap, members, twice, removed>>

SX == INSTANCE SequencesExt

Init ==
  /\ hash \in [Node -> Placement]
  /\ keys = <<>>
  /\ hashMap = [h \in Position |-> None]
  /\ members = {} /\ twice = FALSE /\ removed = FALSE

\* Add appends the replicas, takes over their positions and sorts.
Add(n) ==
  /\ Len(keys \o hash[n]) <= MaxKeys
  /\ keys' = Sorted(keys \o hash[n])
  /\ hashMap' = [h \in Position |-> IF h \in SX!ToSet(hash[n]) THEN n ELSE hashMap[h]]
  /\ members' = members \cup {n}
  /\ twice' = (twice \/ n \in members)
  /\ UNCHANGED <<hash, removed>>

\* Remove takes one entry for each replica out of the list, if there is one,
\* and then whatever is at its position out of the map.
Remove(n) ==
  /\ keys' = SX!FoldLeft(SX!RemoveFirst, keys, hash[n])
  /\ hashMap' = [h \in Position |->
                   IF h \in SX!ToSet(hash[n]) \cap SX!ToSet(keys) THEN None
                   ELSE hashMap[h]]
  /\ members' = members \ {n}
  /\ removed' = TRUE
  /\ UNCHANGED <<hash, twice>>

\* Mutant of Search: a position does not serve the keys that hash to it.
SearchAfter(ks, h) == Cardinality({i \in DOMAIN ks : ks[i] <= h})

\* sort.Search: how many positions come before h.
Search(ks, h) == Cardinality({i \in DOMAIN ks : ks[i] < h})

\* Mutant of Get: the position is picked by the remainder of the hash.
GetModulo(ks, map, h) ==
  IF ks = <<>> THEN None ELSE map[ks[(h % Len(ks)) + 1]]

\* Get, for a key whose hash is h.
Get(ks, map, h) ==
  IF ks = <<>> THEN None ELSE map[ks[(Search(ks, h) % Len(ks)) + 1]]

Next == \E n \in Node : Add(n) \/ Remove(n)

Spec == Init /\ [][Next]_vars

-----------------------------------------------------------------------------
\* The types, that the list is sorted, and that every position which the map
\* gives to a node is in it.  (The converse may fail: a Remove after a collision
\* or a repeated Add takes a position from the map and leaves it in the list.)
TypeOK ==
  /\ hash \in [Node -> Placement]
  /\ keys \in Seq(Position)
  /\ \A i, j \in DOMAIN keys : i < j => keys[i] <= keys[j]
  /\ hashMap \in [Position -> Node \cup {None}]
  /\ {h \in Position : hashMap[h] # None} \subseteq SX!ToSet(keys)
  /\ members \subseteq Node
  /\ twice \in BOOLEAN /\ removed \in BOOLEAN

\* How far it is from h to node n, clockwise.
Distance(h, n) ==
  LET far(i) == (hash[n][i] - h) % Positions
  IN  far(CHOOSE i \in DOMAIN hash[n] : \A j \in DOMAIN hash[n] : far(i) <= far(j))

\* No two nodes share a position, and no member has been added again.
Clean ==
  /\ \A m, n \in Node : m # n => SX!ToSet(hash[m]) \cap SX!ToSet(hash[n]) = {}
  /\ ~twice

\* "Get returns the nearest ring member for key": after any sequence of Add, with
\* nodes that are added twice and replicas that collide, the owner of a key is
\* a nearest member of the ring, and there is one as soon as there is a member.
\* With Remove too, as long as nothing collides.  Without collisions there is
\* only one nearest member, so that two rings with the same members agree,
\* however they were built.
NearestMember ==
  Clean \/ ~removed =>
    \A h \in Position :
      LET n == Get(keys, hashMap, h)
      IN  IF members = {} THEN n = None
          ELSE n \in members /\ \A m \in members : Distance(h, n) <= Distance(h, m)

\* Consistent hashing: a node that joins only takes keys for itself, and a node
\* that leaves only gives up its own; no key moves between two other nodes.
MinimalMovement ==
  [][Clean /\ Clean' =>
       \A h \in Position :
         LET before == Get(keys, hashMap, h)
             after == Get(keys', hashMap', h)
         IN  before # after => \/ before \notin members'
                               \/ after \notin members]_vars
=============================================================================
