-------------------------- MODULE MCConsistentHash --------------------------
\* A TLC instance of ConsistentHash.
EXTENDS ConsistentHash, TLC

\* Two replicas for each node, at any two positions.  Which one is the first
\* makes no difference to the ring.
MCPlacement == {s \in Position \X Position : s[1] <= s[2]}

Symmetry == Permutations(Node)
=============================================================================
