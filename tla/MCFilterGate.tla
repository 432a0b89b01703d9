---------------------------- MODULE MCFilterGate ----------------------------
\* TLC instances of FilterGate.  No symmetry: the runs check liveness.
EXTENDS FilterGate

\* With hash values of 3 bits and an array of 5, the indexes of a key wrap
\* around twice: 6, 9 % 8 and 12 % 8, which are positions 1, 1 and 4.
MCHash1 == [k \in Key |-> 6]
MCHash2 == [k \in Key |-> 3]
=============================================================================
