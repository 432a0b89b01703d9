--------------------------- MODULE MCSingleflight ---------------------------
\* TLC instances of Singleflight.  No symmetry: the runs check liveness.
EXTENDS Singleflight
=============================================================================
