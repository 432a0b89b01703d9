------------------------------ MODULE MCStore -------------------------------
\* A TLC instance of Store.  No symmetry: the run checks liveness.
EXTENDS Store
=============================================================================
