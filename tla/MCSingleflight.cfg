\* Three requests for one key: one that leads, one that joins while the function
\* runs and one that joins while the call completes; two calls, so that one
\* delivers while the next one runs.  A panic under Do wedges its key, after
\* which every request may be stuck, so deadlock is not an error here.
SPECIFICATION FairSpec
CONSTANTS
  Caller = {p1, p2, p3}
  Key = {k1}
  Call = {c1, c2}
  Value = {v1}
  PanicErr = panicErr
  MayPanic = TRUE
  None = None
INVARIANTS TypeOK OneFlight NoLostCaller
PROPERTIES SharedLoadSpec EveryCallerServed EveryCallEnds
CHECK_DEADLOCK FALSE
