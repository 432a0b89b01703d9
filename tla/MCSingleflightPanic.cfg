\* A panic of the shared function inside Do.
SPECIFICATION FairSpec
CONSTANTS
  Caller = {p1, p2}
  Key = {k1}
  Call = {c1, c2}
  Value = {v1}
  PanicErr = panicErr
  MayPanic = TRUE
  None = None
PROPERTIES EveryCallerReturns
CHECK_DEADLOCK FALSE
