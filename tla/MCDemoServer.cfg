\* Two processes that start, stop and serve the same keys.
SPECIFICATION Spec
CONSTANTS
  Tom = Tom
  key0 = key0
  Node = {n1, n2}
  Request = {p1, p2}
  Key = {Tom, key0}
  Seeds = {key0}
  Db = {Tom}
  Built <- MCBuilt
  Faults = {"stop", "nil"}
  MaxNumber = 4
  None = None
INVARIANTS IncrementsSurvive
