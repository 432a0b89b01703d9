\* The safety properties, each in the scenarios it is about.
SPECIFICATION Spec
CONSTANTS
  Caller = {p1, p2, p3}
  K = k
  None = None
  Scenario <- SafetyScenarios
SYMMETRY Symmetry
INVARIANTS
  TypeOK
  MonotonicReads
  FallbackOutlivesActive
  NewestIncrementCached
  CounterGrows
PROPERTIES ServedInTime
