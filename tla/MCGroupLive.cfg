\* Every request returns, with a bounded and with an unbounded wait.
SPECIFICATION FairSpec
CONSTANTS
  Caller = {p1, p2}
  K = k
  None = None
  Scenario <- LiveScenarios
PROPERTIES EveryRequestReturns
