\* The counters, the snapshots of them and the latency percentiles, each in the
\* scenarios it is about.  A run ends when the calls of the scenario are made.
SPECIFICATION Spec
CONSTANTS
  r1 = r1
  r2 = r2
  g1 = g1
  a1 = a1
  d1 = d1
  Request = {r1, r2}
  Loader = {g1}
  Admin = {a1}
  Logger = Logger
  Reader = {d1}
  Cap = 2
  MaxSample = 3
  P95 = 50
  P99 = 90
  None = None
  Scenario <- MCScenario
INVARIANTS
  TypeOK
  CountersAgree
  SnapshotCoversFinished
  SampledShare
  LoggedPercentilesOrdered
PROPERTIES NearestRank
CHECK_DEADLOCK FALSE
