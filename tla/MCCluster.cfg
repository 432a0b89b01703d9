\* The scenarios of MCCluster.  Under fairness each load of n1, a node that owns
\* the key in some rings and not in others, is followed to its end.  A run of
\* Increments stops at the bound on the numbers, so a deadlock is no error.
SPECIFICATION FairSpec
CONSTANTS
  n1 = n1
  n2 = n2
  n3 = n3
  p1 = p1
  p2 = p2
  Node = {n1, n2, n3}
  Client = {p1, p2}
  Rank <- MCRank
  Followed = {n1}
  None = None
  Scenario <- MCScenario
INVARIANTS
  TypeOK
  OwnerFetches
  MonotonicReads
  CopiesInTime
  CounterGrows
  InvalidateForcesReload
PROPERTIES EveryLoadEnds
CHECK_DEADLOCK FALSE
