\* A load stores what it read before its key was written.  At MaxVer an
\* Increment stays in the incrementer, hence no deadlock check.
SPECIFICATION Spec
CONSTANTS
  Caller = {p1, p2}
  K = k
  None = None
  Scenario <- WriteRaceScenarios
SYMMETRY Symmetry
INVARIANTS ReadYourWrites
CHECK_DEADLOCK FALSE
