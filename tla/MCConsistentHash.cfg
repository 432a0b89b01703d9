\* Three nodes with two replicas each: six positions are just enough for all of
\* them to be apart, and every collision between them occurs as well.
SPECIFICATION Spec
CONSTANTS
  Node = {n1, n2, n3}
  Positions = 6
  Placement <- MCPlacement
  MaxKeys = 6
  None = None
SYMMETRY Symmetry
INVARIANTS TypeOK NearestMember
PROPERTIES MinimalMovement
