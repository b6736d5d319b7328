CONSTANTS
  Nodes = {n1, n2, n3}
  Keys = {k1}
  NoNode = NoNode
  Replicas = 2
  MaxHash = 5
  MaxAdded = 3
SPECIFICATION Spec
SYMMETRY NodeSymmetry
INVARIANTS TypeOK GetIsNearest
PROPERTY MovesOnlyToAdded
CHECK_DEADLOCK FALSE
