CONSTANTS
  p1 = p1
  p2 = p2
  p3 = p3
  k1 = k1
  None = None
  NoItem = NoItem
  Procs = {p1, p2, p3}
  k2 = k2
  Keys = {k1, k2}
  MaxLife = 2
  i1 = i1
  i2 = i2
  Items = {i1, i2}
  MaxTime = 1
SPECIFICATION Spec
SYMMETRY AnyOrder
INVARIANT TypeOK
INVARIANT ExpiryInTime
INVARIANT OneTimer
PROPERTY ItemsStable
CHECK_DEADLOCK FALSE
