CONSTANTS
  Paths = {1, 2}
  Ids = {a, b}
  NoFile = NoFile
  MaxSize = 1
  Irregular = {}
  TailFiles = FALSE
  MaxChanges = 2
  MaxHarvesters = 2
  MaxChans = 3
  IterationLimit = 2
SPECIFICATION SafeSpec
SYMMETRY IdSymmetry
INVARIANT OffsetOfSameFile
CHECK_DEADLOCK FALSE
