CONSTANTS
  Paths = {1}
  Ids = {a, b}
  NoFile = NoFile
  MaxSize = 2
  Irregular = {}
  TailFiles = TRUE
  MaxChanges = 3
  MaxHarvesters = 2
  MaxChans = 3
  IterationLimit = 2
SPECIFICATION Spec
PROPERTIES EveryScanEnds ModifiedFileResumed ImplementsWatch
CHECK_DEADLOCK FALSE
