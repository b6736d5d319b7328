CONSTANTS
  Paths = {1, 2}
  Ids = {a, b}
  NoFile = NoFile
  MaxSize = 0
  N = 2
  Globbed <- AllPaths
  Stdin = {2}
SPECIFICATION Spec
CHECK_DEADLOCK FALSE
INVARIANTS TypeOK PendingExact Handoff
PROPERTIES StartReturns EveryOtherAnnounced
