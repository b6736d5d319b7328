CONSTANTS
  Sources = {s1, s2}
  ChanCap = 1
  SpoolSize = 2
  MaxLines = 2
  MaxPartial = 1
  OutputMayFail = TRUE
SPECIFICATION SafeSpec
SYMMETRY SourceSymmetry
INVARIANTS TypeOK NothingLost RecordedIsSettled
PROPERTIES PositionsAdvance ImplementsQueue
