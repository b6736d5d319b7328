CONSTANTS
  Sources = {s1, s2}
  ChanCap = 1
  SpoolSize = 2
  MaxLines = 2
  MaxPartial = 0
  OutputMayFail = TRUE
SPECIFICATION SafeSpec
INVARIANT RestartLosesNothing
