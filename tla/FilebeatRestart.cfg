CONSTANTS
  Sources = {s1, s2}
  Tailed = {s2}
  ChanCap = 1
  SpoolSize = 2
  MaxLines = 2
  MaxPartial = 0
  OutputMayFail = TRUE
  MaxCrashes = 1
SPECIFICATION FSpec
PROPERTIES ImplementsDelivery EveryLineSettled NothingRecordedAgain
