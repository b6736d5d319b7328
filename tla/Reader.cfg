CONSTANTS
  LineFeed = LineFeed
  Text = Text
  NoError = NoError
  BufferSize = 2
  MaxLen = 3
SPECIFICATION Spec
CHECK_DEADLOCK FALSE
INVARIANT NothingReadIsLost
