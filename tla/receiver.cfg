SPECIFICATION FairSpec
CONSTANTS
  FrameSet <- SomeFrames
  MaxFrames = 2
  HeaderLen = 2
  WordLen = 2
  Byte = {0, 1, 2}
  Malformed = {2}
  BufSize = 4
  Threshold = 3
  OutCap = 1
  Known = {3}
CHECK_DEADLOCK FALSE
INVARIANTS Inv PiecesDoNotMatter CreditReturned
PROPERTIES RunReturns
