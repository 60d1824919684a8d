SPECIFICATION FairSpec
CONSTANTS
  NumMessages = 3
  NumThreads = 2
  ThreadBuffer = 1
  Qualities = {"ok", "undecodable", "unencodable"}
  FailModes = {FALSE, TRUE}
  Faults = {"read", "write", "errWriter", "cancel"}
CHECK_DEADLOCK FALSE
INVARIANTS Inv OutputInOrder
PROPERTIES ProcessReturns
