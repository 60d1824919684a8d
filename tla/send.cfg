SPECIFICATION FairSpec
CONSTANTS
  Modes = {TRUE, FALSE}
  MaxBatch = 2
  ChanCap = 1
  Kinds = {"ping", "window_update"}
  MaxFrames = 3
  MaxPriority = 2
  Breaks = TRUE
CHECK_DEADLOCK FALSE
INVARIANTS Inv WireInOrder
PROPERTIES ImplementsFIFO TimelyWritten
