SPECIFICATION Spec
CONSTANTS
  MaxRequests = 2
  Requests <- UnaryRequests
  InitialWindow = 2
  ConnWindow = 3
  MaxConcurrentStreams = 0
  ChanCap = 1
  MaxBatch = 1
  NumShards = 4
  MaxInFlight = 2
  Faults = {"goaway", "timeout", "cancel", "setup_error", "early", "trailing_rst"}
CHECK_DEADLOCK FALSE
INVARIANTS PoolSound InUseExact AllReported AnswerFindsStream
