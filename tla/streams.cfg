SPECIFICATION FairSpec
CONSTANTS
  MaxRequests = 2
  Requests <- SomeRequests
  InitialWindow = 2
  ConnWindow = 3
  MaxConcurrentStreams = 1
  ChanCap = 1
  MaxBatch = 1
  NumShards = 4
  MaxInFlight = 2
  Faults = {"early"}
CHECK_DEADLOCK FALSE
INVARIANTS SlotsSound WindowsRespected
PROPERTIES RunCompletes
