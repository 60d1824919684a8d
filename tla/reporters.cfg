SPECIFICATION FairSpec
CONSTANTS
  MaxStreams = 3
  Outcomes = {{"status", "grpc_0"}, {"status"}, {"goaway"}}
  PhoutCap = 1
  MaxReports = 1
INVARIANTS Inv LinesTrue
PROPERTIES ReportersReturn
CHECK_DEADLOCK FALSE
