SPECIFICATION FairSpec
CONSTANTS
  Clients = {c1, c2}
  Sources = {"file", "inmem"}
  Bodies <- MCBodies
  File <- MCFile
  Offset <- MCOffset
  BufSize = 2
  MaxFetches = 4
  MaxInFlight = 1
INVARIANTS Inv ReadInOrder RequestsIntact
PROPERTIES FetchReturns
CHECK_DEADLOCK FALSE
