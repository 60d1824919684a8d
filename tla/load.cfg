SPECIFICATION FairSpec
CONSTANTS
  Clients = {c1}
  Count = 3
  ChanCap = 1
  PhoutCap = 1
  Settings <- MCSettings
  Faults = {"setup", "fetch", "refuse", "duration", "frame", "goaway", "break", "phout"}
INVARIANTS Inv EveryRequestReported
PROPERTIES CommandEnds
CHECK_DEADLOCK FALSE
