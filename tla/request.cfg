SPECIFICATION Spec
CONSTANTS
  Announced <- SomeSettings
  Default <- SomeDefault
  Fields = {f1, f2, f3}
  Allowed = {f1, f2}
  Additional = f3
  LiteralLen = 4
  MessageLens = {0, 3, 4, 11}
  MaxMeta = 3
  MaxRequests = 2
INVARIANTS Inv RequestIntact
CHECK_DEADLOCK FALSE
