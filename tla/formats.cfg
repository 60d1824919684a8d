SPECIFICATION Spec
CONSTANTS
  Files <- SomeFiles
  Names <- SomeNames
  BufLens = {1, 7}
  CacheSize = 2
CHECK_DEADLOCK FALSE
INVARIANTS LinesKept RequestsKept CachesRecent
