CONSTANTS
  Document <- Lazy
  Stream <- LazyStream
  Half = 32
  Npos = 1000000
  Uint = 1000000000
  Function = 12
SPECIFICATION Spec
INVARIANTS EventsMatch NeverFails ScopeMatches
CHECK_DEADLOCK FALSE
