CONSTANTS
  Document <- Old
  Stream <- OldStream
  Half = 32
  Npos = 1000000
  Uint = 1000000000
  Function = 12
SPECIFICATION Spec
INVARIANT NeverFails
CHECK_DEADLOCK FALSE
