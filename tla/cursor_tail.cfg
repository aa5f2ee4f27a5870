CONSTANTS
  Stream <- ShortTail
  Half = 3
  Npos = 100
SPECIFICATION Spec
INVARIANTS TypeOK WindowInStream EndIsReal
PROPERTY ImplementsSource
CHECK_DEADLOCK FALSE
