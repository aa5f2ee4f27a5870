CONSTANTS
  Documents <- DocumentsMistyped
  Types <- TypesRead
  Attribs = 1
  WORD = 1048576
  LONG = 16777216
  Null = null
SPECIFICATION Spec
INVARIANTS CallsTyped
CHECK_DEADLOCK FALSE
