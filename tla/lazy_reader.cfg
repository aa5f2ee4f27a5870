SPECIFICATION Spec
CONSTANTS
  Documents <- AllDocuments
  Absent = Absent
  None = None
INVARIANTS
  TablesMatch
  InitsGiven
  NeverFails
PROPERTIES
  CallsReturn
  ImplementsLazyModule
CHECK_DEADLOCK FALSE
