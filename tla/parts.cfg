CONSTANTS
  Null = null
  Odd = odd
  c1 = c1
  c2 = c2
  l1 = l1
  l2 = l2
  Values <- ValuesKept
  FunctionOf <- FunctionOfValue
  Calls = {1}
  MaxNodes = 2
  MaxOps = 2
  MaxVams = 2
  MaxChanges = 1
SPECIFICATION PartsSpec
INVARIANTS
  NumbersResolve
  NumbersInOrder
  UsesTracked
  NodesUnique
  SlotsMean
  AttributesCanonical
  TypesCanonical
  ReadAsWritten
  UsesFound
  NumbersExact
  LayoutSound
  LoadedAsWritten
  ListingTrue
CHECK_DEADLOCK FALSE
SYMMETRY Interchangeable
