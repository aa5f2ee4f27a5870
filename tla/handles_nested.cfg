CONSTANTS
  w1 = w1  t1 = t1  c1 = c1  i1 = i1  i2 = i2  a = a  b = b
  Nodes = {w1, c1, i1, i2}
  Owners = {a, b}
  Null = null
  Tombstone = tombstone
  Iters <- TwoIters
  Kind <- KindOf
  Overriding = {c1}
SPECIFICATION Spec
INVARIANTS TypeOK ListIntegrity NoDanglingHandle WalkKeepsPlace
PROPERTY ImplementsContract
CHECK_DEADLOCK FALSE
