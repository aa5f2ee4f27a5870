CONSTANTS
  w1 = w1  t1 = t1  c1 = c1  i1 = i1  i2 = i2  a = a  b = b
  Nodes = {w1, t1, c1, i1}
  Owners = {a, b}
  Null = null
  Tombstone = tombstone
  Iters <- OneIter
  Kind <- KindOf
  Overriding = {}
SPECIFICATION FairSpec
INVARIANTS WalkClears NeverFails
PROPERTY WalkEnds
