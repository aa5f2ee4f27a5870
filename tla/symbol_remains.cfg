CONSTANTS
  f = f  g = g  a = a  b = b  i = i  j = j
  Funcs = {f, g}
  Blocks = {a, b}
  Insts = {i, j}
  Module = module
  Null = null
  Wanted <- NamesAskedFor
  MaxUnique <- Attempts
  Careful = FALSE
SPECIFICATION Spec
INVARIANT NoValuesRemain
CHECK_DEADLOCK FALSE
