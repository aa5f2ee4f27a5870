CONSTANTS
  f = f  g = g  fb = fb  gb = gb  i = i  j = j  k = k  a = a
  u1 = u1  u2 = u2  u3 = u3  u4 = u4
  Nodes = {u1, u2, u3, u4}
  Owners = {f, g, fb, gb, i, j, k, a}
  Null = null
  FunctionList <- FunctionsOfModule
  BlocksOf <- BlockList
  ArgsOf <- Args
  InstsOf <- Body
  OperandsOf <- Operands
  Constants = {}
  TypeOf <- Types
SPECIFICATION Spec
PROPERTY LeavesUsesInBlock
CHECK_DEADLOCK FALSE
