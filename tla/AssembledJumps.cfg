SPECIFICATION Spec
CONSTANTS
  nint <- MCnint
  nfloat <- MCnfloat
  FloatOf <- MCFloatOf
  IntOf <- MCIntOf
  IntOp <- MCIntOp
  FloatOp <- MCFloatOp
  FloatTest <- MCFloatTest
  Name <- MCName
  Fn <- MCFn
  Record <- MCRecord
  StringSize <- MCStringSize
  STACK_SIZE = 35
  MAXIMUM_VARIABLES = 4
  ArrayName = "n1"
  Array <- MCArray
  Programs <- MCAssembled
INVARIANT NeverLost
CHECK_DEADLOCK FALSE
