SPECIFICATION Spec
CONSTANTS
  Bytes = {a, b, nul}
  NUL = nul
  InitSize = 2
  MaxSize = 5
INVARIANT Inv
PROPERTY ImplementsByteQueue
CHECK_DEADLOCK FALSE
