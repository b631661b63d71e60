SPECIFICATION BFairSpec
CONSTANTS
  a = a
  b = b
  Byte = {a, b}
  Files <- MCFiles
  BlockSizes = {1, 2}
  Faults = {"hasty", "reset", "error", "split"}
  MaxLine = 3
  MaxLost = 1
INVARIANTS
  BTypeOK
  BlockOfFile
PROPERTIES
  CompleteIsWhole
  OperationCompletes
CHECK_DEADLOCK FALSE
