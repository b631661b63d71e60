SPECIFICATION BSpec
CONSTANTS
  a = a
  b = b
  Byte = {a, b}
  Files <- MCFiles
  BlockSizes = {2}
  Faults = {"error"}
  MaxLine = 3
  MaxLost = 0
INVARIANTS
  HostSurvives
CHECK_DEADLOCK FALSE
