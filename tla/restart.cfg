SPECIFICATION Spec
CONSTANTS
  a = a
  b = b
  Byte = {a, b}
  Images <- FewImages
  ImgIndex = {0}
  Parts = {0}
  PartSize = 4
  BlockSize = 2
  Faults = {"reset", "restart", "write"}
  MaxInFlight = 1
INVARIANTS
  EpLedger
CHECK_DEADLOCK FALSE
