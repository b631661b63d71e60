SPECIFICATION FairSpec
CONSTANTS
  a = a
  b = b
  Byte = {a, b}
  Images <- MCImages
  ImgIndex = {0, 9}
  Parts = {0}
  PartSize = 4
  BlockSize = 2
  Faults = {"open", "write", "boot"}
  MaxInFlight = 0
PROPERTIES
  CommandSettles
  LoadReported
CHECK_DEADLOCK FALSE
