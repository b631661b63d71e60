SPECIFICATION Spec
CONSTANTS
  a = a
  b = b
  Byte = {a, b}
  Images <- MCImages
  ImgIndex = {0, 1, 9}
  Parts = {0, 1}
  PartSize = 4
  BlockSize = 2
  Faults = {"loss", "reset", "restart", "open", "write", "boot"}
  MaxInFlight = 0
INVARIANTS
  TypeOK
  QuietLineAtCommand
  OneFrameToDevice
  HostNeverFaults
  BlocksCarryImage
  FlashHoldsPrefix
  ReportedSuccessIsFlashed
  BootsSelected
PROPERTIES
  OnlyTargetChanges
  ImplementsTransfer
CHECK_DEADLOCK FALSE
