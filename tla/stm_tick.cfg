SPECIFICATION TSpec
CONSTANTS
  Length = 5
  Fifo = 2
  MaxFrames = 1
  UartFails = FALSE
PROPERTIES
  TrueWhenReached
CHECK_DEADLOCK FALSE
