SPECIFICATION SSpec
CONSTANTS
  Length = 5
  Fifo = 2
  MaxFrames = 2
  UartFails = FALSE
PROPERTIES
  EndsInSilence
CHECK_DEADLOCK FALSE
