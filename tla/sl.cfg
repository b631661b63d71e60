SPECIFICATION MCFairSpec
CONSTANTS
  Length = 5
  Fifo = 2
  MaxFrames = 4
  UartFails = TRUE
INVARIANTS
  CopyUndisturbed
  SlWhole
  WholeUnlessWrapped
PROPERTIES
  ListensAgain
  ImplementsLine
CHECK_DEADLOCK FALSE
