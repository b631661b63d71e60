SPECIFICATION FSpec
CONSTANTS
  MaxPayload = 40
  Bodies = {0, 90}
  Flips = {{0}, {7}, {8}, {7, 8}, {0, 5, 12}, {0, 8, 15}, {0, 1, 2, 3, 4, 5, 6, 7, 8, 9, 10, 11, 12, 13, 14, 15}}
INVARIANTS
  IntactIsProcessed
  DamagedIsDropped
  CrcIsRemainder
  CrcTellsSpoiled
CHECK_DEADLOCK FALSE
