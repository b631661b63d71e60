SPECIFICATION WFairSpec
CONSTANTS
  Size = 14
  Chunk = 2
  Lengths = {6,7}
  Lookalikes = {}
  MaxFrames = 4
  MaxLost = 1
INVARIANTS
  RingKeepsOrder
  CopyIsStable
  LossCostsTwoFrames
PROPERTIES
  ImplementsLine
  EveryFrameTaken
CHECK_DEADLOCK FALSE
