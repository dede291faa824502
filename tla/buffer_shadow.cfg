CONSTANTS
  Size = 2
  NumBackBuffers = 2
  MaxFrame = 3
  MaxWrites = 3
  MaxDraws = 1
  RingMayFill = TRUE
SPECIFICATION Spec
INVARIANTS
  WrongReadsAreFallbacks
  DirtyCoversTheDifference
CHECK_DEADLOCK FALSE
