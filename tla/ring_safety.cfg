CONSTANTS
  MaxSize = 8
  Aligns <- MCAligns
  Sizes <- MCSizes
  MaxFrame = 3
SPECIFICATION RingSpec
CONSTRAINT UntilFilled
INVARIANTS
  NoCollisionUntilFilled
CHECK_DEADLOCK FALSE
