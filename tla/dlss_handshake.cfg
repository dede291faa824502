CONSTANTS
  FrameSlots = 2
  MaxConsecutiveTimeouts = 2
  MaxFrame = 3
  Scaled = TRUE
SPECIFICATION FairSpec
INVARIANTS
  InputsHeldStill
  ResultIsPreviousInStep
  ConstantsAreNeverOld
  HolesAreAnnounced
  DeadHelperIsDropped
PROPERTIES
  FramesFinish
  HelperEnds
CHECK_DEADLOCK FALSE
