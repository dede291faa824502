CONSTANTS
  Textures = {t1, t2}
  Descriptors = {d1, d2, d3}
  NoTexture = NoTexture
  NoDescriptor = NoDescriptor
  NumBackBuffers = 2
  MaxFence = 4
  HelperRestarts = TRUE
SPECIFICATION Spec
SYMMETRY Symmetry
INVARIANTS
  DescriptorsOutliveCommands
  ReuseFollowsFences
  StampMeansKept
  RetentionIsBounded
CHECK_DEADLOCK FALSE
