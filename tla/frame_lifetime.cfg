CONSTANTS
  Textures = {t1, t2}
  Descriptors = {d1, d2, d3}
  NoTexture = NoTexture
  NoDescriptor = NoDescriptor
  NumBackBuffers = 2
  MaxFence = 3
  HelperRestarts = FALSE
SPECIFICATION FairSpec
INVARIANTS
  ResourcesOutliveCommands
PROPERTIES
  ImplementsLifetime
  WaitEnds
CHECK_DEADLOCK FALSE
