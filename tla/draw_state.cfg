SPECIFICATION Spec
CONSTANTS
  Inputs <- MCInputs
  Prims <- MCPrims
  CacheBuilt = TRUE
  MaxCalls = 4
INVARIANTS
  DrawsSeeTheirState
PROPERTY
  BlocksRestore
