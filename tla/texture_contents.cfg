CONSTANTS
  System = {s}
  Managed = {m}
  Default = {d}
  Targets = {d}
  Levels <- MCLevels
  Recoded = {d}
  Values = {v0, v1}
  None = None
  NumBackBuffers = 2
  MaxCalls = 6
SPECIFICATION Spec
INVARIANTS TexelsAreTheLastWritten StatesFitTheirUses
SYMMETRY Colours
CHECK_DEADLOCK FALSE
