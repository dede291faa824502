CONSTANTS
  Formats = {f1}
  StageStates = {s1, s2}
  Callbacks = {c1}
  None = None
  MaxCreated = 2
  MaxId = 4
  MaxGeneration = 2
SPECIFICATION Spec
INVARIANTS DrawsRunTheBoundShaders LitInOnePlace InjectionIsCurrent CallbackRunsWhileRegistered
