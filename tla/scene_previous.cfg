CONSTANTS
  Cameras = {c1, c2, flat}
  Flat = {flat}
  None = None
  MaxDraws = 3
SPECIFICATION Spec
INVARIANT ExchangeUsesPreviousCamera
