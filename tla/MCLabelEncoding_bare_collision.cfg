CONSTANTS
  Inputs <- BareCollisionInputs
  MaxCalls = 2
SPECIFICATION Spec
INVARIANT SeriesIdentity
