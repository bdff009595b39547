CONSTANTS
  Inputs <- EmptyVsInvalidInputs
  MaxCalls = 2
SPECIFICATION Spec
INVARIANT SeriesIdentity
