CONSTANTS
  Inputs <- DistinctNameInputs
  MaxCalls = 2
SPECIFICATION Spec
INVARIANT SeriesIdentity
