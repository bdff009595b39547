CONSTANTS
  Inputs <- DuplicateNameInputs
  MaxCalls = 2
SPECIFICATION Spec
INVARIANT SeriesIdentity
