CONSTANTS
  Writes <- BstreamWrites
  MaxWrites = 4
  ScanWidths <- BstreamScanWidths
  MaxReads = 3
SPECIFICATION Spec
INVARIANT RoundTrip
INVARIANT ReadsMatchStream
