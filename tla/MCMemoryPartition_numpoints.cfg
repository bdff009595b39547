\* Sequential calls: numPoints counts out-of-order points, memoryMetric.size does not.
CONSTANTS
  w1 = w1  w2 = w2  r1 = r1  m1 = m1  m2 = m2  f1 = f1
  Writers <- SeqWriters
  Readers <- NoReaders
  Metrics <- TwoMetrics
  Batches <- SeqBatches
  QueryBounds <- NoBounds
  Timestamps = {0, 1, 2}
  Now = 3
  MaxCalls = 3
  MaxSelects = 0
  WALMayFail = TRUE
  Flushers <- NoFlushers
SPECIFICATION Spec
INVARIANT NumPointsIsSumOfSizes
