\* Two racing insertRows goroutines: getMetric Load then Store drops a memoryMetric.
CONSTANTS
  w1 = w1  w2 = w2  r1 = r1  m1 = m1  m2 = m2  f1 = f1
  Writers <- ConcWriters
  Readers <- NoReaders
  Metrics <- OneMetric
  Batches <- ConcBatches
  QueryBounds <- NoBounds
  Timestamps = {0, 1, 2}
  Now = 3
  MaxCalls = 1
  MaxSelects = 0
  WALMayFail = TRUE
  Flushers <- NoFlushers
SPECIFICATION Spec
INVARIANT NoLostPoint
