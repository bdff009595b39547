\* Two insertRows goroutines and one selectDataPoints goroutine on one key.
CONSTANTS
  w1 = w1  w2 = w2  r1 = r1  m1 = m1  m2 = m2  f1 = f1
  Writers <- ConcWriters
  Readers <- ConcReaders
  Metrics <- OneMetric
  Batches <- ConcBatches
  QueryBounds <- ConcBounds
  Timestamps = {0, 1, 2}
  Now = 3
  MaxCalls = 1
  MaxSelects = 1
  WALMayFail = TRUE
  Flushers <- NoFlushers
SPECIFICATION Spec
INVARIANT TypeOK
INVARIANT PointsSorted
INVARIANT SelectExact
INVARIANT EncodeAllPointsSorted
