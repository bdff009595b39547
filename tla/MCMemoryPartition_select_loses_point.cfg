\* A selectDataPoints racing one insertRows: the reader's getMetric Store replaces the writer's memoryMetric.
CONSTANTS
  w1 = w1  w2 = w2  r1 = r1  m1 = m1  m2 = m2  f1 = f1
  Writers <- OneWriter
  Readers <- ConcReaders
  Metrics <- OneMetric
  Batches <- ConcBatches
  QueryBounds <- ConcBounds
  Timestamps = {0, 1, 2}
  Now = 3
  MaxCalls = 1
  MaxSelects = 1
  WALMayFail = TRUE
  Flushers <- NoFlushers
SPECIFICATION Spec
INVARIANT NoLostPoint
