\* Four single-row inserts over three timestamps, partitions of span 2, two
\* writable partitions, two crashes, every I/O step fallible once.
\* (Durable fails at larger bounds: see MCStorage_segment_loss.cfg.)
CONSTANTS
  Ts = {1, 2, 3}
  PartitionDuration = 2
  Retention = 1
  WritableNum = 2
  Fallible = {"wal", "data", "meta", "clean"}
  MaxInserts = 4
  MaxCrashes = 2
  MaxFailures = 1
  MaxTime = 3
SPECIFICATION FairSpec
INVARIANT FlushedRowsKept
PROPERTY FlushEventually
PROPERTY RetentionEventually
