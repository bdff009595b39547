\* Four single-row inserts over three timestamps, partitions of span 2, two
\* writable partitions, one crash, every I/O step fallible once.
CONSTANTS
  Ts = {1, 2, 3}
  PartitionDuration = 2
  Retention = 1
  WritableNum = 2
  Fallible = {"wal", "data", "meta", "clean"}
  MaxInserts = 4
  MaxCrashes = 1
  MaxFailures = 1
  MaxTime = 3
SPECIFICATION Spec
INVARIANT NoPhantomRows
