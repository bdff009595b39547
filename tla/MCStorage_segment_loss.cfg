\* Seven single-row inserts over three timestamps, partitions of span 2, two
\* writable partitions, one crash, no I/O failure: a row stored at the second
\* writable partition is logged in the head's segment, which the head's flush
\* deletes while that partition is still in memory.
CONSTANTS
  Ts = {1, 2, 3}
  PartitionDuration = 2
  Retention = 3
  WritableNum = 2
  Fallible = {}
  MaxInserts = 7
  MaxCrashes = 1
  MaxFailures = 0
  MaxTime = 0
SPECIFICATION Spec
INVARIANT Durable
