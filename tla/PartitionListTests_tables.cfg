\* The ten table cases, one mutator running the case's call, one reader iterating beside it.
CONSTANTS
  p1 = p1  p2 = p2  p3 = p3  p100 = p100
  Mutators = {u1}
  Readers = {r1}
  Partitions <- TestPartitions
  MinTs <- TestMinTs
  MaxOps = 1
  MaxReads = 2
SPECIFICATION TestSpec
INVARIANT PassesTests
