\* remove cleans the partition at once while an iterator may still stand on its node.
CONSTANTS
  u1 = u1  u2 = u2  r1 = r1  a = a  b = b  c = c  d = d
  Mutators <- OneMutator
  Readers <- OneReader
  Partitions <- FourParts
  MinTs <- DistinctMinTs
  MaxOps = 3
  MaxReads = 1
SPECIFICATION Spec
INVARIANT NoUseOfCleaned
