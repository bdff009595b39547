\* remove of the last node through the head branch leaves tail on the removed node.
CONSTANTS
  u1 = u1  u2 = u2  r1 = r1  a = a  b = b  c = c  d = d
  Mutators <- OneMutator
  Readers <- NoReaders
  Partitions <- FourParts
  MinTs <- DistinctMinTs
  MaxOps = 5
  MaxReads = 0
SPECIFICATION Spec
INVARIANT TailIsLastOrNil
