\* Two partitions with the same minTimestamp: swap and remove act on the first match from head.
CONSTANTS
  u1 = u1  u2 = u2  r1 = r1  a = a  b = b  c = c  d = d
  Mutators <- OneMutator
  Readers <- NoReaders
  Partitions <- FourParts
  MinTs <- SharedMinTs
  MaxOps = 3
  MaxReads = 0
SPECIFICATION Spec
PROPERTY Refines
