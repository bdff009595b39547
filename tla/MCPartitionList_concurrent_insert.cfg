\* Two mutators: insert reads head under RLock and sets it under Lock in separate sections.
CONSTANTS
  u1 = u1  u2 = u2  r1 = r1  a = a  b = b  c = c  d = d
  Mutators <- TwoMutators
  Readers <- NoReaders
  Partitions <- FourParts
  MinTs <- DistinctMinTs
  MaxOps = 2
  MaxReads = 0
SPECIFICATION Spec
PROPERTY Refines
