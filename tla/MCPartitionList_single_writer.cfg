\* One mutator (the single writer of spec section 1) and one reader iterating or calling getHead.
CONSTANTS
  u1 = u1  u2 = u2  r1 = r1  a = a  b = b  c = c  d = d
  Mutators <- OneMutator
  Readers <- OneReader
  Partitions <- FourParts
  MinTs <- DistinctMinTs
  MaxOps = 4
  MaxReads = 2
SPECIFICATION Spec
INVARIANT TypeOK
INVARIANT WellFormed
INVARIANT IteratorSeesStable
INVARIANT HeadCacheFresh
PROPERTY Refines
