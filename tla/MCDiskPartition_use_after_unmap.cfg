\* A well-formed partition, no failures, one reader racing retention's clean().
CONSTANTS
  r1 = r1  r2 = r2
  Platforms = {"unix"}
  Fallible = {}
  Dirs <- GoodDir
  Readers = {r1}
SPECIFICATION Spec
INVARIANT NoUseAfterUnmap
