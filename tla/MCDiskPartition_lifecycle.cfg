\* Both builds, every directory shape, every system call fallible, two readers racing clean().
CONSTANTS
  r1 = r1  r2 = r2
  Platforms = {"unix", "windows"}
  Fallible <- AllCalls
  Dirs <- AllDirs
  Readers = {r1, r2}
SPECIFICATION Spec
INVARIANT CleanReleasesAll
