\* Both builds, every system call fallible, no readers.
CONSTANTS
  r1 = r1  r2 = r2
  Platforms = {"unix", "windows"}
  Fallible <- AllCalls
  Dirs <- AllDirs
  Readers = {}
SPECIFICATION Spec
INVARIANT NoLeakOnOpenError
