--------------------------- MODULE MCDiskPartition ---------------------------
EXTENDS DiskPartition

CONSTANTS r1, r2

\* Every kind of directory openDiskPartition may meet.
AllDirs == Dir

\* Every system call may fail.
AllCalls ==
  {"open", "stat", "mmap", "CreateFileMapping", "MapViewOfFile", "CloseHandle",
   "open_meta", "decode", "munmap", "close", "remove_all"}

\* A well-formed directory whose system calls succeed.
GoodDir == {[emptyPath |-> FALSE, meta |-> TRUE, dataEmpty |-> FALSE]}
====
