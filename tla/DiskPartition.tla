---------------------------- MODULE DiskPartition ----------------------------
(***************************************************************************)
(* diskPartition of src/unnamed/part_003 with the mmap wrappers of         *)
(* src/unnamed/part_002 and src/internal/syscall/mmap_windows.go.          *)
(* openDiskPartition runs first, one step per system call, each of which  *)
(* may fail when it is in Fallible.  Once the partition is open, Readers  *)
(* call selectDataPoints (they hold the partition from a list iteration,  *)
(* so they may call it at any time), time passes until the partition is   *)
(* expired, and retention removes it from the list and calls clean().     *)
(* The OS resources the program holds are a set: the data file's fd, the *)
(* windows file-mapping handle, the mapped view and meta.json's fd.        *)
(* Decoding is abstracted to whether it reads a live mapping.              *)
(***************************************************************************)
EXTENDS FiniteSets

CONSTANTS
  Platforms,  \* builds checked: "unix" (part_002) and "windows"
  Fallible,   \* system calls that may return an error
  Dirs,       \* directories openDiskPartition may be given (see Dir)
  Readers     \* goroutines calling selectDataPoints once

\* A directory: its path is empty or not, meta.json exists or not, and the
\* data file is empty or not.
Dir == [emptyPath : BOOLEAN, meta : BOOLEAN, dataEmpty : BOOLEAN]

ASSUME Dirs \subseteq Dir

VARIABLES
  platform,  \* the build's mmap
  dir,       \* the directory being opened
  op,        \* openDiskPartition: pc and result
  held,      \* OS resources held by the process
  view,      \* the mapped view: "none", "mapped", "unmapped"
  d,         \* the diskPartition: its mappedFile and f fields
  removed,   \* os.RemoveAll(d.dirPath) has run
  expired,   \* time.Since(d.meta.CreatedAt) > d.retention
  rd,        \* readers: pc and the mappedFile they loaded
  cl         \* clean(): pc and result

vars == <<platform, dir, op, held, view, d, removed, expired, rd, cl>>

\* The outcomes of a call: it can fail only when it is in Fallible.
Outcomes(call) == IF call \in Fallible THEN {TRUE, FALSE} ELSE {TRUE}

\* Return from openDiskPartition with an error.
OpenErr(h) == op' = [pc |-> "done", res |-> "err"] /\ held' = h

(***************************************************************************)
(* openDiskPartition                                                       *)
(***************************************************************************)
\* dirPath == "" and the os.Stat of meta.json; other Stat errors go on.
CheckDir ==
  /\ op.pc = "start"
  /\ IF dir.emptyPath \/ ~dir.meta THEN OpenErr(held)
     ELSE op' = [op EXCEPT !.pc = "open_data"] /\ UNCHANGED held
  /\ UNCHANGED <<view, d, removed>>

OpenData ==
  /\ op.pc = "open_data"
  /\ \E ok \in Outcomes("open") :
       IF ok THEN op' = [op EXCEPT !.pc = "stat"] /\ held' = held \cup {"fd"}
       ELSE OpenErr(held)
  /\ UNCHANGED <<view, d, removed>>

\* f.Stat(), and the ErrNoDataPoints of an empty file: f.Close() first.
StatData ==
  /\ op.pc = "stat"
  /\ \E ok \in Outcomes("stat") :
       IF ok /\ ~dir.dataEmpty THEN op' = [op EXCEPT !.pc = "mmap"] /\ UNCHANGED held
       ELSE OpenErr(held \ {"fd"})
  /\ UNCHANGED <<view, d, removed>>

\* syscall.Mmap on unix: one call; on error f.Close().
MmapUnix ==
  /\ op.pc = "mmap" /\ platform = "unix"
  /\ \E ok \in Outcomes("mmap") :
       IF ok THEN /\ op' = [op EXCEPT !.pc = "open_meta"]
                  /\ held' = held \cup {"view"} /\ view' = "mapped"
       ELSE OpenErr(held \ {"fd"}) /\ UNCHANGED view
  /\ UNCHANGED <<d, removed>>

\* mmap on windows: CreateFileMapping; an error returns at once.
CreateFileMapping ==
  /\ op.pc = "mmap" /\ platform = "windows"
  /\ \E ok \in Outcomes("CreateFileMapping") :
       IF ok THEN op' = [op EXCEPT !.pc = "map_view"] /\ held' = held \cup {"handle"}
       ELSE OpenErr(held \ {"fd"})
  /\ UNCHANGED <<view, d, removed>>

\* MapViewOfFile: an error returns without closing the mapping handle.
MapViewOfFile ==
  /\ op.pc = "map_view"
  /\ \E ok \in Outcomes("MapViewOfFile") :
       IF ok THEN /\ op' = [op EXCEPT !.pc = "close_handle"]
                  /\ held' = held \cup {"view"} /\ view' = "mapped"
       ELSE OpenErr(held \ {"fd"}) /\ UNCHANGED view
  /\ UNCHANGED <<d, removed>>

\* CloseHandle: an error returns with the view still mapped.
CloseHandle ==
  /\ op.pc = "close_handle"
  /\ \E ok \in Outcomes("CloseHandle") :
       IF ok THEN op' = [op EXCEPT !.pc = "open_meta"] /\ held' = held \ {"handle"}
       ELSE OpenErr(held \ {"fd"})
  /\ UNCHANGED <<view, d, removed>>

\* os.Open(meta.json): an error returns with the data file open and mapped.
OpenMeta ==
  /\ op.pc = "open_meta"
  /\ \E ok \in Outcomes("open_meta") :
       IF ok THEN op' = [op EXCEPT !.pc = "decode"] /\ held' = held \cup {"metafd"}
       ELSE OpenErr(held)
  /\ UNCHANGED <<view, d, removed>>

\* json Decode; the deferred mf.Close() runs on both returns.
DecodeMeta ==
  /\ op.pc = "decode"
  /\ \E ok \in Outcomes("decode") :
       IF ok THEN /\ op' = [pc |-> "done", res |-> "ok"]
                  /\ held' = held \ {"metafd"}
                  /\ d' = [mappedFile |-> "view", f |-> "fd"]
       ELSE OpenErr(held \ {"metafd"}) /\ UNCHANGED d
  /\ UNCHANGED <<view, removed>>

Open ==
  \/ CheckDir \/ OpenData \/ StatData \/ MmapUnix \/ CreateFileMapping
  \/ MapViewOfFile \/ CloseHandle \/ OpenMeta \/ DecodeMeta

(***************************************************************************)
(* The open partition: time, selectDataPoints, clean                       *)
(***************************************************************************)
IsOpen == op.res = "ok"

Expire ==
  /\ IsOpen /\ ~expired
  /\ expired' = TRUE
  /\ UNCHANGED <<platform, dir, op, held, view, d, removed, rd, cl>>

\* if d.expired() { return error }, then the lookup in the immutable meta.
CheckExpired(r) ==
  /\ IsOpen /\ rd[r].pc = "idle"
  /\ \E found \in BOOLEAN :
       rd' = [rd EXCEPT ![r].pc = IF expired \/ ~found THEN "done" ELSE "load"]
  /\ UNCHANGED <<platform, dir, op, held, view, d, removed, expired, cl>>

\* bytes.NewReader(d.mappedFile): an unsynchronised read of the field.
LoadMapping(r) ==
  /\ rd[r].pc = "load"
  /\ rd' = [rd EXCEPT ![r].pc = "decode", ![r].buf = d.mappedFile]
  /\ UNCHANGED <<platform, dir, op, held, view, d, removed, expired, cl>>

\* Seek and decode numDataPoints points from the bytes loaded: a nil
\* slice fails to decode; an unmapped view faults the process.
DecodePoints(r) ==
  /\ rd[r].pc = "decode"
  /\ rd' = [rd EXCEPT ![r].pc = IF rd[r].buf = "view" /\ view = "unmapped" THEN "fault"
                                ELSE "done"]
  /\ UNCHANGED <<platform, dir, op, held, view, d, removed, expired, cl>>

Select(r) == CheckExpired(r) \/ LoadMapping(r) \/ DecodePoints(r)

\* Retention: partitionList.remove of the expired partition calls clean().
StartClean ==
  /\ IsOpen /\ expired /\ cl.pc = "idle"
  /\ cl' = [cl EXCEPT !.pc = "munmap"]
  /\ UNCHANGED <<platform, dir, op, held, view, d, removed, expired, rd>>

\* Mutant: clean() drops d.mappedFile without unmapping it.
MunmapForgotten ==
  /\ cl.pc = "munmap"
  /\ cl' = [cl EXCEPT !.pc = "nil_map"]
  /\ UNCHANGED <<platform, dir, op, held, view, d, removed, expired, rd>>

\* syscall.Munmap of a non-empty view (unix munmap or UnmapViewOfFile):
\* on success the view is gone; on error nothing is released.
SysMunmap(ok) ==
  IF ok THEN held' = held \ {"view"} /\ view' = "unmapped" ELSE UNCHANGED <<held, view>>

\* if d.mappedFile != nil { Munmap }
Munmap ==
  /\ cl.pc = "munmap"
  /\ IF d.mappedFile = "nil" THEN cl' = [cl EXCEPT !.pc = "close"] /\ UNCHANGED <<held, view>>
     ELSE \E ok \in Outcomes("munmap") :
            /\ SysMunmap(ok)
            /\ cl' = IF ok THEN [cl EXCEPT !.pc = "nil_map"] ELSE [pc |-> "done", res |-> "err"]
  /\ UNCHANGED <<platform, dir, op, d, removed, expired, rd>>

\* d.mappedFile = nil
ClearMapping ==
  /\ cl.pc = "nil_map"
  /\ d' = [d EXCEPT !.mappedFile = "nil"]
  /\ cl' = [cl EXCEPT !.pc = "close"]
  /\ UNCHANGED <<platform, dir, op, held, view, removed, expired, rd>>

\* if d.f != nil { d.f.Close(); d.f = nil }
CloseFile ==
  /\ cl.pc = "close"
  /\ \E ok \in Outcomes("close") :
       IF ok THEN /\ cl' = [cl EXCEPT !.pc = "remove_all"]
                  /\ held' = held \ {"fd"} /\ d' = [d EXCEPT !.f = "nil"]
       ELSE cl' = [pc |-> "done", res |-> "err"] /\ UNCHANGED <<held, d>>
  /\ UNCHANGED <<platform, dir, op, view, removed, expired, rd>>

\* os.RemoveAll(d.dirPath)
RemoveAll ==
  /\ cl.pc = "remove_all"
  /\ \E ok \in Outcomes("remove_all") :
       /\ cl' = [pc |-> "done", res |-> IF ok THEN "ok" ELSE "err"]
       /\ removed' = ok
  /\ UNCHANGED <<platform, dir, op, held, view, d, expired, rd>>

Clean == StartClean \/ Munmap \/ ClearMapping \/ CloseFile \/ RemoveAll

(***************************************************************************)
(* Specification                                                           *)
(***************************************************************************)
Init ==
  /\ platform \in Platforms
  /\ dir \in Dirs
  /\ op = [pc |-> "start", res |-> "none"]
  /\ held = {} /\ view = "none"
  /\ d = [mappedFile |-> "nil", f |-> "nil"]
  /\ removed = FALSE /\ expired = FALSE
  /\ rd = [r \in Readers |-> [pc |-> "idle", buf |-> "nil"]]
  /\ cl = [pc |-> "idle", res |-> "none"]

\* Nothing is left to do: open failed, or every call has returned.
Finished ==
  /\ op.pc = "done"
  /\ IsOpen => /\ expired /\ cl.pc = "done"
               /\ \A r \in Readers : rd[r].pc \in {"done", "fault"}

Next ==
  \/ Open /\ UNCHANGED <<platform, dir, expired, rd, cl>>
  \/ Expire
  \/ \E r \in Readers : Select(r)
  \/ Clean
  \/ Finished /\ UNCHANGED vars

Spec == Init /\ [][Next]_vars

(***************************************************************************)
(* Properties                                                              *)
(***************************************************************************)
Resources == {"fd", "handle", "view", "metafd"}

\* An open that succeeded hands every resource it still holds to the
\* partition, so a clean() that returns nil leaves the process holding
\* nothing and the directory gone.
CleanReleasesAll ==
  cl.res = "ok" => held = {} /\ removed

\* Spec 5 and 9: the mmapped bytes must not outlive their unmap; clean()
\* runs only once no reader holds the partition.  So selectDataPoints never
\* decodes from an unmapped view.
NoUseAfterUnmap == \A r \in Readers : rd[r].pc # "fault"

\* Spec 7: an openDiskPartition that returns an error leaves nothing open.
NoLeakOnOpenError == op.res = "err" => held = {}
====
