------------------------------- MODULE Storage -------------------------------
(***************************************************************************)
(* The storage facade (storage.go and wal.go, not under src/, so modelled  *)
(* from spec sections 4.6 and 4.7) around the memory partitions of         *)
(* src/memory_partition.go.  One inserter calls InsertRows with one row;   *)
(* a background goroutine flushes memory partitions past the writable      *)
(* ones and removes expired disk partitions; the process may crash at any  *)
(* point and reopen.  A partition and the WAL segment started with it     *)
(* share an id.  A point is a timestamp with the (history) time it was     *)
(* acknowledged, so that retention can be judged against it; partitions    *)
(* and WAL segments hold bags of points, as a row may be stored or logged  *)
(* more than once.                                                         *)
(***************************************************************************)
EXTENDS Naturals, Sequences, SequencesExt, FiniteSets

CONSTANTS
  Ts,                 \* timestamps a row may carry (all > 0)
  PartitionDuration,  \* a memory partition is active while its span is below this
  Retention,          \* a disk partition expires once older than this
  WritableNum,        \* the first WritableNum partitions accept writes
  Fallible,           \* I/O that may fail: "wal" (append), "data", "meta", "clean"
  MaxInserts, MaxCrashes, MaxFailures, MaxTime

PartIds == 1..(1 + MaxInserts + MaxCrashes)
NoTs == 0

VARIABLES
  list,      \* partition ids, head first
  part,      \* part[p]: kind ("none", "mem", "disk", "gone"), pts (a bag), minT, maxT, created, segs
  dirs,      \* dirs[p]: the partition directory: "none", "data", "valid", with its pts and createdAt
  wal,       \* wal[s]: the bag of rows appended to WAL segment s; live segments only
  now,       \* the clock
  fl,        \* the flush goroutine: pc, the partition, failures so far
  inserts, crashes, nextPart,
  acked      \* history: bag of points InsertRows stored and returned nil for

vars == <<list, part, dirs, wal, now, fl, inserts, crashes, nextPart, acked>>

NewMem(segs) == [kind |-> "mem", pts |-> EmptyBag, minT |-> NoTs, maxT |-> NoTs, created |-> 0, segs |-> segs]
NoDir == [state |-> "none", pts |-> EmptyBag, created |-> 0]

\* The sum of a function's bags: the WAL's segments, the list's partitions.
SumBags(f) == FoldFunction(LAMBDA b, acc : b (+) acc, EmptyBag, f)

\* k copies of x.
Copies(x, k) == IF k = 0 THEN EmptyBag ELSE x :> k

Outcomes(io) == IF io \in Fallible THEN {TRUE, FALSE} ELSE {TRUE}
InList(p) == \E i \in DOMAIN list : list[i] = p

\* memoryPartition.active() of a partition record.
Active(r) == r.maxT - r.minT + 1 < PartitionDuration

\* memoryPartition.insertRows of one row, after its WAL append: minT is set
\* once; a row below minT is returned as outdated; maxT is raised.
Outdated(p, t) == part[p].minT # NoTs /\ t < part[p].minT
InsertInto(p, x) ==
  [part[p] EXCEPT !.pts = @ (+) Copies(x, 1),
                  !.minT = IF @ = NoTs THEN x.ts ELSE @,
                  !.maxT = IF @ < x.ts THEN x.ts ELSE @]

\* The memory partitions among the first WritableNum of the list, in order.
Writable == SelectSeq(SubSeq(list, 1, IF Len(list) < WritableNum THEN Len(list) ELSE WritableNum),
                      LAMBDA p : part[p].kind = "mem")

\* InsertRows(row): each writable partition tried appends the row to the
\* current segment before its outdated check, so a row tried at k
\* partitions is logged k times; the first that does not
\* return it outdated stores it; a row outdated everywhere is dropped.  A
\* head made inactive is rotated: a fresh memory partition with a new
\* segment is put in front.  A failed append returns the error at once.
InsertRows ==
  /\ inserts < MaxInserts
  /\ \E t \in Ts :
     LET x == [ts |-> t, at |-> now]
         h == list[1]
         targets == {i \in DOMAIN Writable : ~Outdated(Writable[i], t)}
         tried == IF targets = {} THEN Len(Writable) ELSE Min(targets)
         part1 == IF targets = {} THEN part
                  ELSE [part EXCEPT ![Writable[tried]] = InsertInto(Writable[tried], x)]
         rotate == ~Active(part1[h])
         logged(w, k) == [w EXCEPT ![h] = @ (+) Copies(x, k)]
     IN \/ /\ wal' = logged(wal, tried) @@ (IF rotate THEN nextPart :> EmptyBag ELSE <<>>)
           /\ part' = IF rotate THEN [part1 EXCEPT ![nextPart] = NewMem({nextPart})] ELSE part1
           /\ list' = IF rotate THEN <<nextPart>> \o list ELSE list
           /\ nextPart' = IF rotate THEN nextPart + 1 ELSE nextPart
           /\ acked' = IF targets = {} THEN acked ELSE acked (+) Copies(x, 1)
        \/ /\ "wal" \in Fallible
           /\ \E j \in 1..tried : wal' = logged(wal, j - 1)
           /\ UNCHANGED <<part, list, nextPart, acked>>
  /\ inserts' = inserts + 1
  /\ UNCHANGED <<dirs, now, fl, crashes>>

(***************************************************************************)
(* Flush: encode the partition, write data then meta.json (fsync both),   *)
(* open it as a disk partition, swap it in, remove its WAL segments.  A   *)
(* failing step leaves the memory partition in the list for a later cycle. *)
(***************************************************************************)
Flushable(p) == \E i \in DOMAIN list : i > WritableNum /\ list[i] = p /\ part[p].kind = "mem"

FlushPick ==
  /\ fl.pc = "idle"
  /\ \E p \in PartIds : Flushable(p) /\ fl' = [fl EXCEPT !.pc = "data", !.p = p]
  /\ UNCHANGED <<list, part, dirs, wal, now, inserts, crashes, nextPart, acked>>

\* A failed step is logged and retried on the next cycle.
FlushFail == fl' = [pc |-> "idle", p |-> 0, fails |-> fl.fails + 1]

FlushData ==
  /\ fl.pc = "data"
  /\ \E ok \in Outcomes("data") :
       IF ok THEN /\ dirs' = [dirs EXCEPT ![fl.p] = [state |-> "data", pts |-> part[fl.p].pts, created |-> 0]]
                  /\ fl' = [fl EXCEPT !.pc = "meta"]
       ELSE /\ fl.fails < MaxFailures /\ FlushFail
            /\ dirs' = [dirs EXCEPT ![fl.p].state = IF @ = "none" THEN "data" ELSE @]
  /\ UNCHANGED <<list, part, wal, now, inserts, crashes, nextPart, acked>>

FlushMeta ==
  /\ fl.pc = "meta"
  /\ \E ok \in Outcomes("meta") :
       IF ok THEN /\ dirs' = [dirs EXCEPT ![fl.p].state = "valid", ![fl.p].created = now]
                  /\ fl' = [fl EXCEPT !.pc = "swap"]
       ELSE fl.fails < MaxFailures /\ FlushFail /\ UNCHANGED dirs
  /\ UNCHANGED <<list, part, wal, now, inserts, crashes, nextPart, acked>>

\* Mutant: swap does not find the memory partition (it compares
\* partitions by a field the disk partition reports differently); the
\* flush is logged and retried.
FlushSwapMismatch ==
  /\ fl.pc = "swap"
  /\ fl' = [fl EXCEPT !.pc = "idle", !.p = 0]
  /\ UNCHANGED <<list, part, dirs, wal, now, inserts, crashes, nextPart, acked>>

\* openDiskPartition of the new directory and partitionList.swap.
FlushSwap ==
  /\ fl.pc = "swap"
  /\ part' = [part EXCEPT ![fl.p] = [@ EXCEPT !.kind = "disk", !.pts = dirs[fl.p].pts,
                                                !.created = dirs[fl.p].created]]
  /\ fl' = [fl EXCEPT !.pc = "wal"]
  /\ UNCHANGED <<list, dirs, wal, now, inserts, crashes, nextPart, acked>>

FlushRemoveSegments ==
  /\ fl.pc = "wal"
  /\ wal' = [s \in DOMAIN wal \ part[fl.p].segs |-> wal[s]]
  /\ fl' = [fl EXCEPT !.pc = "idle", !.p = 0]
  /\ UNCHANGED <<list, part, dirs, now, inserts, crashes, nextPart, acked>>

Flush == FlushPick \/ FlushData \/ FlushMeta \/ FlushSwap \/ FlushRemoveSegments

(***************************************************************************)
(* Retention, the clock, and a crash followed by openStorage               *)
(***************************************************************************)
\* Mutant: a partition expires once its age reaches the retention.
ExpiredAtRetention(p) == InList(p) /\ part[p].kind = "disk" /\ now - part[p].created >= Retention

\* diskPartition.expired(): time.Since(createdAt) > retention.
Expired(p) == InList(p) /\ part[p].kind = "disk" /\ now - part[p].created > Retention

\* The retention pass, on the flush goroutine between flushes: remove the
\* expired partition from the list, which cleans it; a failed clean is
\* logged and the directory stays on disk.
RemoveExpired ==
  /\ fl.pc = "idle"
  /\ \E p \in PartIds :
       /\ Expired(p)
       /\ list' = SelectSeq(list, LAMBDA q : q # p)
       /\ part' = [part EXCEPT ![p].kind = "gone"]
       /\ \E ok \in Outcomes("clean") : dirs' = IF ok THEN [dirs EXCEPT ![p] = NoDir] ELSE dirs
  /\ UNCHANGED <<wal, now, fl, inserts, crashes, nextPart, acked>>

Tick ==
  /\ now < MaxTime
  /\ now' = now + 1
  /\ UNCHANGED <<list, part, dirs, wal, fl, inserts, crashes, nextPart, acked>>

\* Mutant: a reloaded partition's age starts when it is opened.
ReloadedAtOpen(p) ==
  [kind |-> "disk", pts |-> dirs[p].pts, minT |-> Min({x.ts : x \in DOMAIN dirs[p].pts}),
   maxT |-> Max({x.ts : x \in DOMAIN dirs[p].pts}), created |-> now, segs |-> {}]

\* openDiskPartition of a directory: the points, range and createdAt all
\* come from its meta.json.
Reloaded(p) ==
  [kind |-> "disk", pts |-> dirs[p].pts, minT |-> Min({x.ts : x \in DOMAIN dirs[p].pts}),
   maxT |-> Max({x.ts : x \in DOMAIN dirs[p].pts}), created |-> dirs[p].created, segs |-> {}]

\* The partitions in memory and an unfinished flush are lost.  openStorage
\* loads every directory with a meta.json, sorted by createdAt with the
\* newest at head (a directory without meta is skipped as
\* InvalidPartition), puts a fresh memory partition with a new segment in
\* front and replays the remaining segments into it with one insertRows,
\* which appends the replayed rows to the new segment (memory_partition.go:61);
\* the old segments stay until the head is flushed.
CrashAndReopen ==
  /\ crashes < MaxCrashes
  /\ LET valid == {p \in PartIds : dirs[p].state = "valid"}
         h == nextPart
         replayed == SumBags(wal)
         ts == {x.ts : x \in DOMAIN replayed}
     IN /\ \E order \in SetToSeqs(valid) :
             /\ \A i, j \in DOMAIN order : i < j => dirs[order[i]].created >= dirs[order[j]].created
             /\ list' = <<h>> \o order
        /\ part' = [p \in PartIds |->
                     CASE p = h -> [NewMem(DOMAIN wal \cup {h}) EXCEPT
                                      !.pts = replayed,
                                      !.minT = IF ts = {} THEN NoTs ELSE Min(ts),
                                      !.maxT = IF ts = {} THEN NoTs ELSE Max(ts)]
                       [] p \in valid -> Reloaded(p)
                       [] part[p].kind = "none" -> part[p]
                       [] OTHER -> [part[p] EXCEPT !.kind = "gone"]]
        /\ wal' = wal @@ (h :> replayed)
  /\ fl' = [pc |-> "idle", p |-> 0, fails |-> fl.fails]
  /\ crashes' = crashes + 1 /\ nextPart' = nextPart + 1
  /\ UNCHANGED <<dirs, now, inserts, acked>>

(***************************************************************************)
(* Specification                                                           *)
(***************************************************************************)
Init ==
  /\ list = <<1>>
  /\ part = [p \in PartIds |-> IF p = 1 THEN NewMem({1})
                               ELSE [NewMem({}) EXCEPT !.kind = "none"]]
  /\ dirs = [p \in PartIds |-> NoDir]
  /\ wal = 1 :> EmptyBag
  /\ now = 0
  /\ fl = [pc |-> "idle", p |-> 0, fails |-> 0]
  /\ inserts = 0 /\ crashes = 0 /\ nextPart = 2
  /\ acked = EmptyBag

\* Every bound is reached and the background goroutine has nothing to do.
Finished ==
  /\ inserts = MaxInserts /\ now = MaxTime /\ crashes = MaxCrashes /\ fl.pc = "idle"
  /\ \A p \in PartIds : ~Flushable(p) /\ ~Expired(p)

Next ==
  \/ InsertRows \/ Flush \/ RemoveExpired \/ Tick \/ CrashAndReopen
  \/ Finished /\ UNCHANGED vars

Spec == Init /\ [][Next]_vars

\* The background goroutine runs on a ticker: each of its steps, once it
\* stays possible, is taken.  Inserts, the clock and crashes are the
\* environment and are not assumed to happen.
FairSpec == Spec /\ WF_vars(Flush) /\ WF_vars(RemoveExpired)

(***************************************************************************)
(* Properties                                                              *)
(***************************************************************************)
\* Every point the partitions of the list hold, with its copies.
Visible == SumBags([i \in DOMAIN list |-> part[list[i]].pts])

\* Spec 3, 4.6 and S6: a row InsertRows stored stays in a partition of the
\* list, across flushes, failed flush steps and crashes with WAL replay,
\* until retention may have removed it (it is older than Retention).
Durable ==
  \A x \in DOMAIN acked : CopiesIn(x, acked) <= CopiesIn(x, Visible) \/ now - x.at > Retention

\* Spec 4.4, 4.7 and S6: a row a flush has made durable (it is in a
\* directory whose meta.json was written) stays in a partition of the list,
\* across the swap, crashes with reload and retention, until it may have
\* expired; reload keeps createdAt, and expired() is strict.
FlushedRowsKept ==
  \A p \in PartIds : dirs[p].state = "valid" =>
    \A x \in DOMAIN dirs[p].pts :
      CopiesIn(x, dirs[p].pts) <= CopiesIn(x, Visible) \/ now - x.at > Retention

\* Spec 4.7: a memory partition past the writable ones is eventually
\* flushed to disk (or lost by a crash, its rows replayed into the head).
FlushEventually == \A p \in PartIds : Flushable(p) ~> ~Flushable(p)

\* Spec 4.7: an expired disk partition is eventually removed from the list.
RetentionEventually == \A p \in PartIds : Expired(p) ~> ~InList(p)

\* Spec 8.4: the head is the newest partition: once it holds a row, its
\* min timestamp is at least that of every other partition.
HeadNewest ==
  part[list[1]].minT # NoTs => \A i \in DOMAIN list : part[list[i]].minT <= part[list[1]].minT

\* Spec 4.7, S5 and S6: a row InsertRows dropped as older than every
\* writable partition is not stored, and a replayed row comes back once:
\* no point is held more often than InsertRows acknowledged it.
NoPhantomRows == \A x \in DOMAIN Visible : CopiesIn(x, Visible) <= CopiesIn(x, acked)
====
