--------------------------- MODULE MemoryPartition ---------------------------
(***************************************************************************)
(* One memoryPartition (src/memory_partition.go) shared by concurrent      *)
(* goroutines: Writers call insertRows, Readers call selectDataPoints.     *)
(*                                                                         *)
(* Every lock-protected section of memoryMetric (the RLock read of the     *)
(* last timestamp, the Lock'ed double-check-and-append, the slow path and  *)
(* the RLock'ed slice of selectPoints) is one atomic step.  What lies      *)
(* between them is a step boundary: the lock-free atomic loads of size,    *)
(* minTimestamp, maxTimestamp, the sync.Map Load and Store of getMetric,   *)
(* the sync.Once of minT, and the Load/Swap pair on the partition's maxT.  *)
(*                                                                         *)
(* Labels are folded into the metric key (label.go is LabelEncoding);     *)
(* a data point is its timestamp.                                          *)
(***************************************************************************)
EXTENDS Integers, Sequences, SequencesExt, Bags, FiniteSets

CONSTANTS
  Writers,     \* goroutines calling insertRows
  Readers,     \* goroutines calling selectDataPoints
  Metrics,     \* metric keys (marshalMetricName results), model values
  Timestamps,  \* row timestamps a caller may pass; 0 means "stamp with now"
  Now,         \* toUnix(time.Now()) in the partition's precision
  Batches,     \* rows slices a writer may pass to insertRows
  QueryBounds, \* [start, end) pairs a reader may pass to selectDataPoints
  MaxCalls,    \* insertRows calls per writer
  MaxSelects,  \* selectDataPoints calls per reader
  WALMayFail,  \* whether wal.append may return an error
  Flushers     \* goroutines calling encodeAllPoints on a series of this partition

ASSUME /\ 0 \in Timestamps /\ Timestamps \subseteq Nat
       /\ \A t \in Timestamps : t < Now
       /\ Batches \subseteq Seq([metric : Metrics, ts : Timestamps])
       /\ QueryBounds \subseteq Nat \X Nat

NoObj == 0

Row == [metric : Metrics, ts : Timestamps]

\* Timestamps a stored point can carry: 0 is replaced by Now.
StoredTs == (Timestamps \ {0}) \cup {Now}

VARIABLES
  minT,       \* memoryPartition.minT
  onceDone,   \* memoryPartition.once has run
  maxT,       \* memoryPartition.maxT
  numPoints,  \* memoryPartition.numPoints
  metrics,    \* memoryPartition.metrics: sync.Map from key to memoryMetric
  objs,       \* every memoryMetric ever allocated, by address 1..Len(objs)
  walLog,     \* batches handed to wal.append
  wr,         \* insertRows goroutines: program counter and locals
  rd,         \* selectDataPoints goroutines: program counter and locals
  accepted,   \* history: per metric, bag of timestamps handed to insertPoint
  fs          \* flush goroutines running encodeAllPoints: program counter and locals

vars == <<minT, onceDone, maxT, numPoints, metrics, objs, walLog, wr, rd, accepted, fs>>

(***************************************************************************)
(* memoryMetric                                                            *)
(***************************************************************************)
NewMemoryMetric(name) ==
  [name |-> name, points |-> <<>>, ooo |-> <<>>,
   size |-> 0, minTimestamp |-> 0, maxTimestamp |-> 0]

\* Append point to points, publishing maxTimestamp and size.
AppendInOrder(o, t) ==
  [o EXCEPT !.points = Append(@, t), !.maxTimestamp = t, !.size = @ + 1]

\* Mutant: the slow path drops a point that is neither first nor in order.
SlowInsertDropOutOfOrder(o, t) ==
  CASE o.size = 0 ->
         [o EXCEPT !.points = Append(@, t), !.minTimestamp = t,
                   !.maxTimestamp = t, !.size = 1]
    [] Len(o.points) > 0 /\ o.points[o.size] < t -> AppendInOrder(o, t)
    [] OTHER -> o

\* The slow path of insertPoint, under m.mu.Lock.
SlowInsert(o, t) ==
  CASE o.size = 0 ->
         [o EXCEPT !.points = Append(@, t), !.minTimestamp = t,
                   !.maxTimestamp = t, !.size = 1]
    [] Len(o.points) > 0 /\ o.points[o.size] < t -> AppendInOrder(o, t)
    [] OTHER -> [o EXCEPT !.ooo = Append(@, t)]

\* Mutant: the fast path appends without re-checking under the write lock.
FastAppendNoRecheck(o, t) == TRUE

\* The fast path's re-check under m.mu.Lock.
FastAppendOk(o, t) == Len(o.points) > 0 /\ t > Last(o.points)

\* The last in-order timestamp as read under m.mu.RLock, 0 when empty.
LastTimestamp(o) == IF Len(o.points) > 0 THEN Last(o.points) ELSE 0

\* sort.Search(n, points[i] >= x) as a 0-based index.
SearchGE(pts, n, x) ==
  LET hits == {i \in 1..n : pts[i] >= x}
  IN IF hits = {} THEN n ELSE Min(hits) - 1

\* Mutant: "end >= maxTimestamp" takes the whole prefix, even a point at end.
SelectPointsEndInclusive(o, size, min, max, start, end) ==
  IF end <= min THEN <<>>
  ELSE LET startIdx == IF start <= min THEN 0 ELSE SearchGE(o.points, size, start)
           endIdx   == IF end >= max THEN size ELSE SearchGE(o.points, size, end)
       IN SubSeq(o.points, startIdx + 1, endIdx)

\* selectPoints' result given the values it loaded before taking the RLock.
SelectPoints(o, size, min, max, start, end) ==
  IF end <= min THEN <<>>
  ELSE LET startIdx == IF start <= min THEN 0 ELSE SearchGE(o.points, size, start)
           endIdx   == IF end > max THEN size ELSE SearchGE(o.points, size, end)
       IN SubSeq(o.points, startIdx + 1, endIdx)

\* Mutant: the merge forgets the points left over once outOfOrderPoints runs out.
RECURSIVE MergeDropTail(_, _)
MergeDropTail(ooo, pts) ==
  CASE ooo = <<>> -> <<>>
    [] pts = <<>> -> ooo
    [] Head(ooo) < Head(pts) -> <<Head(ooo)>> \o MergeDropTail(Tail(ooo), pts)
    [] OTHER -> <<Head(pts)>> \o MergeDropTail(ooo, Tail(pts))

\* encodeAllPoints: sort outOfOrderPoints, then a two-pointer merge.
RECURSIVE MergeByTimestamp(_, _)
MergeByTimestamp(ooo, pts) ==
  CASE ooo = <<>> -> pts
    [] pts = <<>> -> ooo
    [] Head(ooo) < Head(pts) -> <<Head(ooo)>> \o MergeByTimestamp(Tail(ooo), pts)
    [] OTHER -> <<Head(pts)>> \o MergeByTimestamp(ooo, Tail(pts))

EncodeAllPoints(o) == MergeByTimestamp(SortSeq(o.ooo, <), o.points)

(***************************************************************************)
(* insertRows                                                              *)
(***************************************************************************)
\* Mutant: a zero timestamp is stored as it is.
StampNever(t) == t

Stamp(t) == IF t = 0 THEN Now ELSE t

\* Mutant: the running maximum is never raised past rows[0].
RaiseMaxNever(max, t) == max

\* if row.Timestamp > maxTimestamp { maxTimestamp = row.Timestamp }
RaiseMax(max, t) == IF t > max THEN t ELSE max

BatchMin(rows) == Min({rows[i].ts : i \in DOMAIN rows})

\* Advance the writer past its current row.
NextRow(w) ==
  [w EXCEPT !.idx = @ + 1, !.pc = IF w.idx = Len(w.rows) THEN "add" ELSE "row"]

InsertRows(p) ==
  /\ wr[p].pc = "idle" /\ wr[p].calls < MaxCalls
  /\ \E rows \in Batches :
       wr' = [wr EXCEPT ![p].calls = @ + 1, ![p].rows = rows,
                        ![p].pc = IF rows = <<>> THEN "idle" ELSE "wal"]
  /\ UNCHANGED <<minT, onceDone, maxT, numPoints, metrics, objs, walLog, rd, accepted, fs>>

WalAppend(p) ==
  /\ wr[p].pc = "wal"
  /\ \/ /\ walLog' = Append(walLog, wr[p].rows)
        /\ wr' = [wr EXCEPT ![p].pc = "once"]
     \/ /\ WALMayFail
        /\ wr' = [wr EXCEPT ![p].pc = "idle"]
        /\ UNCHANGED walLog
  /\ UNCHANGED <<minT, onceDone, maxT, numPoints, metrics, objs, rd, accepted, fs>>

\* m.once.Do sets minT from the raw batch; then the row loop starts.
SetMinOnce(p) ==
  /\ wr[p].pc = "once"
  /\ minT' = IF onceDone THEN minT ELSE BatchMin(wr[p].rows)
  /\ onceDone' = TRUE
  /\ wr' = [wr EXCEPT ![p].pc = "row", ![p].idx = 1, ![p].num = 0,
                      ![p].outdated = <<>>, ![p].max = wr[p].rows[1].ts]
  /\ UNCHANGED <<maxT, numPoints, metrics, objs, walLog, rd, accepted, fs>>

\* One row: outdated check, stamping, local max, then getMetric's Load;
\* a miss allocates a memoryMetric that the next step Stores.
InsertRow(p) ==
  LET w   == wr[p]
      row == w.rows[w.idx]
      t   == Stamp(row.ts)
      cur == metrics[row.metric]
  IN /\ w.pc = "row"
     /\ IF row.ts < minT
          THEN /\ wr' = [wr EXCEPT ![p] = NextRow([w EXCEPT !.outdated = Append(@, row)])]
               /\ UNCHANGED objs
          ELSE /\ wr' = [wr EXCEPT ![p].pt = t, ![p].max = RaiseMax(@, t),
                           ![p].obj = IF cur # NoObj THEN cur ELSE Len(objs) + 1,
                           ![p].pc  = IF cur # NoObj THEN "size" ELSE "store"]
               /\ objs' = IF cur # NoObj THEN objs
                          ELSE Append(objs, NewMemoryMetric(row.metric))
     /\ UNCHANGED <<minT, onceDone, maxT, numPoints, metrics, walLog, rd, accepted, fs>>

\* getMetric's m.metrics.Store(name, value), overwriting whatever is there.
StoreMetric(p) ==
  /\ wr[p].pc = "store"
  /\ metrics' = [metrics EXCEPT ![objs[wr[p].obj].name] = wr[p].obj]
  /\ wr' = [wr EXCEPT ![p].pc = "size"]
  /\ UNCHANGED <<minT, onceDone, maxT, numPoints, objs, walLog, rd, accepted, fs>>

(***************************************************************************)
(* memoryMetric.insertPoint, entered with the stamped point in wr[p].pt.   *)
(***************************************************************************)
\* Store the updated memoryMetric and finish the row.
PointInserted(p, o) ==
  /\ objs' = [objs EXCEPT ![wr[p].obj] = o]
  /\ accepted' = [accepted EXCEPT ![o.name] = @ (+) SetToBag({wr[p].pt})]
  /\ wr' = [wr EXCEPT ![p] = NextRow([wr[p] EXCEPT !.num = @ + 1])]

\* size := atomic.LoadInt64(&m.size); the fast path is tried only if size > 0.
LoadSize(p) ==
  /\ wr[p].pc = "size"
  /\ wr' = [wr EXCEPT ![p].pc = IF objs[wr[p].obj].size > 0 THEN "rlock" ELSE "slow"]
  /\ UNCHANGED <<minT, onceDone, maxT, numPoints, metrics, objs, walLog, rd, accepted, fs>>

\* Optimistic read of the last in-order timestamp under m.mu.RLock.
FastPathRead(p) ==
  /\ wr[p].pc = "rlock"
  /\ wr' = [wr EXCEPT ![p].pc = IF wr[p].pt > LastTimestamp(objs[wr[p].obj])
                                THEN "lock" ELSE "slow"]
  /\ UNCHANGED <<minT, onceDone, maxT, numPoints, metrics, objs, walLog, rd, accepted, fs>>

\* m.mu.Lock, double-check, append; on a failed re-check fall to the slow path.
FastPathAppend(p) ==
  LET o == objs[wr[p].obj] IN
  /\ wr[p].pc = "lock"
  /\ IF FastAppendOk(o, wr[p].pt)
       THEN PointInserted(p, AppendInOrder(o, wr[p].pt))
       ELSE /\ wr' = [wr EXCEPT ![p].pc = "slow"]
            /\ UNCHANGED <<objs, accepted>>
  /\ UNCHANGED <<minT, onceDone, maxT, numPoints, metrics, walLog, rd, fs>>

SlowPath(p) ==
  /\ wr[p].pc = "slow"
  /\ PointInserted(p, SlowInsert(objs[wr[p].obj], wr[p].pt))
  /\ UNCHANGED <<minT, onceDone, maxT, numPoints, metrics, walLog, rd, fs>>

\* atomic.AddInt64(&m.numPoints, rowsNum)
AddNumPoints(p) ==
  /\ wr[p].pc = "add"
  /\ numPoints' = numPoints + wr[p].num
  /\ wr' = [wr EXCEPT ![p].pc = "loadmax"]
  /\ UNCHANGED <<minT, onceDone, maxT, metrics, objs, walLog, rd, accepted, fs>>

\* if atomic.LoadInt64(&m.maxT) < maxTimestamp { ... } else return
LoadMaxT(p) ==
  /\ wr[p].pc = "loadmax"
  /\ wr' = [wr EXCEPT ![p].pc = IF maxT < wr[p].max THEN "swapmax" ELSE "idle"]
  /\ UNCHANGED <<minT, onceDone, maxT, numPoints, metrics, objs, walLog, rd, accepted, fs>>

\* atomic.SwapInt64(&m.maxT, maxTimestamp), then return outdatedRows.
SwapMaxT(p) ==
  /\ wr[p].pc = "swapmax"
  /\ maxT' = wr[p].max
  /\ wr' = [wr EXCEPT ![p].pc = "idle"]
  /\ UNCHANGED <<minT, onceDone, numPoints, metrics, objs, walLog, rd, accepted, fs>>

(***************************************************************************)
(* selectDataPoints: getMetric (which also creates a missing metric), then *)
(* selectPoints' three atomic loads and its RLock'ed binary searches.      *)
(***************************************************************************)
SelectDataPoints(r) ==
  /\ rd[r].pc = "idle" /\ rd[r].calls < MaxSelects
  /\ \E m \in Metrics, b \in QueryBounds :
       LET cur == metrics[m] IN
       /\ rd' = [rd EXCEPT ![r].calls = @ + 1, ![r].start = b[1], ![r].end = b[2],
                   ![r].obj = IF cur # NoObj THEN cur ELSE Len(objs) + 1,
                   ![r].pc  = IF cur # NoObj THEN "size" ELSE "store"]
       /\ objs' = IF cur # NoObj THEN objs ELSE Append(objs, NewMemoryMetric(m))
  /\ UNCHANGED <<minT, onceDone, maxT, numPoints, metrics, walLog, wr, accepted, fs>>

ReaderStoreMetric(r) ==
  /\ rd[r].pc = "store"
  /\ metrics' = [metrics EXCEPT ![objs[rd[r].obj].name] = rd[r].obj]
  /\ rd' = [rd EXCEPT ![r].pc = "size"]
  /\ UNCHANGED <<minT, onceDone, maxT, numPoints, objs, walLog, wr, accepted, fs>>

\* The loads of size, minTimestamp and maxTimestamp, one per step.
LoadBounds(r) ==
  LET o == objs[rd[r].obj] IN
  /\ \/ rd[r].pc = "size" /\ rd' = [rd EXCEPT ![r].size = o.size, ![r].pc = "min"]
     \/ rd[r].pc = "min" /\ rd' = [rd EXCEPT ![r].min = o.minTimestamp, ![r].pc = "max"]
     \/ rd[r].pc = "max" /\ rd' = [rd EXCEPT ![r].max = o.maxTimestamp, ![r].pc = "search"]
  /\ UNCHANGED <<minT, onceDone, maxT, numPoints, metrics, objs, walLog, wr, accepted, fs>>

SelectPointsLocked(r) ==
  LET q == rd[r] IN
  /\ q.pc = "search"
  /\ rd' = [rd EXCEPT ![r].result =
              SelectPoints(objs[q.obj], q.size, q.min, q.max, q.start, q.end),
                      ![r].pc = "idle"]
  /\ UNCHANGED <<minT, onceDone, maxT, numPoints, metrics, objs, walLog, wr, accepted, fs>>

(***************************************************************************)
(* encodeAllPoints, run by the flush on a series of this partition while   *)
(* late writers may still insert into it.  It takes no lock: the in-place  *)
(* sort of outOfOrderPoints is one step (an append under m.mu writes past  *)
(* the sorted length, within the preallocated capacity), and each          *)
(* iteration of the three merge loops is one step that re-reads the       *)
(* slices' lengths.                                                        *)
(***************************************************************************)
FlusherVars == <<minT, onceDone, maxT, numPoints, metrics, walLog, wr, rd, accepted>>

\* The flush reaches a series the map holds; snap is the bag it holds then.
FlushSeries(f) ==
  /\ fs[f].pc = "idle"
  /\ \E m \in Metrics :
       LET o == metrics[m] IN
       /\ o # NoObj
       /\ fs' = [fs EXCEPT ![f] = [pc |-> "sort", obj |-> o, oi |-> 1, pi |-> 1, out |-> <<>>,
                                   snap |-> ToBag(objs[o].points \o objs[o].ooo)]]
  /\ UNCHANGED <<objs, FlusherVars>>

\* sort.Slice(m.outOfOrderPoints, ...) on the shared slice.
SortOutOfOrder(f) ==
  /\ fs[f].pc = "sort"
  /\ objs' = [objs EXCEPT ![fs[f].obj].ooo = SortSeq(@, <)]
  /\ fs' = [fs EXCEPT ![f].pc = "both"]
  /\ UNCHANGED FlusherVars

EmitOoo(f) == [fs[f] EXCEPT !.out = Append(@, objs[fs[f].obj].ooo[fs[f].oi]), !.oi = @ + 1]
EmitPoint(f) == [fs[f] EXCEPT !.out = Append(@, objs[fs[f].obj].points[fs[f].pi]), !.pi = @ + 1]
MoreOoo(f) == fs[f].oi <= Len(objs[fs[f].obj].ooo)
MorePoints(f) == fs[f].pi <= Len(objs[fs[f].obj].points)

\* for oi < len(ooo) && pi < len(points): emit the smaller, points on a tie.
EncodeMergeBoth(f) ==
  LET o == objs[fs[f].obj] IN
  /\ fs[f].pc = "both"
  /\ fs' = [fs EXCEPT ![f] =
              IF ~(MoreOoo(f) /\ MorePoints(f)) THEN [fs[f] EXCEPT !.pc = "ooo"]
              ELSE IF o.ooo[fs[f].oi] < o.points[fs[f].pi] THEN EmitOoo(f)
              ELSE EmitPoint(f)]
  /\ UNCHANGED <<objs, FlusherVars>>

\* Mutant: the loop over the remaining out-of-order points is left out.
EncodeRestOooSkipped(f) ==
  /\ fs[f].pc = "ooo"
  /\ fs' = [fs EXCEPT ![f].pc = "points"]
  /\ UNCHANGED <<objs, FlusherVars>>

\* for oi < len(ooo): emit the remaining out-of-order points.
EncodeRestOoo(f) ==
  /\ fs[f].pc = "ooo"
  /\ fs' = [fs EXCEPT ![f] = IF MoreOoo(f) THEN EmitOoo(f) ELSE [fs[f] EXCEPT !.pc = "points"]]
  /\ UNCHANGED <<objs, FlusherVars>>

\* for pi < len(points): emit the remaining in-order points, then return.
EncodeRestPoints(f) ==
  /\ fs[f].pc = "points"
  /\ fs' = [fs EXCEPT ![f] = IF MorePoints(f) THEN EmitPoint(f) ELSE [fs[f] EXCEPT !.pc = "done"]]
  /\ UNCHANGED <<objs, FlusherVars>>

(***************************************************************************)
(* Specification                                                           *)
(***************************************************************************)
Init ==
  /\ minT = 0 /\ onceDone = FALSE /\ maxT = 0 /\ numPoints = 0
  /\ metrics = [m \in Metrics |-> NoObj]
  /\ objs = <<>>
  /\ walLog = <<>>
  /\ wr = [p \in Writers |-> [pc |-> "idle", calls |-> 0, rows |-> <<>>, idx |-> 1,
                              max |-> 0, num |-> 0, outdated |-> <<>>, obj |-> NoObj,
                              pt |-> 0]]
  /\ rd = [r \in Readers |-> [pc |-> "idle", calls |-> 0, start |-> 0, end |-> 0,
                              obj |-> NoObj, size |-> 0, min |-> 0, max |-> 0,
                              result |-> <<>>]]
  /\ fs = [f \in Flushers |-> [pc |-> "idle", obj |-> NoObj, oi |-> 1, pi |-> 1,
                               out |-> <<>>, snap |-> EmptyBag]]
  /\ accepted = [m \in Metrics |-> EmptyBag]

WriterStep(p) ==
  \/ InsertRows(p) \/ WalAppend(p) \/ SetMinOnce(p) \/ InsertRow(p)
  \/ StoreMetric(p) \/ LoadSize(p) \/ FastPathRead(p) \/ FastPathAppend(p)
  \/ SlowPath(p) \/ AddNumPoints(p) \/ LoadMaxT(p) \/ SwapMaxT(p)

ReaderStep(r) ==
  \/ SelectDataPoints(r) \/ ReaderStoreMetric(r) \/ LoadBounds(r)
  \/ SelectPointsLocked(r)

\* Every goroutine has made its last call and returned.
FlusherStep(f) ==
  \/ FlushSeries(f) \/ SortOutOfOrder(f) \/ EncodeMergeBoth(f) \/ EncodeRestOoo(f)
  \/ EncodeRestPoints(f)

\* Every goroutine has made its last call and returned; a flush that found
\* no series has nothing to encode.
Finished ==
  /\ \A p \in Writers : wr[p].pc = "idle" /\ wr[p].calls = MaxCalls
  /\ \A r \in Readers : rd[r].pc = "idle" /\ rd[r].calls = MaxSelects
  /\ \A f \in Flushers : fs[f].pc \in {"idle", "done"}

Next ==
  \/ \E p \in Writers : WriterStep(p)
  \/ \E r \in Readers : ReaderStep(r)
  \/ \E f \in Flushers : FlusherStep(f)
  \/ Finished /\ UNCHANGED vars

Spec == Init /\ [][Next]_vars

\* All goroutines have returned and none may start another call.
Quiescent ==
  /\ \A p \in Writers : wr[p].pc = "idle"
  /\ \A r \in Readers : rd[r].pc = "idle"

(***************************************************************************)
(* Properties                                                              *)
(***************************************************************************)
\* The memoryMetric a key currently resolves to, through the sync.Map.
Live(m) == objs[metrics[m]]

\* Every point a key's live memoryMetric holds, in order and out of order.
StoredBag(m) ==
  IF metrics[m] = NoObj THEN EmptyBag ELSE ToBag(Live(m).points \o Live(m).ooo)

StoredPoints ==
  {t \in StoredTs : \E m \in Metrics : metrics[m] # NoObj /\ BagIn(t, StoredBag(m))}

WriterState ==
  [pc : {"idle", "wal", "once", "row", "store", "size", "rlock", "lock", "slow",
         "add", "loadmax", "swapmax"},
   calls : 0..MaxCalls, rows : Seq(Row), idx : Nat,
   max : Timestamps \cup {Now}, num : Nat, outdated : Seq(Row),
   obj : Nat, pt : Timestamps \cup {Now}]

ReaderState ==
  [pc : {"idle", "store", "size", "min", "max", "search"}, calls : 0..MaxSelects,
   start : Nat, end : Nat, obj : Nat, size : Nat, min : Nat, max : Nat,
   result : Seq(StoredTs)]

\* Type invariant.  A stored point never carries the unstamped timestamp 0:
\* insertRows replaces it by now before insertPoint.
TypeOK ==
  /\ minT \in Timestamps /\ onceDone \in BOOLEAN
  /\ maxT \in Timestamps \cup {Now} /\ numPoints \in Nat
  /\ metrics \in [Metrics -> 0..Len(objs)]
  /\ \A i \in DOMAIN objs :
       /\ objs[i].name \in Metrics
       /\ objs[i].points \in Seq(StoredTs) /\ objs[i].ooo \in Seq(StoredTs)
  /\ wr \in [Writers -> WriterState]
  /\ rd \in [Readers -> ReaderState]
  /\ \A f \in Flushers :
       /\ fs[f].pc \in {"idle", "sort", "both", "ooo", "points", "done"}
       /\ fs[f].out \in Seq(StoredTs) /\ fs[f].obj \in 0..Len(objs)

\* memoryMetric.points stays strictly increasing under concurrent insertPoint:
\* the optimistic RLock read in the fast path can be stale by the time the
\* write lock is taken, and only the re-check under Lock keeps order.
PointsSorted ==
  \A i \in DOMAIN objs :
    \A j \in 1..Len(objs[i].points) - 1 : objs[i].points[j] < objs[i].points[j + 1]

\* selectPoints, racing with inserts, returns exactly the in-order points of
\* the size it loaded that lie in [start, end): its lock-free loads of size,
\* minTimestamp and maxTimestamp and its binary searches agree.
SelectExact ==
  \A r \in Readers :
    rd[r].pc = "idle" /\ rd[r].calls > 0 =>
      rd[r].result = SelectSeq(SubSeq(objs[rd[r].obj].points, 1, rd[r].size),
                               LAMBDA t : rd[r].start <= t /\ t < rd[r].end)

\* encodeAllPoints emits every in-order and out-of-order point of a metric,
\* sorted by timestamp: the two-pointer merge equals sorting the union.
EncodeAllPointsSorted ==
  \A i \in DOMAIN objs :
    EncodeAllPoints(objs[i]) = SortSeq(objs[i].points \o objs[i].ooo, <)

\* Every row insertRows handed to insertPoint is still held by the
\* memoryMetric its key resolves to (spec section 9: series creation must be
\* load-or-insert, or racing inserts drop samples).
NoLostPoint ==
  \A m \in Metrics : accepted[m] \sqsubseteq StoredBag(m)

\* Once every call has returned, [minT, maxT] covers every stored point and
\* numPoints counts them.
PartitionBoundsCover ==
  Quiescent =>
    /\ \A t \in StoredPoints : minT <= t /\ t <= maxT
    /\ numPoints = MapThenSumSet(LAMBDA m : BagCardinality(StoredBag(m)), Metrics)

\* Spec section 8, invariant 2: numPoints is the sum of the series' sizes.
NumPointsIsSumOfSizes ==
  Quiescent =>
    numPoints = MapThenSumSet(LAMBDA m : IF metrics[m] = NoObj THEN 0 ELSE Live(m).size,
                              Metrics)

\* encodeAllPoints, racing with late insertPoint calls on the series it
\* encodes (its sort and merge take no lock), emits every point the series
\* held when the flush reached it, and emits each point at most as often as
\* the series holds it.
FlushEncodesSnapshot ==
  \A f \in Flushers :
    fs[f].pc = "done" =>
      LET o == objs[fs[f].obj] IN
      /\ fs[f].snap \sqsubseteq ToBag(fs[f].out)
      /\ ToBag(fs[f].out) \sqsubseteq ToBag(o.points \o o.ooo)

\* The comment on encodeAllPoints (memory_partition.go:276): it encodes
\* all the points of a series in order by timestamp.
FlushOutputSorted ==
  \A f \in Flushers : \A i \in 1..Len(fs[f].out) - 1 : fs[f].out[i] <= fs[f].out[i + 1]

\* Spec section 3: maxT never decreases.
MaxTNonDecreasing == [][maxT' >= maxT]_maxT

\* Spec section 3: a row with timestamp 0 is stamped with now, never refused
\* as outdated.
ZeroTimestampStamped ==
  \A p \in Writers : \A i \in DOMAIN wr[p].outdated : wr[p].outdated[i].ts # 0
=============================================================================
