# TLA+ models of EmbedTSDB

This directory holds TLA+ specifications of the concurrent core of EmbedTSDB, an
embedded time-series database written in Go. It also holds the TLC
configurations that check those specifications. `PROJECT.json` ties each
definition to the source lines it models. It also lists the runs, the mutants,
the findings and the hazards.

## The system

- **Storage façade** (`storage.go`, not in `src/`). It owns a partition list.
  - It routes `InsertRows` to the writable memory partitions at the head of the
    list.
  - It rotates the head when the head's span reaches `partitionDuration`.
  - It flushes full memory partitions to disk and swaps the disk partition in
    for them.
  - It removes expired partitions (retention).
  - It fans out `Select` across the list.
- **Partition list** (`src/unnamed/part_000`) is a singly linked list, newest
  first.
  - Its state is `head`, `tail`, an atomic `numPartitions`, and an atomic
    `headCache`. The list has a `RWMutex`, and each node has its own.
  - Its operations are `insert`, `remove`, `swap`, `getHead`, `size` and
    `newIterator`. Iterators walk `next` pointers with no list lock.
- **Memory partition** (`src/memory_partition.go`). Its state is:
  - the atomics `minT`, `maxT` and `numPoints`;
  - a `sync.Once` for `minT`;
  - a `sync.Map` from metric key to `memoryMetric`.

  Each `memoryMetric` has in-order `points`, `outOfOrderPoints`, and the atomics
  `size`, `minTimestamp` and `maxTimestamp`, under its own `RWMutex`. The
  operations are:
  - `insertRows`: WAL append, then set `minT` once, then per row: outdated
    check, zero-timestamp stamping, `getMetric`, `insertPoint`. After the loop
    it adds to `numPoints` and raises `maxT`.
  - `selectDataPoints`: `getMetric`, then `selectPoints`.
  - `encodeAllPoints`, used by the flush.
- **Disk partition** (`src/unnamed/part_003`) is an immutable mmapped file
  plus its `meta.json`.
  - `selectDataPoints` checks `expired()`, then decodes from the mapping.
  - `clean` unmaps the file, closes it and removes the directory.
- **Label encoding** (`src/label.go`): `marshalMetricName` builds the series
  key.
- **Bit stream** (`src/bstream.go`, lines 1–206): a bit writer and reader used
  by the sample codec (`encoding.go`, not in `src/`).
- **WAL** (`wal.go`, not in `src/`): append before any state change, and
  replay on open.

The parts interact in these ways:
- Writers and readers share one memory partition.
- The flush reads a memory partition (`encodeAllPoints`) while late writers may
  still insert into it. The flush then calls `swap` on the list.
- Retention calls `remove`, which calls `clean()` on the partition.
- Every `Select` and `InsertRows` iterates the list concurrently with these
  mutations.

### What is hard in this code

- **Lock-free check-then-act:**
  - `getMetric` does a `Load` and then a separate `Store`;
  - `maxT` is raised by a `Load` and then a `Swap`;
  - `partitionList.insert` reads the head under `RLock` and writes it under a
    later `Lock`.
- **Optimistic locking.** `insertPoint` reads the last timestamp under `RLock`
  and appends under `Lock` after a re-check. `selectPoints` loads three atomics
  one at a time before it takes the `RLock`.
- **Reclamation.** `remove` cleans a partition that an iterator may still be
  standing on. Disk `selectDataPoints` checks `expired()` and then reads a
  mapping that `clean()` may already have unmapped.
- **Identity by `minTimestamp`.** `samePartitions` can alias two partitions.
- **Encoding edges.** These include uint16 lengths, an unstable sort of labels,
  and bit-level buffer refills at the end of a stream.

`PROJECT.json` lists each hazard at the line where it bites, with the
properties that would catch it.

## Modules

| Module | Models | Kind |
|---|---|---|
| `MemoryPartition` | `memoryPartition` and `memoryMetric` | detailed, concurrent |
| `MCMemoryPartition` | constants for TLC | MC |
| `PartitionSeq` | what the `partitionList` interface promises | abstract |
| `PartitionList` | `partitionListImpl`, nodes, iterator | detailed, concurrent; refines `PartitionSeq` |
| `MCPartitionList` | constants for TLC | MC |
| `PartitionListTests` | the table tests `Test_partitionList_Remove` / `_Swap` | test cases as initial states of `PartitionList` |
| `DiskPartition` | `diskPartition`, `openDiskPartition`, the mmap wrappers | detailed, concurrent, with failing system calls |
| `MCDiskPartition` | constants for TLC | MC |
| `Bstream` | `bstream` and `bstreamReader` | bit-level, writer beside reader |
| `MCBstream` | constants for TLC | MC |
| `LabelEncoding` | `marshalMetricName` | operator plus a history of calls |
| `MCLabelEncoding` | input sets for TLC | MC |
| `Storage` | the storage façade and WAL (spec §4.6, §4.7) around `memoryPartition.insertRows` and `diskPartition.expired` | spec-modelled composition, with crashes, failing I/O and fairness |
| `MCStorage` | constants for TLC | MC |

### MemoryPartition

There are two kinds of goroutines: `Writers` call `insertRows` and `Readers`
call `selectDataPoints`. A goroutine's program counter and locals live in
`wr[p]` / `rd[r]`.

The step boundaries follow the code's synchronisation:
- Each section under a lock is one step:
  - the `RLock` read of the last timestamp (`FastPathRead`);
  - the `Lock`ed re-check and append (`FastPathAppend`);
  - the slow path (`SlowPath`);
  - the `RLock`ed binary searches (`SelectPointsLocked`).
- Each atomic or `sync.Map` call between those sections is a step of its own:
  `LoadSize`, `StoreMetric`, `AddNumPoints`, `LoadMaxT`, `SwapMaxT`, and the
  three loads of `LoadBounds`.
- `getMetric`'s `Load` happens inside `InsertRow` / `SelectDataPoints`. On a
  miss, the new `memoryMetric` is allocated at a fresh address in `objs`, and
  the `Store` is a separate step.

The data is abstracted:
- A metric key is a model value.
- A data point is its timestamp.
- `toUnix(time.Now())` is the constant `Now`, which is larger than every input
  timestamp.

`accepted` is history only: the timestamps handed to `insertPoint` for each
key. The pure parts are operators:
- `SlowInsert`;
- `SelectPoints` and its `sort.Search` (`SearchGE`);
- the recursive two-pointer merge `MergeByTimestamp` of `encodeAllPoints`. It is
  checked against its reference, `SortSeq` of the union.

`Flushers` are the flush's calls of `encodeAllPoints` on a series of this
partition (`fs[f]`), which take no lock while late writers may still insert
into the series. `FlushSeries` picks a series the map holds and records the
bag it holds then (`snap`, history). `SortOutOfOrder` is the in-place
`sort.Slice` on the shared slice, one step: an append under the series lock
writes past the length the sort works on, inside the slice's preallocated
capacity of 100. Each iteration of the three merge loops is one step that
re-reads both lengths (`EncodeMergeBoth`, `EncodeRestOoo`,
`EncodeRestPoints`). The encoder's own error return is not modelled; in
`Storage` a failed flush step is retried.

### PartitionList and PartitionSeq

Nodes are addresses into `nodes`, and `Nil` is 0. A partition is a model value
whose `minTimestamp` is `MinTs[p]`. `insert` takes these steps: read head, set
head, count. `remove` and `swap` take these steps:
1. the size check;
2. the iterator's head snapshot;
3. one step per `next()` (`ScanStep`, which calls `samePartitions`);
4. the second `next()` (`ReadFollowing`);
5. the relink `switch` (`RemoveLink` / `SwapLink`);
6. for `remove` only, the count and then `clean()`.

Readers either iterate, using each partition they reach (`UsePartition`), or
call `getHead`. Its `size()` check (`GetHead`), the atomic load of `headCache`
(`GetHeadLoad`) and the slow path under `RLock` (`GetHeadSlow`) are three
steps, so an `insert` that has set the head but not yet counted it can fall
between them.

`PartitionSeq` is the list the interface promises: a sequence of partitions.
Each caller has at most one call in flight, and that call takes effect in one
step. The refinement mapping has two parts:
- `parts` is the chain reached from `head`;
- a mutator's call has taken effect once its node is linked (pcs `count`,
  `rm_count`, `rm_clean`).

`Refines == AbsList!Spec` is checked as a `PROPERTY`.

### PartitionListTests

The Go table tests at the end of `src/bstream.go` build a `partitionListImpl`
literal and call `remove` or `swap` once. Each of the ten cases is an initial
state of `PartitionList`: the test's list as linked nodes, the call entered
with the mutator at its size check, and a reader free to iterate beside it.
`PassesTests` is the test's assertions: once the call returns, the error, the
chain from `head`, `numPartitions` and `tail`'s partition are what the case
wants. A fake partition is a model value with the test's `minTimestamp`.

### DiskPartition

`openDiskPartition` is one step per system call, in the code's order:
`CheckDir` (empty path, `os.Stat` of `meta.json`), `OpenData`, `StatData`
(including the empty-file return), the mapping, `OpenMeta` and `DecodeMeta`
(whose deferred `mf.Close()` runs on both returns). The mapping is `MmapUnix`
on unix and, on windows, `CreateFileMapping`, `MapViewOfFile` and
`CloseHandle` with their early returns (`mmap_windows.go`). Each call can fail
when it is in the constant `Fallible`; each error return releases exactly what
the code releases. `held` is the set of OS resources the process holds: the
data file's fd, the windows mapping handle, the view and `meta.json`'s fd.

Once open, `Expire` is the clock passing `retention`. A reader's
`selectDataPoints` is `CheckExpired` (the `expired()` check and the meta
lookup), `LoadMapping` (`bytes.NewReader(d.mappedFile)`, an unsynchronised
read of the field) and `DecodePoints`, which faults if the bytes it loaded
are an unmapped view. Readers hold the partition from a list iteration, so
they may start at any time. Retention's `remove` calls `clean()`: `Munmap`
(with `SysMunmap`, the wrapper's `munmap`/`UnmapViewOfFile`), `ClearMapping`,
`CloseFile` and `RemoveAll`, each error returning at once. Decoding itself is
abstracted to whether it reads a live mapping.

### Bstream

A `uint64` is a sequence of 64 bits and a byte is a sequence of 8 bits; TLC
integers stop at 2^31. Go's shift rules (a shift by the width or more gives 0)
and `uint8` wrap-around (`U8`) are kept. `writeBit`, `writeByte` and
`writeBits` (the drain loops `DrainBytes`/`DrainBits`) are operators on the
writer record; `readBit`, `readBits` (fast path and the cross-boundary path
`CrossHigh`), `ReadByte` and `loadNextBuffer` are operators on the reader
record. The writer makes up to `MaxWrites` calls. At any point a reader may be
opened on `bytes()`, which shares the writer's array (`Aliased`): later writes
into the last byte show through to the reader. The reader either decodes the
written pairs back with their own widths (`Decode`) or scans with arbitrary
widths from `ScanWidths` (`Scan`).

### LabelEncoding

A string is a sequence of byte values and a label is `[Name, Value]`.
`marshalMetricName` is an operator returning the set of keys a call can give:
the bare metric for no labels, otherwise the labels sorted by name (Go's
`sort.Slice` on at most 12 elements is an insertion sort, so equal names keep
their order), invalid labels dropped, names and values truncated, and each
field prefixed by its length as a big-endian `uint16` (`len % 65536`). A
call also leaves the caller's slice sorted, with each valid label truncated
(`WrittenBack`). The state is the history of calls, their keys and the slice
each left behind; a later call may pass a fresh input or a slice an earlier
call left behind, so identity is stated over pairs of calls, reuse
included.

### Storage

`storage.go` and `wal.go` are not under `src/`, so the façade is modelled
from spec §4.6–4.7. The pieces it calls that are under `src/` are
translated from the code: `Active` is `memoryPartition.active`,
`Outdated`/`InsertInto` are one row of `insertRows` (WAL append first, then
`minT` once, the outdated check, the `maxT` raise), `Expired` is
`diskPartition.expired` (strict `>`) and `Reloaded` is `openDiskPartition`
(range and `createdAt` from `meta.json`). A partition is abstract: a bag of
points, `minT`, `maxT`, its `createdAt` and the WAL segments its rows live
in. A point carries its timestamp and, as history, the time its
`InsertRows` returned nil.

- `list`, `part`, `dirs`, `wal` are the partition list, the partitions, the
  directories on disk (none, data written, meta written) and the live WAL
  segments. Partitions and segments hold bags, so that a row logged or
  stored twice is seen twice.
- `InsertRows` (one row, one step) tries the writable memory partitions in
  order, appending to the WAL before each outdated check, stores the row in
  the first that accepts it and rotates the head when it is no longer
  active. A failing append (any of the partitions tried) returns at once.
- The flush goroutine is a small program counter: `FlushPick` (a memory
  partition past the writable ones), `FlushData`, `FlushMeta` (each may fail
  and is retried on a later cycle, a failed data write may leave a partial
  directory), `FlushSwap`, `FlushRemoveSegments`.
- `RemoveExpired` removes an expired disk partition between flushes; its
  `clean()` may fail and leave the directory.
- `CrashAndReopen` loses memory and an unfinished flush; open loads every
  directory with a `meta.json` newest first, skips the others, puts a new
  head with a new segment in front and replays every live segment into it
  with one `insertRows`, which logs the replayed rows in the new segment.

## Runs

`PROJECT.json` lists the twelve runs below. Deadlock is checked in every run:
when every goroutine has made its last call, `Finished` allows stuttering.

| Run | Expect | Setup | What it shows |
|---|---|---|---|
| `mp_concurrent` | pass | 2 writers, 1 reader, 1 metric; batches ⟨0⟩, ⟨1⟩, ⟨2⟩, ⟨1,2⟩; 1 call each; 2 query ranges (1.5M states) | Under every interleaving, `points` stays strictly sorted (`PointsSorted`), a select returns exactly the in-range prefix it loaded (`SelectExact`), and the flush merge is sorted and complete (`EncodeAllPointsSorted`). |
| `mp_sequential` | pass | 1 writer, 3 calls, 2 metrics, batches include empty, a 0 timestamp and out-of-order pairs; 1 flush encoding a series beside the writer (37k states) | With no race between writers, no accepted point is lost (`NoLostPoint`), and at rest `[minT,maxT]` covers every point and `numPoints` counts them (`PartitionBoundsCover`). The lock-free `encodeAllPoints`, racing with the writer's late inserts, emits every point the series held when the flush reached it and no point more often than the series holds it (`FlushEncodesSnapshot`). |
| `mp_lost_point` | violation | as concurrent | The `getMetric` Load/Store race drops a series with its points. |
| `pl_single_writer` | pass | 1 mutator (4 calls), 1 reader (2 walks), 4 partitions with distinct `minTimestamp` (823k states) | The list implements `PartitionSeq` (`Refines`) and stays acyclic with `numPartitions` equal to its length (`WellFormed`). An iteration sees every partition present at its start and still present at its end (`IteratorSeesStable`). The head cache is nil or the head (`HeadCacheFresh`). |
| `pl_tests` | pass | the ten table cases, 1 reader iterating beside the call | The model passes every case of the Go table tests (`PassesTests`). |
| `dp_lifecycle` | pass | unix and windows, every directory shape, all 11 system calls fallible, 2 readers | A `clean()` that returns nil leaves nothing held (`CleanReleasesAll`), so `open` hands every resource it keeps to the partition, the windows mapping handle included. It says nothing of a `clean()` that fails part-way: `remove` has already unlinked the node and never calls it again, so what is left is leaked. |
| `dp_use_after_unmap` | violation | unix, no failures, 1 reader | A reader passes `expired()`, retention's `clean()` unmaps, and the reader decodes unmapped memory. |
| `bs_roundtrip` | pass | up to 4 writes of widths 64, 8, 13, 3 or single bits; reader opened at any point; scans of widths 3, 8, 16, 64 (998k states) | What is written reads back with the same widths (`RoundTrip`). Any scan returns the stream's bits up to what was committed when the reader opened, although the writer keeps OR-ing into the shared last byte (`ReadsMatchStream`). |
| `bs_read_past_end` | violation | as roundtrip | `readBits` succeeds with bits beyond the end of the stream (`NoReadPastEnd`). |
| `label_identity` | pass | 2 calls; metrics ⟨1⟩ and ⟨1,2⟩; up to 2 labels over names {⟨1⟩, ⟨2⟩, ⟨⟩} and values {⟨1⟩, ⟨⟩}, distinct valid names | Two calls give the same key exactly when they name the same metric and label set, in any order, with invalid labels present, and when a caller reuses the slice a previous call sorted in place (`SeriesIdentity`). |
| `st_segment_loss` | violation | 7 inserts, 1 crash, no I/O failure, clock fixed | A row acknowledged by `InsertRows` is lost after a crash (`Durable`): see Findings. |
| `st_durable` | pass | one inserter, 4 single-row inserts over timestamps 1–3, span 2, 2 writable partitions, 2 crashes, every I/O step fallible once, clock to 3 (193k states, 60 s) | Every row a flush made durable (its directory has `meta.json`) stays in a partition of the list until it may have expired, through the swap, crashes with reload and retention with failing `clean()` (`FlushedRowsKept`; it also holds with 7 inserts and 3.9M states). Under weak fairness of the background goroutine every partition past the writable ones is flushed (`FlushEventually`) and every expired one removed, reloaded ones included (`RetentionEventually`). |

### Further disagreements

These cfgs are kept beside the runs and each shows a property violated. They
are out of `PROJECT.json`'s run list only because it keeps twelve runs, one per
question, and they repeat a question another run asks.

| cfg | Property | What TLC finds |
|---|---|---|
| `MCMemoryPartition_select_loses_point.cfg` | `NoLostPoint` | A select `Store`s an empty series over a writer's new one (`memory_partition.go:131`). |
| `MCMemoryPartition_zero_ts.cfg` | `ZeroTimestampStamped` | The outdated check runs before a 0 timestamp is stamped, so the row is returned as outdated (§3 says it is stamped with now). |
| `MCMemoryPartition_flush_unsorted.cfg` | `FlushOutputSorted` | A late out-of-order point is appended to the sorted `outOfOrderPoints` behind the merge position and `encodeAllPoints` emits it after a larger one, against the comment at `memory_partition.go:276` (in order by timestamp). |
| `MCMemoryPartition_numpoints.cfg` | `NumPointsIsSumOfSizes` | `numPoints` ≠ Σ `size` once a point is out of order (§8.2). |
| `MCPartitionList_same_min.cfg` | `Refines` | With two partitions of one `minTimestamp`, `remove(b)` removes `a` (§9 notes it). |
| `MCPartitionList_tail.cfg` | `TailIsLastOrNil` | `tail` names a removed node after a head removal (§4.5). |
| `MCPartitionList_concurrent_insert.cfg` | `Refines` | Two inserts link to one old head and one partition is lost (§4.5 says insert is serialised). |
| `MCPartitionList_clean_iterating.cfg` | `NoUseOfCleaned` | An iterator uses a partition after `remove` called `clean()` (§5); `dp_use_after_unmap` shows what that does to a disk partition. |
| `MCLabelEncoding_empty_vs_invalid.cfg` | `SeriesIdentity` | No labels gives the bare metric, only-invalid labels the prefixed form: one series, two keys. |
| `MCLabelEncoding_duplicate_names.cfg` | `SeriesIdentity` | Two labels with one name in the two orders give two keys. |
| `MCLabelEncoding_bare_collision.cfg` | `SeriesIdentity` | A bare metric name equals another series' length-prefixed key (`label.go:39`), so two series share one `memoryMetric`. |
| `MCMemoryPartition_maxt_regress.cfg` | `MaxTNonDecreasing` | `maxT`'s `Load` then `Swap` (`memory_partition.go:103`) lets a writer with a smaller maximum overwrite a larger one, so `maxT` decreases (§3 says it is monotone). The next insert above it raises it again. |
| `MCStorage_phantom.cfg` | `NoPhantomRows` | `insertRows` appends to the WAL before its outdated check (`memory_partition.go:61`), once per partition tried. A row older than every writable partition is dropped but logged, and after a crash the replay stores it in the new head (spec S5 and §4.7 say it is dropped). A row stored at the second writable partition is logged twice and replayed twice (S6 says a replayed row comes back once). Replay re-inserts through `insertRows`, which logs the rows again in the new segment while the old segments stay until the head is flushed, so a second crash before that flush replays them twice. |
| `MCStorage_head_newest.cfg` | `HeadNewest` | After a rotation the next row may be older than the previous head's `minT`, and the routing stores it in the empty new head, which then sets `minT` to the old timestamp (§8.4 says the head is the newest). |
| `MCDiskPartition_leak_on_open_error.cfg` | `NoLeakOnOpenError` | A `meta.json` open or decode error after `mmap` returns with the fd and view held (`part_003:92`); on windows a `MapViewOfFile` error leaks the mapping handle and a `CloseHandle` error leaks handle and view (`mmap_windows.go:18, 22`). |

### Why the bounds are enough

- **`mp_concurrent`.** Two writers racing on one metric is the smallest
  configuration in which the fast path's stale read, the Load/Store race and
  the maxT race (kept as `MCMemoryPartition_maxt_regress.cfg`) all occur. The batch ⟨1,2⟩ against ⟨1⟩ gives an out-of-order
  point. One reader with two ranges exercises both `end > max` and the binary
  search.
- **`mp_sequential`.** Three calls reach each of these: the `once` path, the
  outdated path, the first-insert branch of the slow path, the in-order branch
  of the slow path, and the out-of-order branch of the slow path. The batch
  ⟨2 for m1, 1 for m2⟩ twice gives a tie between an in-order and an
  out-of-order point, so every merge loop, the remaining-out-of-order one
  included, emits; the flush can start before, between and after any call.
- **`pl_single_writer`.** Four calls of insert, remove or swap over four
  partitions reach head, middle and tail removals and swaps, with a reader
  iterating beside them. It has 823k distinct states.
- **`pl_tests`.** The cases are the tests' own; the reader beside the call
  checks that no outcome depends on an iteration running concurrently.
- **`dp_lifecycle`.** Every system call failing or not, on both builds, over
  all eight directory shapes, reaches every error return of open and clean.
  Two readers are enough for one to be before and one after the unmap.
- **`bs_roundtrip`.** The widths cover a whole word (the `nbits == 64` shift
  edge), a whole byte, a byte-spanning width and a short one. Four writes
  reach 88 bits, more than one 64-bit buffer, so `loadNextBuffer`'s fast
  and slow paths and the cross-boundary read all happen. The alternating
  word makes every misplaced bit visible.
- **`label_identity`.** Two labels over three names (one empty) and two
  values (one empty) give every mix of valid and invalid labels in both
  orders; the second metric is a prefix-extension of the first, which is what
  the length prefix has to separate.
- **`st_durable`.** Span 2 over timestamps 1–3 makes the second distinct
  timestamp rotate the head, so with two writable partitions the fourth
  insert pushes a partition past them and the flush runs; an older row hits
  both the second writable partition and the all-outdated drop. The clock to
  3 with retention 1 lets a flushed partition expire, before or after the
  crash. One failure per I/O kind reaches each retry path and a partial
  directory before the crash. Two crashes reach a crash after a replay,
  while the replayed rows are logged in both the old and the new segments.
  These bounds allow only two rotations, so at most one memory partition
  waits past the writable ones: `Durable` holds here and fails at seven
  inserts (`st_segment_loss`), which is why this run checks
  `FlushedRowsKept`; that property was also checked at seven inserts.
- **`st_segment_loss`.** Seven inserts give the two rotations after the row
  routed to the second writable partition; one crash and no failures keep
  the trace to 14 steps.
- **Mutants.** Each property of a passing run has a mutant: a plausible bug in a
  mapped definition. Each mutant is listed in `PROJECT.json`, and TLC finds the
  property violated with it in place.

### Fairness

The components under `src/` are calls that return, and their runs check
safety only. `Storage` is checked under `FairSpec`: weak fairness of `Flush`
and of `RemoveExpired`, the two halves of the façade's background goroutine,
which runs on a ticker for the life of the storage (§4.7), so a step of it
that stays enabled is taken. Nothing is assumed of inserts, the clock or
crashes: they are the environment. A failing flush step is a retry, not
progress; the failures are bounded (`MaxFailures`), which stands for the
assumption that a disk error does not recur for ever.

## Findings

`PROJECT.json` gives each finding of a violation run with its source line:
- `getMetric`'s Load then Store loses a series (§9 asks for load-or-insert);
- `selectDataPoints` on a disk partition reads a mapping that `clean()` may
  already have unmapped: `remove` cleans with no grace period (§5, §8);
- `readBits` returns bits past the end of the stream with a nil error when the
  slow refill is short (`bstream.go:139`; the comment at 169 and §4.1 say
  a refill that cannot supply `nbits` is end-of-stream);
- a row acknowledged by `InsertRows` is lost after a crash. Every writable
  partition logs into the WAL's current segment, which is the head's
  (`memory_partition.go:61`). A row routed to the second writable partition
  is therefore logged in the newer head's segment. Once both are past the
  writable ones, the flush may take the newer one first and remove its
  segment while the older one still holds the row only in memory. A crash
  then loses it. §4.6 says a segment goes only once "the corresponding
  partition" is on disk, and S6 says replay restores every acknowledged row;
  with rows of several partitions in one segment there is no single
  corresponding partition. It takes two rotations after the routed row, so
  seven inserts;

The table above lists the further disagreements the kept cfgs show.

## Plan: what comes next

1. Concurrent inserters in `Storage`: two `InsertRows` reading the
   writable partitions before a rotation by the other. `MemoryPartition`
   already shows what a late insert does to a series the flush is encoding.
2. An abstract specification of `Storage` (a set of accepted rows with
   retention) and a refinement mapping from `Storage`.
3. `Select` fan-out across the list with an iterator beside flush and
   retention.

## Not modelled

- In `Storage`: `Select`, `Close`, the worker semaphore and its timeout,
  the buffered WAL mode and its explicit flush, garbled WAL tails, and more
  than one inserter (kept out to keep the state space in reach; see Plan).
  Partition contents are bags of points, not the encoded file.

- Whether `getHead`'s nil result is linearizable. The steps are modelled,
  but the property needs the list's emptiness tracked across every mutator
  step. The caller that would act on a wrong nil, the storage façade, is not
  under `src/`.
- A WAL replay that fails part-way: `Storage` replays in one step, and the
  facade's handling of a replay error is not under `src/`.
- The sample codec's bit layout beyond what `bstream` fixes: the spec does
  not give it, and its encoder is not under `src/`.
- `String()` formatting and logging.
- Object pools. They are a reuse optimisation; the copy `selectDataPoints`
  makes before returning is what the models return.
- `bstream.reset()`: nothing under `src/` calls it.
- Callers sharing one labels slice concurrently: `marshalMetricName`
  sorts it in place, so this is a data race, and its outcomes depend on how
  `sort.Slice`'s swaps tear. Such callers come through the storage façade,
  which is not under `src/`.
- Lengths past 65535 bytes: `Field` wraps the prefix as the code does, but
  a collision needs a 65536-byte metric, beyond what TLC can enumerate.
- The point decoder of a disk partition (`encoding.go`, not in `src/`):
  `DecodePoints` only asks whether it reads a live mapping.
- A minor divergence left as a note: §4.1 says the slow refill reads at most
  ⌈nbits/8⌉ bytes, while `loadNextBuffer` reads `nbits/8 + 1`; no property
  distinguishes them, as both are capped by the bytes left.
- Go tests other than the partition-list tables, and the repository README.
  They were read as statements of intended behaviour only.
