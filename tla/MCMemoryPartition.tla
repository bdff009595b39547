------------------------- MODULE MCMemoryPartition -------------------------
(* Model-checking instance of MemoryPartition: small sets of goroutines,   *)
(* metric keys, input batches and query bounds; now is 3, one past the     *)
(* largest explicit timestamp.                                             *)
EXTENDS MemoryPartition

CONSTANTS w1, w2, r1, m1, m2, f1

R(m, t) == [metric |-> m, ts |-> t]

\* Two writers and a reader racing on one metric key.  Batches of one row
\* cover first insertion, in-order and out-of-order points and the zero
\* timestamp; a two-row batch exercises the fast path within one call.
ConcWriters == {w1, w2}
ConcReaders == {r1}
OneMetric   == {m1}
ConcBatches == {<<R(m1, 0)>>, <<R(m1, 1)>>, <<R(m1, 2)>>, <<R(m1, 1), R(m1, 2)>>}
ConcBounds  == {<<1, 3>>, <<2, 4>>}

\* One writer, no reader, two keys, several calls in sequence.
SeqWriters == {w1}
NoReaders  == {}
TwoMetrics == {m1, m2}
SeqBatches == {<<>>, <<R(m1, 0)>>, <<R(m1, 2), R(m2, 1)>>, <<R(m1, 2), R(m1, 1)>>}
NoBounds   == {}

\* No flush, or one flush encoding a series beside the writers.
NoFlushers  == {}
OneFlusher  == {f1}

\* One writer and one reader on one key.
OneWriter == {w1}
=============================================================================
