--------------------------- MODULE MCPartitionList ---------------------------
(* Model-checking instance of PartitionList.                              *)
EXTENDS PartitionList

CONSTANTS u1, u2, r1, a, b, c, d

OneMutator  == {u1}
TwoMutators == {u1, u2}
OneReader   == {r1}
NoReaders   == {}
FourParts   == {a, b, c, d}

\* Every partition has its own minimum timestamp.
DistinctMinTs == (a :> 1) @@ (b :> 2) @@ (c :> 3) @@ (d :> 4)

\* a and b started at the same timestamp (see samePartitions).
SharedMinTs == (a :> 1) @@ (b :> 1) @@ (c :> 2) @@ (d :> 3)
=============================================================================
