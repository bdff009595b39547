----------------------------- MODULE PartitionSeq -----------------------------
(***************************************************************************)
(* What the partition list promises (the partitionList interface of        *)
(* src/unnamed/part_000): an ordered sequence of partitions, newest first. *)
(* insert puts a partition in front; remove takes the given partition out; *)
(* swap puts a new partition where the given one was.  A remove or swap    *)
(* whose target is not in the list returns an error and changes nothing.   *)
(*                                                                         *)
(* Each caller has at most one call in flight: it is invoked, takes effect *)
(* in one step (possibly the step that returns), and returns.             *)
(***************************************************************************)
EXTENDS Sequences

CONSTANTS Partitions, Callers

VARIABLES
  parts,  \* the partitions, head first
  calls   \* calls[c]: the call c has in flight, or NoCall

NoCall == [kind |-> "none"]

Calls == [kind : {"insert", "remove", "swap"}, arg : Partitions, new : Partitions,
          done : {FALSE}]

InList(p) == \E i \in DOMAIN parts : parts[i] = p

\* The change a call makes to the list when it succeeds.
Effect(op) ==
  CASE op.kind = "insert" -> parts' = <<op.arg>> \o parts
    [] op.kind = "remove" -> parts' = SelectSeq(parts, LAMBDA x : x # op.arg)
    [] op.kind = "swap"   ->
         parts' = [i \in DOMAIN parts |-> IF parts[i] = op.arg THEN op.new ELSE parts[i]]

\* Only a remove or swap of a partition not in the list may fail.
MaySucceed(op) == op.kind = "insert" \/ InList(op.arg)

Init == parts = <<>> /\ calls = [c \in Callers |-> NoCall]

Invoke(c) ==
  /\ calls[c] = NoCall
  /\ \E op \in Calls : calls' = [calls EXCEPT ![c] = op]
  /\ UNCHANGED parts

TakeEffect(c) ==
  /\ calls[c] # NoCall /\ ~calls[c].done
  /\ MaySucceed(calls[c])
  /\ Effect(calls[c])
  /\ \/ calls' = [calls EXCEPT ![c].done = TRUE]
     \/ calls' = [calls EXCEPT ![c] = NoCall]

Return(c) ==
  /\ calls[c] # NoCall
  /\ calls[c].done \/ ~MaySucceed(calls[c])
  /\ calls' = [calls EXCEPT ![c] = NoCall]
  /\ UNCHANGED parts

Next == \E c \in Callers : Invoke(c) \/ TakeEffect(c) \/ Return(c)

Spec == Init /\ [][Next]_<<parts, calls>>
=============================================================================
