-------------------------- MODULE PartitionListTests --------------------------
(***************************************************************************)
(* The table tests Test_partitionList_Remove and Test_partitionList_Swap   *)
(* (kept at the end of src/bstream.go) run against the PartitionList       *)
(* model.  Each case starts from the list literal the test builds, with    *)
(* the test's remove or swap call entered, and states the error and the    *)
(* list the test expects once the call returns.  The tests build their     *)
(* fakePartitions from a minT alone, so a partition here is a model value  *)
(* pN with minTimestamp N.  A reader may iterate beside the call: the      *)
(* expected outcome must not depend on it.                                 *)
(***************************************************************************)
EXTENDS PartitionList

CONSTANTS p1, p2, p3, p100

VARIABLE tcase  \* the table entry being run

TestPartitions == {p1, p2, p3, p100}

TestMinTs == (p1 :> 1) @@ (p2 :> 2) @@ (p3 :> 3) @@ (p100 :> 100)

\* A test case: the list from head, the call, and what the test wants.
\* Where the test passes a nil partition that the call never inspects,
\* a partition outside the list stands for it.
Case(name, list, op, arg, new, wantErr, want) ==
  [name |-> name, list |-> list, op |-> op, arg |-> arg, new |-> new,
   wantErr |-> wantErr, want |-> want]

RemoveCases ==
  {Case("empty partition", <<>>, "remove", p100, p100, TRUE, <<>>),
   Case("remove the head node", <<p1, p2>>, "remove", p1, p100, FALSE, <<p2>>),
   Case("remove the tail node", <<p1, p2>>, "remove", p2, p100, FALSE, <<p1>>),
   Case("remove the middle node", <<p1, p2, p3>>, "remove", p2, p100, FALSE, <<p1, p3>>),
   Case("given node not found", <<p1, p2>>, "remove", p3, p100, TRUE, <<p1, p2>>)}

SwapCases ==
  {Case("empty partition", <<>>, "swap", p100, p3, TRUE, <<>>),
   Case("swap the head node", <<p1, p2>>, "swap", p1, p100, FALSE, <<p100, p2>>),
   Case("swap the tail node", <<p1, p2>>, "swap", p2, p100, FALSE, <<p1, p100>>),
   Case("swap the middle node", <<p1, p2, p3>>, "swap", p2, p100, FALSE, <<p1, p100, p3>>),
   Case("given node not found", <<p1, p2>>, "swap", p100, p3, TRUE, <<p1, p2>>)}

\* The partitionListImpl literal of a case: node i links to node i + 1,
\* head is the first node, tail the last, headCache unset; then the call.
TestInit ==
  \E tc \in RemoveCases \cup SwapCases :
    /\ tcase = tc
    /\ nodes = [i \in DOMAIN tc.list |->
                  NewNode(tc.list[i], IF i < Len(tc.list) THEN i + 1 ELSE Nil)]
    /\ head = IF tc.list = <<>> THEN Nil ELSE 1
    /\ tail = Len(tc.list)
    /\ numPartitions = Len(tc.list) /\ headCache = Nil
    /\ cleaned = {} /\ used = ToSet(tc.list) \cup {tc.new}
    /\ mu = [u \in Mutators |->
               [pc |-> "size", ops |-> 1, op |-> tc.op, arg |-> tc.arg, new |-> tc.new,
                cur |-> Nil, prev |-> Nil, nxt |-> Nil, node |-> Nil, err |-> FALSE]]
    /\ rd = [r \in Readers |-> [pc |-> "idle", reads |-> 0, cur |-> Nil,
                                seen |-> <<>>, snap |-> {}]]

TestSpec == TestInit /\ [][Next /\ UNCHANGED tcase]_<<vars, tcase>>

\* The test's assertions: the error, and the list compared field by field
\* with the head cache cleared (the partitions from head, tail's partition
\* and numPartitions).
MatchesWant(tc, u) ==
  /\ mu[u].err = tc.wantErr
  /\ Chain(head) = tc.want
  /\ numPartitions = Len(tc.want)
  /\ IF tc.want = <<>> THEN tail = Nil
     ELSE tail # Nil /\ nodes[tail].val = tc.want[Len(tc.want)]

(***************************************************************************)
(* Properties                                                              *)
(***************************************************************************)
\* Every case of Test_partitionList_Remove and Test_partitionList_Swap
\* passes on the model of remove and swap, whatever a concurrent iterator
\* does meanwhile: once the call has returned, the error and the list are
\* those the test asserts.
PassesTests ==
  \A u \in Mutators : mu[u].pc = "idle" => MatchesWant(tcase, u)
====
