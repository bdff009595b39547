---------------------------- MODULE PartitionList ----------------------------
(***************************************************************************)
(* partitionListImpl of src/unnamed/part_000: a singly linked list of      *)
(* partitionNodes, head newest, with a tail pointer, an atomic size and an *)
(* atomic head cache.  Mutators call insert, remove and swap; Readers walk *)
(* the list with an iterator (using each partition they reach) or call     *)
(* getHead.  Each access the code makes to shared state under one lock or *)
(* as one atomic is one step; a partition is a model value whose           *)
(* minTimestamp is MinTs[p].                                               *)
(***************************************************************************)
EXTENDS Integers, Sequences, SequencesExt, FiniteSets

CONSTANTS
  Mutators,    \* goroutines calling insert / remove / swap
  Readers,     \* goroutines iterating the list or calling getHead
  Partitions,  \* partitions, model values
  MinTs,       \* partition -> minTimestamp()
  MaxOps,      \* calls per mutator
  MaxReads     \* calls per reader

ASSUME MinTs \in [Partitions -> Nat]

Nil == 0

VARIABLES
  head, tail,     \* partitionListImpl.head, .tail (node addresses)
  numPartitions,  \* partitionListImpl.numPartitions
  headCache,      \* partitionListImpl.headCache
  nodes,          \* every partitionNode allocated: [val, next], by address
  cleaned,        \* partitions whose clean() has run
  used,           \* partitions already handed to insert or swap
  mu,             \* mutator goroutines: program counter, locals, error returned
  rd              \* reader goroutines: program counter and locals

vars == <<head, tail, numPartitions, headCache, nodes, cleaned, used, mu, rd>>

(***************************************************************************)
(* Helpers                                                                 *)
(***************************************************************************)
\* The partitions reached by following next from node n, at most k of them.
RECURSIVE ChainN(_, _)
ChainN(n, k) ==
  IF n = Nil \/ k = 0 THEN <<>> ELSE <<nodes[n].val>> \o ChainN(nodes[n].next, k - 1)

Chain(n) == ChainN(n, Len(nodes) + 1)

\* Mutant: the comparison is an ordering test, not an equality.
samePartitionsLeq(x, y) == MinTs[x] <= MinTs[y]

\* samePartitions: partitions are compared by minTimestamp only.
samePartitions(x, y) == MinTs[x] = MinTs[y]

NewNode(p, nxt) == [val |-> p, next |-> nxt]

SetNext(n, nxt) == nodes' = [nodes EXCEPT ![n].next = nxt]

\* Mutant: setHead forgets to refresh the head cache.
SetHeadNoCache(n) == head' = n /\ UNCHANGED headCache

\* setHead: head and headCache written under the write lock.
SetHead(n) == head' = n /\ headCache' = n

(***************************************************************************)
(* insert: read head under RLock, link the new node to it, setHead, count. *)
(***************************************************************************)
insert(u) ==
  /\ mu[u].pc = "idle" /\ mu[u].ops < MaxOps
  /\ \E p \in Partitions \ used :
       /\ used' = used \cup {p}
       /\ mu' = [mu EXCEPT ![u].ops = @ + 1, ![u].pc = "ins_read", ![u].arg = p]
  /\ UNCHANGED <<head, tail, numPartitions, headCache, nodes, cleaned, rd>>

InsertReadHead(u) ==
  /\ mu[u].pc = "ins_read"
  /\ nodes' = Append(nodes, NewNode(mu[u].arg, head))
  /\ mu' = [mu EXCEPT ![u].pc = "ins_set", ![u].node = Len(nodes) + 1]
  /\ UNCHANGED <<head, tail, numPartitions, headCache, cleaned, used, rd>>

InsertSetHead(u) ==
  /\ mu[u].pc = "ins_set"
  /\ SetHead(mu[u].node)
  /\ mu' = [mu EXCEPT ![u].pc = "count"]
  /\ UNCHANGED <<tail, numPartitions, nodes, cleaned, used, rd>>

(***************************************************************************)
(* remove and swap share the scan: size check, newIterator, next() until   *)
(* samePartitions, then a second next() to find the following node.        *)
(***************************************************************************)
remove(u) ==
  /\ mu[u].pc = "idle" /\ mu[u].ops < MaxOps
  /\ \E t \in Partitions :
       mu' = [mu EXCEPT ![u].ops = @ + 1, ![u].op = "remove", ![u].arg = t,
                        ![u].pc = "size", ![u].err = FALSE]
  /\ UNCHANGED <<head, tail, numPartitions, headCache, nodes, cleaned, used, rd>>

swap(u) ==
  /\ mu[u].pc = "idle" /\ mu[u].ops < MaxOps
  /\ \E old \in Partitions, new \in Partitions \ used :
       /\ used' = used \cup {new}
       /\ mu' = [mu EXCEPT ![u].ops = @ + 1, ![u].op = "swap", ![u].arg = old,
                           ![u].new = new, ![u].pc = "size", ![u].err = FALSE]
  /\ UNCHANGED <<head, tail, numPartitions, headCache, nodes, cleaned, rd>>

\* if p.size() <= 0 { return error }
CheckSize(u) ==
  /\ mu[u].pc = "size"
  /\ mu' = [mu EXCEPT ![u].pc = IF numPartitions <= 0 THEN "idle" ELSE "iter",
                      ![u].err = numPartitions <= 0]
  /\ UNCHANGED <<head, tail, numPartitions, headCache, nodes, cleaned, used, rd>>

\* newIterator reads head under RLock; the first next() moves onto it.
StartScan(u) ==
  /\ mu[u].pc = "iter"
  /\ mu' = [mu EXCEPT ![u].cur = head, ![u].prev = Nil, ![u].pc = "scan"]
  /\ UNCHANGED <<head, tail, numPartitions, headCache, nodes, cleaned, used, rd>>

\* One loop iteration: no node left is "not found"; a match moves on to
\* the next() of the matched node; otherwise prev = current and next().
ScanStep(u) ==
  LET m == mu[u] IN
  /\ m.pc = "scan"
  /\ mu' = [mu EXCEPT ![u] =
              CASE m.cur = Nil -> [m EXCEPT !.pc = "idle", !.err = TRUE]
                [] samePartitions(nodes[m.cur].val, m.arg) /\ m.op = "remove" ->
                     [m EXCEPT !.pc = "rm_next"]
                [] samePartitions(nodes[m.cur].val, m.arg) ->
                     [m EXCEPT !.pc = "sw_new"]
                [] OTHER -> [m EXCEPT !.prev = m.cur, !.cur = nodes[m.cur].next]]
  /\ UNCHANGED <<head, tail, numPartitions, headCache, nodes, cleaned, used, rd>>

\* swap: newNode := &partitionNode{val: new, next: current.getNext()}
SwapNewNode(u) ==
  /\ mu[u].pc = "sw_new"
  /\ nodes' = Append(nodes, NewNode(mu[u].new, nodes[mu[u].cur].next))
  /\ mu' = [mu EXCEPT ![u].node = Len(nodes) + 1, ![u].pc = "sw_next"]
  /\ UNCHANGED <<head, tail, numPartitions, headCache, cleaned, used, rd>>

\* Mutant: the second iterator.next() is dropped; next is the matched node.
ReadFollowingSkipNext(u) ==
  /\ mu[u].pc \in {"rm_next", "sw_next"}
  /\ mu' = [mu EXCEPT ![u].nxt = mu[u].cur,
                      ![u].pc = IF mu[u].pc = "rm_next" THEN "rm_link" ELSE "sw_link"]
  /\ UNCHANGED <<head, tail, numPartitions, headCache, nodes, cleaned, used, rd>>

\* iterator.next(); next = iterator.currentNode()
ReadFollowing(u) ==
  /\ mu[u].pc \in {"rm_next", "sw_next"}
  /\ mu' = [mu EXCEPT ![u].nxt = nodes[mu[u].cur].next,
                      ![u].pc = IF mu[u].pc = "rm_next" THEN "rm_link" ELSE "sw_link"]
  /\ UNCHANGED <<head, tail, numPartitions, headCache, nodes, cleaned, used, rd>>

\* remove's switch: unlink the head, the tail or a middle node.
RemoveLink(u) ==
  LET m == mu[u] IN
  /\ m.pc = "rm_link"
  /\ CASE m.prev = Nil ->
            /\ SetHead(m.nxt)
            /\ UNCHANGED <<nodes, tail>>
       [] m.nxt = Nil ->
            /\ SetNext(m.prev, Nil) /\ tail' = m.prev /\ headCache' = Nil
            /\ UNCHANGED head
       [] OTHER ->
            /\ SetNext(m.prev, m.nxt)
            /\ UNCHANGED <<head, tail, headCache>>
  /\ mu' = [mu EXCEPT ![u].pc = "rm_count"]
  /\ UNCHANGED <<numPartitions, cleaned, used, rd>>

\* atomic.AddInt64(&p.numPartitions, -1), then current.value().clean()
RemoveCount(u) ==
  /\ mu[u].pc = "rm_count"
  /\ numPartitions' = numPartitions - 1
  /\ mu' = [mu EXCEPT ![u].pc = "rm_clean"]
  /\ UNCHANGED <<head, tail, headCache, nodes, cleaned, used, rd>>

\* Mutant: the removed node is detached (next = nil) before clean().
RemoveCleanDetach(u) ==
  /\ mu[u].pc = "rm_clean"
  /\ cleaned' = cleaned \cup {nodes[mu[u].cur].val}
  /\ SetNext(mu[u].cur, Nil)
  /\ mu' = [mu EXCEPT ![u].pc = "idle"]
  /\ UNCHANGED <<head, tail, numPartitions, headCache, used, rd>>

RemoveClean(u) ==
  /\ mu[u].pc = "rm_clean"
  /\ cleaned' = cleaned \cup {nodes[mu[u].cur].val}
  /\ mu' = [mu EXCEPT ![u].pc = "idle"]
  /\ UNCHANGED <<head, tail, numPartitions, headCache, nodes, used, rd>>

\* swap's switch: the new node takes the head, the tail or a middle place.
SwapLink(u) ==
  LET m == mu[u] IN
  /\ m.pc = "sw_link"
  /\ CASE m.prev = Nil ->
            /\ SetHead(m.node)
            /\ UNCHANGED <<nodes, tail>>
       [] m.nxt = Nil ->
            /\ SetNext(m.prev, m.node) /\ tail' = m.node
            /\ UNCHANGED <<head, headCache>>
       [] OTHER ->
            /\ SetNext(m.prev, m.node)
            /\ UNCHANGED <<head, tail, headCache>>
  /\ mu' = [mu EXCEPT ![u].pc = "idle"]
  /\ UNCHANGED <<numPartitions, cleaned, used, rd>>

\* Mutant: the AddInt64(&p.numPartitions, -1) of remove pasted into insert.
InsertCountDecrements(u) ==
  /\ mu[u].pc = "count"
  /\ numPartitions' = numPartitions - 1
  /\ mu' = [mu EXCEPT ![u].pc = "idle"]
  /\ UNCHANGED <<head, tail, headCache, nodes, cleaned, used, rd>>

\* insert's atomic.AddInt64(&p.numPartitions, 1)
InsertCount(u) ==
  /\ mu[u].pc = "count"
  /\ numPartitions' = numPartitions + 1
  /\ mu' = [mu EXCEPT ![u].pc = "idle"]
  /\ UNCHANGED <<head, tail, headCache, nodes, cleaned, used, rd>>

(***************************************************************************)
(* Readers                                                                 *)
(***************************************************************************)
\* newIterator: head read under RLock; snap records what the list held.
StartIteration(r) ==
  /\ rd[r].pc = "idle" /\ rd[r].reads < MaxReads
  /\ rd' = [rd EXCEPT ![r].reads = @ + 1, ![r].cur = head, ![r].seen = <<>>,
                      ![r].snap = ToSet(Chain(head)), ![r].pc = "use"]
  /\ UNCHANGED <<head, tail, numPartitions, headCache, nodes, cleaned, used, mu>>

\* for iterator.next() { use(iterator.value()) }: the loop body uses the
\* partition of the current node.
UsePartition(r) ==
  /\ rd[r].pc = "use"
  /\ rd' = [rd EXCEPT ![r] =
              IF @.cur = Nil THEN [@ EXCEPT !.pc = "idle"]
              ELSE [@ EXCEPT !.seen = Append(@, nodes[rd[r].cur].val), !.pc = "adv"]]
  /\ UNCHANGED <<head, tail, numPartitions, headCache, nodes, cleaned, used, mu>>

\* iterator.next(): current.getNext() under the node's RLock.
Advance(r) ==
  /\ rd[r].pc = "adv"
  /\ rd' = [rd EXCEPT ![r].cur = nodes[rd[r].cur].next, ![r].pc = "use"]
  /\ UNCHANGED <<head, tail, numPartitions, headCache, nodes, cleaned, used, mu>>

\* getHead: p.size() <= 0 returns nil at once.
GetHead(r) ==
  /\ rd[r].pc = "idle" /\ rd[r].reads < MaxReads
  /\ rd' = [rd EXCEPT ![r].reads = @ + 1,
               ![r].pc = IF numPartitions > 0 THEN "gh_load" ELSE "idle"]
  /\ UNCHANGED <<head, tail, numPartitions, headCache, nodes, cleaned, used, mu>>

\* getHead's fast path: a separate atomic load of headCache; nil falls
\* through to the slow path.
GetHeadLoad(r) ==
  /\ rd[r].pc = "gh_load"
  /\ rd' = [rd EXCEPT ![r].pc = IF headCache = Nil THEN "gh_slow" ELSE "idle"]
  /\ UNCHANGED <<head, tail, numPartitions, headCache, nodes, cleaned, used, mu>>

\* getHead's slow path: read head and fill the cache, both under RLock.
GetHeadSlow(r) ==
  /\ rd[r].pc = "gh_slow"
  /\ headCache' = IF head # Nil THEN head ELSE headCache
  /\ rd' = [rd EXCEPT ![r].pc = "idle"]
  /\ UNCHANGED <<head, tail, numPartitions, nodes, cleaned, used, mu>>

(***************************************************************************)
(* Specification                                                           *)
(***************************************************************************)
Init ==
  /\ head = Nil /\ tail = Nil /\ numPartitions = 0 /\ headCache = Nil
  /\ nodes = <<>> /\ cleaned = {} /\ used = {}
  /\ mu = [u \in Mutators |-> [pc |-> "idle", ops |-> 0, op |-> "remove", arg |-> CHOOSE p \in Partitions : TRUE,
                              new |-> CHOOSE p \in Partitions : TRUE,
                              cur |-> Nil, prev |-> Nil, nxt |-> Nil, node |-> Nil,
                              err |-> FALSE]]
  /\ rd = [r \in Readers |-> [pc |-> "idle", reads |-> 0, cur |-> Nil,
                              seen |-> <<>>, snap |-> {}]]

MutatorStep(u) ==
  \/ insert(u) \/ InsertReadHead(u) \/ InsertSetHead(u) \/ InsertCount(u)
  \/ remove(u) \/ swap(u) \/ CheckSize(u) \/ StartScan(u) \/ ScanStep(u)
  \/ SwapNewNode(u) \/ ReadFollowing(u) \/ RemoveLink(u) \/ RemoveCount(u)
  \/ RemoveClean(u) \/ SwapLink(u)

ReaderStep(r) ==
  \/ StartIteration(r) \/ UsePartition(r) \/ Advance(r) \/ GetHead(r) \/ GetHeadLoad(r)
  \/ GetHeadSlow(r)

\* Every goroutine has made its last call and returned.
Finished ==
  /\ \A u \in Mutators : mu[u].pc = "idle" /\ mu[u].ops = MaxOps
  /\ \A r \in Readers : rd[r].pc = "idle" /\ rd[r].reads = MaxReads

Next ==
  \/ \E u \in Mutators : MutatorStep(u)
  \/ \E r \in Readers : ReaderStep(r)
  \/ Finished /\ UNCHANGED vars

Spec == Init /\ [][Next]_vars

(***************************************************************************)
(* Properties                                                              *)
(***************************************************************************)
MutatorState ==
  [pc : {"idle", "ins_read", "ins_set", "count", "size", "iter", "scan", "sw_new",
         "rm_next", "sw_next", "rm_link", "sw_link", "rm_count", "rm_clean"},
   ops : 0..MaxOps, op : {"remove", "swap"}, arg : Partitions, new : Partitions,
   cur : Nat, prev : Nat, nxt : Nat, node : Nat, err : BOOLEAN]

ReaderState ==
  [pc : {"idle", "use", "adv", "gh_load", "gh_slow"}, reads : 0..MaxReads, cur : Nat,
   seen : Seq(Partitions), snap : SUBSET Partitions]

Nodes == 0..Len(nodes)

TypeOK ==
  /\ head \in Nodes /\ tail \in Nodes /\ headCache \in Nodes
  /\ numPartitions \in 0..Len(nodes)
  /\ nodes \in Seq([val : Partitions, next : Nodes])
  /\ cleaned \subseteq Partitions /\ used \subseteq Partitions
  /\ mu \in [Mutators -> MutatorState]
  /\ rd \in [Readers -> ReaderState]

\* The linked structure implements the abstract list: the partitions
\* reached from head change only as insert, remove and swap promise.
\* A mutator's call in flight, as the abstract list sees it: an insert,
\* remove or swap has taken effect once it has linked its node.
CallOf(u) ==
  IF mu[u].pc = "idle" THEN [kind |-> "none"]
  ELSE [kind |-> IF mu[u].pc \in {"ins_read", "ins_set", "count"} THEN "insert"
                 ELSE mu[u].op,
        arg |-> mu[u].arg, new |-> mu[u].new,
        done |-> mu[u].pc \in {"count", "rm_count", "rm_clean"}]

AbsList == INSTANCE PartitionSeq
             WITH parts <- Chain(head), calls <- [u \in Mutators |-> CallOf(u)],
                  Callers <- Mutators

Refines == AbsList!Spec

\* The list reached from head ends in nil (it is acyclic), and once no call
\* is in flight, the atomic numPartitions equals its length.
WellFormed ==
  /\ ChainN(head, Len(nodes) + 1) = ChainN(head, Len(nodes))
  /\ (\A u \in Mutators : mu[u].pc = "idle") => numPartitions = Len(Chain(head))

\* An iteration racing remove and swap still yields every partition that
\* was in the list when it started and still is when it ends.
IteratorSeesStable ==
  \A r \in Readers :
    rd[r].pc = "idle" =>
      \A p \in rd[r].snap \cap ToSet(Chain(head)) : Contains(rd[r].seen, p)

\* The lock-free head cache never names a node other than the head.
HeadCacheFresh == headCache \in {Nil, head}

\* Spec section 4.5: remove and swap keep tail on the last node.
TailIsLastOrNil ==
  (\A u \in Mutators : mu[u].pc = "idle") =>
    tail = Nil \/ (head # Nil /\ ToSet(Chain(tail)) = {nodes[tail].val}
                   /\ Contains(Chain(head), nodes[tail].val))

\* Spec section 5: no partition is cleaned while an iterator can still
\* reach it, so a loop body never uses a cleaned partition.
NoUseOfCleaned ==
  \A r \in Readers :
    rd[r].pc = "use" /\ rd[r].cur # Nil => nodes[rd[r].cur].val \notin cleaned
=============================================================================
