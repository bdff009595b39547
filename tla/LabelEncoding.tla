---------------------------- MODULE LabelEncoding ----------------------------
(***************************************************************************)
(* marshalMetricName of src/label.go: the series key of (metric, labels).  *)
(* A string is a sequence of byte values; a label is [Name, Value].  The   *)
(* state is the calls made so far, the keys they returned and the labels  *)
(* slice each left behind (the call sorts and truncates it in place), so   *)
(* that the spec's series identity (section 3) can be stated over pairs of *)
(* calls, a slice reused after a call included.                            *)
(*                                                                         *)
(* sort.Slice on at most 12 elements is an insertion sort, which keeps     *)
(* labels with equal names in the caller's order; the inputs checked here  *)
(* have at most two labels.                                                *)
(***************************************************************************)
EXTENDS Naturals, Sequences, SequencesExt, FiniteSets, TLC

CONSTANTS
  Inputs,   \* [metric, labels] pairs a caller may pass
  MaxCalls  \* calls to marshalMetricName

maxLabelNameLen == 256
maxLabelValueLen == 16 * 1024

invalid(name, value) == name = <<>> \/ value = <<>>

\* encoding.MarshalUint16 (internal/encoding, not under src/): big endian.
MarshalUint16(n) == <<n \div 256, n % 256>>

Truncate(s, k) == IF Len(s) > k THEN SubSeq(s, 1, k) ELSE s

\* Go's string comparison: byte-wise lexicographic.
StrLess(a, b) ==
  \/ IsStrictPrefix(a, b)
  \/ \E k \in 0..Len(a) - 1 :
       k < Len(b) /\ SubSeq(a, 1, k) = SubSeq(b, 1, k) /\ a[k + 1] < b[k + 1]

\* Mutant: the labels are encoded in the caller's order.
SortedByNameSkipped(labels) == {labels}

\* sort.Slice(labels, Name less) on a short slice: the permutation that
\* sorts by Name and keeps equal names in their order (a one-element set).
SortedByName(labels) ==
  {[i \in DOMAIN labels |-> labels[p[i]]] :
     p \in {p \in Permutations(DOMAIN labels) :
              \A i, j \in DOMAIN labels :
                i < j => \/ StrLess(labels[p[i]].Name, labels[p[j]].Name)
                         \/ labels[p[i]].Name = labels[p[j]].Name /\ p[i] < p[j]}}

\* uint16(len(s)) || s
Field(s) == MarshalUint16(Len(s) % 65536) \o s

\* The key of metric and the sorted labels: valid labels truncated, each
\* name and value length-prefixed.
EncodeSorted(metric, sorted) ==
  LET valid == SelectSeq(sorted, LAMBDA l : ~invalid(l.Name, l.Value))
  IN Field(metric) \o
       FlattenSeq([i \in DOMAIN valid |->
                     Field(Truncate(valid[i].Name, maxLabelNameLen)) \o
                     Field(Truncate(valid[i].Value, maxLabelValueLen))])

\* The labels slice after sort.Slice and the loop's write-back: sorted by
\* name, each valid label's name and value truncated in place.
WrittenBack(sorted) ==
  [i \in DOMAIN sorted |->
     IF invalid(sorted[i].Name, sorted[i].Value) THEN sorted[i]
     ELSE [Name |-> Truncate(sorted[i].Name, maxLabelNameLen),
           Value |-> Truncate(sorted[i].Value, maxLabelValueLen)]]

\* The calls marshalMetricName(metric, labels) may make: the key it returns
\* (the bare metric when there are no labels) and the caller's slice as
\* the call leaves it.
marshalMetricName(metric, labels) ==
  IF labels = <<>> THEN {[key |-> metric, after |-> labels]}
  ELSE {[key |-> EncodeSorted(metric, s), after |-> WrittenBack(s)] : s \in SortedByName(labels)}

VARIABLE calls  \* [metric, labels, key, after] of each call so far

Init == calls = <<>>

\* A caller passes a fresh input, or the slice an earlier call left behind.
Marshal ==
  /\ Len(calls) < MaxCalls
  /\ \E c \in Inputs \cup {[metric |-> calls[i].metric, labels |-> calls[i].after] : i \in DOMAIN calls} :
       \E r \in marshalMetricName(c.metric, c.labels) :
         calls' = Append(calls, [metric |-> c.metric, labels |-> c.labels, key |-> r.key, after |-> r.after])

Finished == Len(calls) = MaxCalls

Next == Marshal \/ (Finished /\ UNCHANGED calls)

Spec == Init /\ [][Next]_calls

(***************************************************************************)
(* Properties                                                              *)
(***************************************************************************)
\* The label set a row names: its valid labels, truncated as the data model
\* says (section 3), in no order.
LabelSet(labels) ==
  {[Name |-> Truncate(l.Name, maxLabelNameLen), Value |-> Truncate(l.Value, maxLabelValueLen)] :
     l \in {l \in ToSet(labels) : ~invalid(l.Name, l.Value)}}

\* Spec section 3 and 8.7: two calls return the same key iff they name the
\* same metric and the same label set, whatever the order of the labels.
SeriesIdentity ==
  \A i, j \in DOMAIN calls :
    (calls[i].key = calls[j].key) <=>
      (calls[i].metric = calls[j].metric /\ LabelSet(calls[i].labels) = LabelSet(calls[j].labels))
====
