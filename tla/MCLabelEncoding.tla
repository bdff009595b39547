--------------------------- MODULE MCLabelEncoding ---------------------------
EXTENDS LabelEncoding

L(name, value) == [Name |-> name, Value |-> value]

In(metric, labels) == [metric |-> metric, labels |-> labels]

\* Two names and an empty one, a value and an empty one: valid and invalid labels.
SmallLabels == [Name : {<<1>>, <<2>>, <<>>}, Value : {<<1>>, <<>>}]

\* Non-empty label lists of at most two labels whose valid labels have
\* distinct names, for two metrics, one a prefix of the other.
DistinctNameInputs ==
  {In(m, ls) : m \in {<<1>>, <<1, 2>>},
               ls \in {ls \in BoundedSeq(SmallLabels, 2) :
                         /\ ls # <<>>
                         /\ \A i, j \in DOMAIN ls :
                              i # j /\ ~invalid(ls[i].Name, ls[i].Value)
                                    /\ ~invalid(ls[j].Name, ls[j].Value)
                                => ls[i].Name # ls[j].Name}}

\* No labels, and only an invalid label, for the same metric.
EmptyVsInvalidInputs == {In(<<1>>, <<>>), In(<<1>>, <<L(<<1>>, <<>>)>>)}

\* The same two labels with one name, in both orders.
DuplicateNameInputs ==
  {In(<<1>>, <<L(<<1>>, <<1>>), L(<<1>>, <<2>>)>>),
   In(<<1>>, <<L(<<1>>, <<2>>), L(<<1>>, <<1>>)>>)}

\* A metric whose bytes are the key of metric 1 with the valid label (2, 1).
BareCollisionInputs ==
  {In(<<0, 1, 1, 0, 1, 2, 0, 1, 1>>, <<>>), In(<<1>>, <<L(<<2>>, <<1>>)>>)}
====
