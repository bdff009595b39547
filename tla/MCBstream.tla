------------------------------ MODULE MCBstream ------------------------------
EXTENDS Bstream

\* The 64-bit word of a small natural v.
ToWord(v) == [i \in 1..Word |-> IF Word - i > 30 THEN 0 ELSE (v \div 2^(Word - i)) % 2]

\* 0xAAAA...AA: every byte of a 64-bit write differs from its neighbours.
Alternating == [i \in 1..Word |-> i % 2]

\* A full-width word, a width that is a multiple of 8, one that spans a
\* byte boundary (13 bits) and a short one (3 bits).
BstreamWrites ==
  {[u |-> Alternating, n |-> 64], [u |-> ToWord(165), n |-> 8],
   [u |-> ToWord(4660), n |-> 13], [u |-> ToWord(5), n |-> 3]}

\* Widths below, at and above a byte, and the full word.
BstreamScanWidths == {3, 8, 16, 64}
====
