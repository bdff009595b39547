------------------------------- MODULE Bstream -------------------------------
(***************************************************************************)
(* The bit stream of src/bstream.go: bstream.writeBit / writeByte /       *)
(* writeBits and bstreamReader.readBit / readBits / ReadByte with its      *)
(* loadNextBuffer refill.  A writer appends (value, width) pairs; then a   *)
(* reader is opened on w.bytes() and either decodes the pairs back or      *)
(* scans the stream with arbitrary widths.  bytes() hands out the        *)
(* writer's own slice, and loadNextBuffer is written to tolerate a writer  *)
(* that keeps writing into the last byte (bstream.go:176, 187): so the     *)
(* reader may open at any point and the writer keeps going beside it; the  *)
(* reader's slice keeps its length and sees every later write into its     *)
(* bytes.  A reallocated array would be a frozen copy that agrees with     *)
(* this view on every bit written before the reader opened.                *)
(*                                                                         *)
(* TLC integers stop at 2^31, so a uint64 (and a byte) is a sequence of    *)
(* bits, most significant first.  Go's shift semantics (a shift by the     *)
(* width or more yields 0) and uint8 wrap-around are kept.                 *)
(***************************************************************************)
EXTENDS Naturals, Sequences, SequencesExt

CONSTANTS
  Writes,      \* [u, n] handed to writeBits: u a 64-bit word below 2^n
  MaxWrites,   \* writeBit / writeBits calls
  ScanWidths,  \* nbits a scanning reader passes to readBits
  MaxReads     \* readBits calls of a scanning reader

Word == 64

Zeros(k) == [i \in 1..k |-> 0]

\* x << s and x >> s on an unsigned integer of Len(x) bits.
ShiftL(x, s) == IF s >= Len(x) THEN Zeros(Len(x)) ELSE SubSeq(x, s + 1, Len(x)) \o Zeros(s)
ShiftR(x, s) == IF s >= Len(x) THEN Zeros(Len(x)) ELSE Zeros(s) \o SubSeq(x, 1, Len(x) - s)

BitOr(x, y) == [i \in DOMAIN x |-> IF x[i] + y[i] > 0 THEN 1 ELSE 0]
BitAnd(x, y) == [i \in DOMAIN x |-> x[i] * y[i]]

\* x - 1 modulo 2^Len(x).
Decr(x) ==
  IF \A i \in DOMAIN x : x[i] = 0 THEN [i \in DOMAIN x |-> 1]
  ELSE LET j == CHOOSE j \in DOMAIN x : x[j] = 1 /\ \A k \in j + 1..Len(x) : x[k] = 0
       IN [i \in DOMAIN x |-> IF i < j THEN x[i] ELSE IF i = j THEN 0 ELSE 1]

\* (uint64(1) << n) - 1, all ones when n = 64.
LowMask(n) == Decr(ShiftL(Zeros(Word - 1) \o <<1>>, n))

\* uint8 arithmetic.
U8(n) == n % 256

(***************************************************************************)
(* Writer: w = [stream : Seq(byte), count : free bits in the last byte]    *)
(***************************************************************************)
writeBit(w, bit) ==
  LET s == IF w.count = 0 THEN Append(w.stream, Zeros(8)) ELSE w.stream
      c == IF w.count = 0 THEN 8 ELSE w.count
  IN [stream |-> IF bit = 1 THEN [s EXCEPT ![Len(s)][9 - c] = 1] ELSE s,
      count  |-> c - 1]

\* OR the top count bits of byt into the last byte, append the rest.
writeByte(w, byt) ==
  LET s == IF w.count = 0 THEN Append(w.stream, Zeros(8)) ELSE w.stream
      c == IF w.count = 0 THEN 8 ELSE w.count
  IN [stream |-> Append([s EXCEPT ![Len(s)] = BitOr(@, ShiftR(byt, 8 - c))],
                        ShiftL(byt, c)),
      count  |-> c]

RECURSIVE DrainBits(_, _, _)
DrainBits(w, u, nbits) ==
  IF nbits > 0 THEN DrainBits(writeBit(w, u[1]), ShiftL(u, 1), nbits - 1) ELSE w

RECURSIVE DrainBytes(_, _, _)
DrainBytes(w, u, nbits) ==
  IF nbits >= 8 THEN DrainBytes(writeByte(w, SubSeq(u, 1, 8)), ShiftL(u, 8), nbits - 8)
  ELSE DrainBits(w, u, nbits)

\* Mutant: the value is shifted one place too far before draining.
writeBitsOffByOne(w, u, nbits) == DrainBytes(w, ShiftL(u, Word - nbits + 1), nbits)

writeBits(w, u, nbits) == DrainBytes(w, ShiftL(u, Word - nbits), nbits)

(***************************************************************************)
(* Reader: r = [stream, off (streamOffset), buffer (a word), valid]       *)
(* A read yields [ok, v, r]: ok is FALSE for io.EOF, v the bits read.     *)
(***************************************************************************)
Eof(r) == [ok |-> FALSE, v |-> Zeros(Word), r |-> r]

\* stream[from+1 .. from+k] as a big-endian integer in the low bits of a word.
BigEndian(stream, from, k) ==
  Zeros(Word - 8 * k) \o FlattenSeq(SubSeq(stream, from + 1, from + k))

\* loadNextBuffer: [ok, r] with the refilled reader.
loadNextBuffer(r, nbits) ==
  LET want   == nbits \div 8 + 1
      nbytes == IF r.off + want > Len(r.stream) THEN Len(r.stream) - r.off ELSE want
  IN CASE r.off >= Len(r.stream) -> [ok |-> FALSE, r |-> r]
       [] r.off + 8 < Len(r.stream) ->
            [ok |-> TRUE, r |-> [r EXCEPT !.buffer = BigEndian(r.stream, r.off, 8),
                                          !.off = @ + 8, !.valid = 64]]
       [] OTHER ->
            [ok |-> TRUE, r |-> [r EXCEPT !.buffer = BigEndian(r.stream, r.off, nbytes),
                                          !.off = @ + nbytes, !.valid = U8(nbytes * 8)]]

\* readBit: refill if empty, then readBitFast's test of bit valid-1.
readBit(r) ==
  LET l == IF r.valid = 0 THEN loadNextBuffer(r, 1) ELSE [ok |-> TRUE, r |-> r]
      q == l.r
      v == U8(q.valid - 1)
  IN IF ~l.ok THEN Eof(q)
     ELSE [ok |-> TRUE, r |-> [q EXCEPT !.valid = v],
           v |-> Zeros(Word - 1) \o <<IF v >= Word THEN 0 ELSE q.buffer[Word - v]>>]

readBitsFast(r, nbits) ==
  LET v == U8(r.valid - nbits) IN
  [ok |-> TRUE, r |-> [r EXCEPT !.valid = v],
   v |-> BitAnd(ShiftR(r.buffer, v), LowMask(nbits))]

\* Mutant: the high part of a cross-boundary read is not shifted into place.
CrossHighNoShift(q, n2) == BitAnd(q.buffer, LowMask(q.valid))

\* v := (b.buffer & bitmask) << nbits, the valid bits left before the refill.
CrossHigh(q, n2) == ShiftL(BitAnd(q.buffer, LowMask(q.valid)), n2)

\* readBits: refill if empty; the fast path; or the remaining valid bits
\* followed by the top n2 bits of the next refill.
readBits(r, nbits) ==
  LET l1 == IF r.valid = 0 THEN loadNextBuffer(r, nbits) ELSE [ok |-> TRUE, r |-> r]
      q  == l1.r
      n2 == nbits - q.valid
      l2 == loadNextBuffer([q EXCEPT !.valid = 0], n2)
      rest == U8(l2.r.valid - n2)
  IN CASE ~l1.ok -> Eof(q)
       [] nbits <= q.valid -> readBitsFast(q, nbits)
       [] ~l2.ok -> Eof(l2.r)
       [] OTHER -> [ok |-> TRUE, r |-> [l2.r EXCEPT !.valid = rest],
                    v |-> BitOr(CrossHigh(q, n2), BitAnd(ShiftR(l2.r.buffer, rest), LowMask(n2)))]

\* ReadByte: readBits(8) truncated to a byte, 0 on error.
ReadByte(r) ==
  LET x == readBits(r, 8) IN [x EXCEPT !.v = Zeros(Word - 8) \o SubSeq(@, Word - 7, Word)]

(***************************************************************************)
(* The writer, then one reader on its bytes                                *)
(***************************************************************************)
VARIABLES
  w,        \* the bstream
  written,  \* the (u, n) pairs written, in order; bit marks writeBit
  rd        \* the reader: mode, bstreamReader, bits consumed, results

vars == <<w, written, rd>>

\* newBReader(b): offset 0, nothing buffered.
newBReader(b) == [stream |-> b, off |-> 0, buffer |-> Zeros(Word), valid |-> 0]

NoReader == [mode |-> "none", r |-> newBReader(<<>>), pos |-> 0, out |-> <<>>,
             items |-> 0, committed |-> 0]

Init ==
  /\ w = [stream |-> <<>>, count |-> 0]
  /\ written = <<>>
  /\ rd = NoReader

\* An open reader's slice shares the writer's array: it sees the bytes of
\* the new stream w2 up to its own length.
Aliased(w2) ==
  IF rd.mode = "none" THEN rd
  ELSE [rd EXCEPT !.r.stream = SubSeq(w2.stream, 1, Len(@))]

WriteBitsCall ==
  /\ Len(written) < MaxWrites
  /\ \E it \in Writes :
       /\ w' = writeBits(w, it.u, it.n)
       /\ written' = Append(written, [u |-> it.u, n |-> it.n, bit |-> FALSE])
       /\ rd' = Aliased(writeBits(w, it.u, it.n))

WriteBitCall ==
  /\ Len(written) < MaxWrites
  /\ \E b \in {0, 1} :
       /\ w' = writeBit(w, b)
       /\ written' = Append(written, [u |-> Zeros(Word - 1) \o <<b>>, n |-> 1, bit |-> TRUE])
       /\ rd' = Aliased(writeBit(w, b))

\* newBReader(w.bytes()), at any point of the writing.  items and
\* committed record what had been written then: the pairs, and the bits.
NewBReader ==
  /\ rd.mode = "none"
  /\ \E mode \in {"decode", "scan"} :
       rd' = [mode |-> mode, pos |-> 0, out |-> <<>>, r |-> newBReader(w.stream),
              items |-> Len(written), committed |-> 8 * Len(w.stream) - w.count]
  /\ UNCHANGED <<w, written>>

\* Record a read of n bits that returned res.
Consumed(n, res) ==
  rd' = [rd EXCEPT !.r = res.r, !.pos = IF res.ok THEN @ + n ELSE @,
                   !.out = Append(@, [ok |-> res.ok, v |-> res.v, n |-> n,
                                      end |-> rd.pos + n])]

\* The decoder reads each pair back with the call matching how it was written.
Decode ==
  /\ rd.mode = "decode" /\ Len(rd.out) < rd.items
  /\ LET it == written[Len(rd.out) + 1] IN
       Consumed(it.n, CASE it.bit -> readBit(rd.r)
                        [] it.n = 8 -> ReadByte(rd.r)
                        [] OTHER -> readBits(rd.r, it.n))
  /\ UNCHANGED <<w, written>>

Scan ==
  /\ rd.mode = "scan" /\ Len(rd.out) < MaxReads
  /\ \E n \in ScanWidths : Consumed(n, readBits(rd.r, n))
  /\ UNCHANGED <<w, written>>

Finished ==
  /\ Len(written) = MaxWrites
  /\ \/ rd.mode = "decode" /\ Len(rd.out) = rd.items
     \/ rd.mode = "scan" /\ Len(rd.out) = MaxReads

Next ==
  \/ WriteBitsCall \/ WriteBitCall \/ NewBReader \/ Decode \/ Scan
  \/ Finished /\ UNCHANGED vars

Spec == Init /\ [][Next]_vars

(***************************************************************************)
(* Properties                                                              *)
(***************************************************************************)
\* Spec 4.1 and 8.5: whatever sequence of (value, width) pairs writeBit and
\* writeBits produce, the reader returns the same sequence, without io.EOF.
RoundTrip ==
  rd.mode = "decode" =>
    \A i \in DOMAIN rd.out : rd.out[i].ok /\ rd.out[i].v = written[i].u

\* readBits with any sequence of widths, crossing buffer refills and the
\* slow tail refill, returns the next n bits of the stream whenever they
\* had been written when the reader opened, although the writer has gone
\* on writing into the last byte the reader shares.
ReadsMatchStream ==
  \A i \in DOMAIN rd.out :
    LET o == rd.out[i] IN
    o.ok /\ o.end <= rd.committed =>
      o.v = Zeros(Word - o.n) \o SubSeq(FlattenSeq(rd.r.stream), o.end - o.n + 1, o.end)

\* loadNextBuffer's contract (bstream.go:169): nbits is the minimum number of
\* bits it loads.  So a read never succeeds past the end of the stream.
NoReadPastEnd ==
  \A i \in DOMAIN rd.out : rd.out[i].ok => rd.out[i].end <= 8 * Len(rd.r.stream)
====
