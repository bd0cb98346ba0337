----------------------------- MODULE BitStream ------------------------------
(***************************************************************************)
(* The bit reader and writer of bitstream.h.  A bs_t is a record: data is  *)
(* the memory up to end, start the byte the stream began at, p the byte    *)
(* the cursor is in (free to run past the end) and bits_left the bits of   *)
(* that byte still to come.  An operation that returns a value is [b, r],  *)
(* the stream after it and the value.  Values stay below 2^31.             *)
(***************************************************************************)
EXTENDS Integers, Sequences

Shr(v, k) == IF k > 30 THEN 0 ELSE v \div 2^k

\* v >> k of a uint32_t.  C leaves it undefined for k >= 32: it is 0 where the
\* processor shifts everything out (32-bit ARM), and v >> (k % 32) where it looks
\* at five bits of the count (x86, AArch64): then the count wraps.
Shift(v, k, wraps) == Shr(v, IF wraps THEN k % 32 ELSE k)

Bs(data) == [data |-> data, start |-> 0, p |-> 0, bits_left |-> 8]

\* A stream of its own over what the cursor has not passed.
Clone(b) == [b EXCEPT !.start = b.p]

ByteAligned(b) == b.bits_left = 8
Eof(b)         == b.p >= Len(b.data)
Overrun(b)     == b.p > Len(b.data)
Pos(b)         == (IF Overrun(b) THEN Len(b.data) ELSE b.p) - b.start
BytesLeft(b)   == Len(b.data) - b.p

-----------------------------------------------------------------------------
(***************************************************************************)
(* Bits.  Beyond the end zeros are read and nothing is written, but the    *)
(* cursor moves on.                                                        *)
(***************************************************************************)
SkipU1(b) == IF b.bits_left = 1 THEN [b EXCEPT !.p = @ + 1, !.bits_left = 8]
                                ELSE [b EXCEPT !.bits_left = @ - 1]

PeekU1(b) == IF Eof(b) THEN 0 ELSE (b.data[b.p + 1] \div 2^(b.bits_left - 1)) % 2

ReadU1(b) == [b |-> SkipU1(b), r |-> PeekU1(b)]

\* n times SkipU1.
AtLeast0(n) == IF n < 0 THEN 0 ELSE n
SkipU(b, n) ==
  LET passed == 8 - b.bits_left + AtLeast0(n)
  IN  [b EXCEPT !.p = @ + passed \div 8, !.bits_left = 8 - (passed % 8)]

\* r |= bit << (n - i - 1), most significant bit first.
ReadU(b, n) ==
  LET r[i \in 0..n] == IF i = 0 THEN 0 ELSE 2 * r[i - 1] + ReadU1(SkipU(b, i - 1)).r
  IN  [b |-> SkipU(b, n), r |-> IF n > 0 THEN r[n] ELSE 0]

\* Mutant: the fast path is taken inside a byte as well.
ReadU8Fast(b) ==
  IF ~Eof(b) THEN [b |-> [b EXCEPT !.p = @ + 1], r |-> b.data[b.p + 1]] ELSE ReadU(b, 8)

ReadU8(b) ==
  IF ByteAligned(b) /\ ~Eof(b) THEN [b |-> [b EXCEPT !.p = @ + 1], r |-> b.data[b.p + 1]]
                               ELSE ReadU(b, 8)

ReadU8n(b, n) == ReadU(b, 8 * n)

\* These two leave the cursor where it is.
NextBits(b, n) == [b |-> b, r |-> ReadU(Clone(b), n).r]
ReadRu(b, n)   == [b |-> b, r |-> ReadU(b, n).r]

\* Mutant: a bit that is set is not cleared.
WriteU1Sets(b, v) ==
  SkipU1(IF Eof(b) \/ v % 2 = PeekU1(b) \/ v % 2 = 0 THEN b
         ELSE [b EXCEPT !.data[b.p + 1] = @ + 2^(b.bits_left - 1)])

WriteU1(b, v) ==
  LET weight == 2^(b.bits_left - 1)
      at     == b.p + 1
  IN  SkipU1(IF Eof(b) THEN b
             ELSE [b EXCEPT !.data[at] = @ + ((v % 2) - PeekU1(b)) * weight])

WriteU(b, n, v, wraps) ==
  LET after[i \in 0..n] ==
        IF i = 0 THEN b ELSE WriteU1(after[i - 1], Shift(v, n - i, wraps))
  IN  after[n]

WriteU8(b, v) ==
  IF ByteAligned(b) /\ ~Eof(b)
    THEN [b EXCEPT !.data[b.p + 1] = v % 256, !.p = @ + 1]
    ELSE WriteU(b, 8, v, FALSE)      \* no count is above 7

-----------------------------------------------------------------------------
(***************************************************************************)
(* Exponential Golomb codes.                                               *)
(***************************************************************************)
\* The reading loop goes on after its (i+1)st bit.
CountsOn(b, i) == PeekU1(SkipU(b, i)) = 0 /\ i < 32 /\ ~Eof(SkipU(b, i + 1))

\* Mutant: the code is not decremented.
ReadUePlus(b) ==
  LET i   == CHOOSE n \in 0..32 : ~CountsOn(b, n) /\ \A m \in 0..(n - 1) : CountsOn(b, m)
      low == ReadU(SkipU(b, i + 1), i)
  IN  [b |-> low.b, r |-> low.r + 2^i]

ReadUe(b) ==
  LET i   == CHOOSE n \in 0..32 : ~CountsOn(b, n) /\ \A m \in 0..(n - 1) : CountsOn(b, m)
      low == ReadU(SkipU(b, i + 1), i)
  IN  [b |-> low.b, r |-> low.r + 2^i - 1]

ReadSe(b) ==
  LET ue == ReadUe(b)
  IN  [b |-> ue.b, r |-> IF ue.r % 2 = 1 THEN (ue.r + 1) \div 2 ELSE -(ue.r \div 2)]

\* len_table: the number of bits of a byte, 1 for 0.
LenTable(x) == CHOOSE n \in 1..8 : x < 2^n /\ (n > 1 => x >= 2^(n - 1))

\* Codes of 33 bits and more are written with counts of 32 and more.
WriteUe(b, v, wraps) ==
  LET w   == v + 1
      len == IF w >= 16777216 THEN 24 + LenTable(w \div 16777216)
             ELSE IF w >= 65536 THEN 16 + LenTable(w \div 65536)
             ELSE IF w >= 256 THEN 8 + LenTable(w \div 256)
             ELSE LenTable(w)
  IN  IF v = 0 THEN WriteU1(b, 1) ELSE WriteU(b, 2 * len - 1, w, wraps)

WriteSe(b, v, wraps) == WriteUe(b, IF v <= 0 THEN -v * 2 ELSE v * 2 - 1, wraps)

-----------------------------------------------------------------------------
(***************************************************************************)
(* Bytes: from the byte the cursor is in, whatever bits_left says.         *)
(***************************************************************************)
ActualLen(b, n)  == AtLeast0(IF BytesLeft(b) < n THEN BytesLeft(b) ELSE n)
SkipBytes(b, n)  == [b |-> [b EXCEPT !.p = @ + AtLeast0(n)], r |-> ActualLen(b, n)]
ReadBytes(b, n)  == [b |-> SkipBytes(b, n).b,
                     r |-> SubSeq(b.data, b.p + 1, b.p + ActualLen(b, n))]
WriteBytes(b, s) ==
  [SkipBytes(b, Len(s)).b EXCEPT !.data =
     [i \in DOMAIN @ |-> IF i \in (b.p + 1)..(b.p + ActualLen(b, Len(s)))
                           THEN s[i - b.p] ELSE @[i]]]

NextBytes(b, n) ==
  [b |-> b,
   r |-> IF n \notin 1..8 \/ b.p + n > Len(b.data) THEN 0
         ELSE LET val[i \in 0..n] == IF i = 0 THEN 0 ELSE 256 * val[i - 1] + b.data[b.p + i]
              IN  val[n]]

\* -1 when the string and its terminator do not fit the array of the caller,
\* or the stream does not hold it.
ReadString(b, n, size) ==
  IF n > size - 1 \/ BytesLeft(b) < n
    THEN [b |-> b, r |-> -1]
    ELSE [b |-> SkipU(b, 8 * n), r |-> n]
=============================================================================
