-------------------------- MODULE BitStreamClient ---------------------------
(***************************************************************************)
(* A client of one stream of bitstream.h: it reads, skips and writes in    *)
(* any order, across the end of the memory as well.  Next to the stream    *)
(* stands what it should be: the sequence of all bits of the memory and    *)
(* the number of the next one.                                             *)
(***************************************************************************)
EXTENDS BitStream

CONSTANTS
  Memory,     \* initial contents
  Widths,     \* numbers of bits read or written at once
  Counts,     \* numbers of bytes, negative ones included
  Values,     \* values written
  BitMax      \* bound: no operation starts beyond this bit

ASSUME BitStreamAssumption ==
  /\ Memory \subseteq Seq(0..255)
  /\ Widths \subseteq 0..30 /\ Counts \subseteq -8..3
  /\ Values \subseteq Nat /\ BitMax \in Nat

VARIABLES
  bs,        \* the stream
  bits,      \* what its memory should hold, bit by bit
  cursor     \* the bit its cursor should be at

bsVars == <<bs, bits, cursor>>

BitsOf(v, n) == [i \in 1..n |-> Shr(v, n - i) % 2]

BsInit ==
  \E m \in Memory :
    /\ bs = Bs(m)
    /\ bits = [k \in 1..(8 * Len(m)) |-> BitsOf(m[(k - 1) \div 8 + 1], 8)[((k - 1) % 8) + 1]]
    /\ cursor = 0

\* An operation that reads n bits; the properties below say what it returns.
Reads(b, n) == bs' = b /\ cursor' = cursor + n /\ UNCHANGED bits

\* An operation that writes the bits s.
Writes(b, s) ==
  /\ bs' = b
  /\ cursor' = cursor + Len(s)
  /\ bits' = [k \in DOMAIN bits |-> IF k - cursor \in 1..Len(s) THEN s[k - cursor] ELSE bits[k]]

\* The reference of the Golomb codes: v + 1, led by a zero for each bit but one.
\* Where the counts of shifts wrap, the bits in front of the last 32 are not those
\* zeros but the last ones of v + 1 once more.
GolombLen(v) == CHOOSE n \in 1..30 : 2^(n - 1) <= v + 1 /\ v + 1 < 2^n
Golomb(v)    == BitsOf(v + 1, 2 * GolombLen(v) - 1)
Wrapped(s)   == [i \in DOMAIN s |-> IF i + 32 <= Len(s) THEN s[i + 32] ELSE s[i]]
Code(v, wraps) == IF wraps THEN Wrapped(Golomb(v)) ELSE Golomb(v)
\* Numbers that have such a code.
ShortCodes   == \A v \in Values : 2 * v + 1 < 2^30
Signed(v)    == IF v <= 0 THEN -2 * v ELSE 2 * v - 1

ReadNext ==
  \/ \E n \in Widths : Reads(ReadU(bs, n).b, n) \/ Reads(SkipU(bs, n), n)
  \/ Reads(ReadU8(bs).b, 8) \/ Reads(Clone(bs), 0)
  \/ \E n \in Counts \cap Nat : Reads(ReadU8n(bs, n).b, 8 * n) \/ Reads(ReadBytes(bs, n).b, 8 * n)
  \/ \E n \in Counts : Reads(SkipBytes(bs, n).b, 8 * AtLeast0(n))
  \/ \E n \in Counts \cap Nat : ReadString(bs, n, 3).r = n /\ Reads(ReadString(bs, n, 3).b, 8 * n)

WriteNext ==
  \E v \in Values, wraps \in BOOLEAN :
    \/ \E n \in Widths : Writes(WriteU(bs, n, v, wraps), BitsOf(v, n))
    \/ Writes(WriteU8(bs, v), BitsOf(v, 8))
    \/ Writes(WriteUe(bs, v, wraps), Code(v, wraps))
    \/ \E s \in {v, -v} : Writes(WriteSe(bs, s, wraps), Code(Signed(s), wraps))
    \/ ByteAligned(bs) /\ Writes(WriteBytes(bs, <<v % 256, 5>>), BitsOf(v, 8) \o BitsOf(5, 8))

BsNext == cursor < BitMax /\ (ReadNext \/ WriteNext)

BsSpec == BsInit /\ [][BsNext]_bsVars

-----------------------------------------------------------------------------
(***************************************************************************)
(* Properties                                                              *)
(***************************************************************************)
At(b) == 8 * b.p + 8 - b.bits_left

\* The value of n bits from bit number k on; zeros follow the end.
ValueAt(k, n) ==
  LET val[i \in 0..n] ==
        IF i = 0 THEN 0 ELSE 2 * val[i - 1] + (IF k + i \in DOMAIN bits THEN bits[k + i] ELSE 0)
  IN  val[n]

\* Reading, skipping and writing move the same cursor by the same number of
\* bits, aligned or not, on the fast path or on the slow one, before the end or
\* beyond it; the memory holds exactly what was written, and what lies around
\* it is untouched.
HoldsWhatWasWritten ==
  /\ At(bs) = cursor /\ bs.bits_left \in 1..8
  /\ \A k \in DOMAIN bits :
       bits[k] = (bs.data[(k - 1) \div 8 + 1] \div 2^(7 - ((k - 1) % 8))) % 2

\* The values read are those of the bits passed over, whichever operation reads
\* them; looking ahead shows what reading will return; and bytes copied out from
\* the start of a byte are those that would be read one by one, as many as there
\* are.
ReadsWhatIsHeld ==
  /\ \A n \in Widths : /\ ReadU(bs, n).r = ValueAt(cursor, n)
                       /\ NextBits(bs, n).r = ReadU(bs, n).r
  /\ ReadU8(bs).r = ValueAt(cursor, 8)
  /\ \A n \in Counts \cap Nat : ReadU8n(bs, n).r = ValueAt(cursor, 8 * n)
  /\ \A n \in Counts : ByteAligned(bs) =>
       LET bytes == ReadBytes(bs, n).r
       IN  /\ \A i \in 1..Len(bytes) : bytes[i] = ValueAt(cursor + 8 * (i - 1), 8)
           /\ Len(bytes) = n /\ n > 0 => NextBytes(bs, n).r = ValueAt(cursor, 8 * n)
           /\ Len(bytes) < n => BytesLeft(bs) < n

\* A code is read back as the number it was written for, wherever it starts, if it
\* fits in the memory; but one of more than 32 bits only where shifting everything
\* out of a word leaves 0.
Rewound(b) == [b EXCEPT !.p = bs.p, !.bits_left = bs.bits_left]
Fitting(b) == At(b) <= 8 * Len(b.data)

Legible(v, wraps) == Len(Golomb(v)) <= 32 \/ ~wraps

GolombRoundTrip ==
  \A v \in Values, wraps \in BOOLEAN :
    /\ LET b == WriteUe(bs, v, wraps)
       IN  Legible(v, wraps) /\ Fitting(b) => ReadUe(Rewound(b)).r = v
    /\ \A s \in {v, -v} :
         LET b == WriteSe(bs, s, wraps)
         IN  Legible(Signed(s), wraps) /\ Fitting(b) => ReadSe(Rewound(b)).r = s
=============================================================================
