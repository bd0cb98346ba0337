----------------------- MODULE BitStreamClient_proofs -----------------------
(***************************************************************************)
(* The stream of bitstream.h against the sequence of its bits, for every   *)
(* memory, all widths and byte counts.  The invariant is Held: the memory  *)
(* holds the bits, and the cursor is at their next one.  Recursive         *)
(* definitions are reached by Induction over sets of numbers: Sum and      *)
(* Writing name the equations that the LET functions of the model choose   *)
(* a solution of.  What a shift by 32 bits and more gives is left open.    *)
(***************************************************************************)
EXTENDS BitStreamClient, NaturalsInduction, SequenceTheorems, WellFoundedInduction, TLAPS

-----------------------------------------------------------------------------
(***************************************************************************)
(* Induction over sets of numbers                                          *)
(***************************************************************************)
LEMMA Induction ==
  ASSUME NEW S, 0 \in S, \A n \in Nat : n \in S => n + 1 \in S
  PROVE  \A n \in Nat : n \in S
<1> SUFFICES ASSUME NEW m0 \in Nat, m0 \notin S
             PROVE  FALSE
  OBVIOUS
<1> DEFINE T == {n \in Nat : n \notin S}
           R == {ss \in Nat \X Nat : ss[1] < ss[2]}
<1>1. IsWellFoundedOn(R, Nat)
  <2>1. OpToRel(<, Nat) = R
    BY Zenon DEF OpToRel
  <2> QED BY <2>1, NatLessThanWellFounded, Zenon
<1>2. PICK n \in T : \A m \in T : ~ (<<m, n>> \in R)
  <2>1. T \subseteq Nat /\ T # {}
    OBVIOUS
  <2> HIDE DEF R, T
  <2> QED BY <1>1, <2>1, WFMin, Zenon
<1>3. n \in Nat /\ n \notin S
  BY <1>2
<1>4. \A m \in Nat : m < n => m \in S
  <2> TAKE m \in Nat
  <2>1. m < n => <<m, n>> \in R
    BY <1>3
  <2> QED BY <1>2, <2>1
<1> HIDE DEF T, R
<1>5. n = 0 \/ (n - 1 \in Nat /\ n - 1 < n /\ n = (n - 1) + 1)
  BY <1>3
<1> QED BY <1>3, <1>4, <1>5

-----------------------------------------------------------------------------
(***************************************************************************)
(* Recursive functions                                                     *)
(***************************************************************************)
\* A value put together bit by bit: what a definition v[i \in 0..n] chooses.
Sum(v, n, X) == v = [i \in 0..n |-> IF i = 0 THEN 0 ELSE 2 * v[i - 1] + X[i]]

LEMMA SumExists ==
  ASSUME NEW X
  PROVE  \A n \in Nat : \E v : Sum(v, n, X)
<1> DEFINE S == {n \in Nat : \E v : Sum(v, n, X)}
<1>1. 0 \in S
  <2> DEFINE v == [i \in 0..0 |-> 0]
  <2>1. v = [i \in 0..0 |-> IF i = 0 THEN 0 ELSE 2 * v[i - 1] + X[i]]
    OBVIOUS
  <2>2. Sum(v, 0, X)
    BY <2>1 DEF Sum
  <2> HIDE DEF v
  <2> QED BY <2>2
<1>2. ASSUME NEW n \in Nat, n \in S PROVE n + 1 \in S
  <2>1. PICK v : Sum(v, n, X)
    BY <1>2
  <2> DEFINE w == [i \in 0..(n + 1) |-> IF i = n + 1 THEN 2 * v[n] + X[n + 1] ELSE v[i]]
  <2>2. \A i \in 0..n : v[i] = IF i = 0 THEN 0 ELSE 2 * v[i - 1] + X[i]
    <3> DEFINE F(i) == IF i = 0 THEN 0 ELSE 2 * v[i - 1] + X[i]
    <3>1. v = [i \in 0..n |-> F(i)]
      BY <2>1 DEF Sum
    <3> HIDE DEF F
    <3>2. \A i \in 0..n : v[i] = F(i)
      BY <3>1
    <3> QED BY <3>2 DEF F
  <2>3. \A i \in 0..(n + 1) : w[i] = IF i = 0 THEN 0 ELSE 2 * w[i - 1] + X[i]
    <3> TAKE i \in 0..(n + 1)
    <3>1. CASE i = n + 1
      <4>1. i - 1 = n /\ n \in 0..(n + 1) /\ n # n + 1 /\ i # 0
        BY <3>1
      <4> QED BY <3>1, <4>1
    <3>2. CASE i # n + 1 /\ i # 0
      <4>1. i \in 0..n /\ i - 1 \in 0..(n + 1) /\ i - 1 # n + 1
        BY <3>2
      <4> QED BY <2>2, <3>2, <4>1
    <3>3. CASE i # n + 1 /\ i = 0
      <4>1. i \in 0..n
        BY <3>3
      <4> QED BY <2>2, <3>3, <4>1
    <3> QED BY <3>1, <3>2, <3>3
  <2>4. Sum(w, n + 1, X)
    <3>1. w = [i \in 0..(n + 1) |-> w[i]]
      OBVIOUS
    <3> HIDE DEF w
    <3> QED BY <2>3, <3>1 DEF Sum
  <2> HIDE DEF w
  <2> QED BY <2>4
<1>3. \A n \in Nat : n \in S
  <2> HIDE DEF S
  <2> QED BY <1>1, <1>2, Induction
<1> QED BY <1>3

LEMMA SumSteps ==
  ASSUME NEW v, NEW n \in Nat, NEW X, Sum(v, n, X)
  PROVE  v[0] = 0 /\ \A i \in Nat : i < n => v[i + 1] = 2 * v[i] + X[i + 1]
<1> DEFINE F(i) == IF i = 0 THEN 0 ELSE 2 * v[i - 1] + X[i]
<1>1. v = [i \in 0..n |-> F(i)]
  BY DEF Sum
<1> HIDE DEF F
<1>2. \A i \in 0..n : v[i] = F(i)
  BY <1>1
<1>3. v[0] = 0
  BY <1>2 DEF F
<1>4. ASSUME NEW i \in Nat, i < n
      PROVE  v[i + 1] = 2 * v[i] + X[i + 1]
  <2>1. i + 1 \in 0..n /\ (i + 1) - 1 = i /\ i + 1 # 0
    BY <1>4
  <2> QED BY <1>2, <2>1 DEF F
<1> QED BY <1>3, <1>4

LEMMA SumUnique ==
  ASSUME NEW v, NEW w, NEW n \in Nat, NEW X, NEW Y, Sum(v, n, X), Sum(w, n, Y),
         \A i \in 1..n : X[i] = Y[i]
  PROVE  \A i \in 0..n : v[i] = w[i]
<1> DEFINE S == {i \in Nat : i <= n => v[i] = w[i]}
<1>1. 0 \in S
  BY SumSteps
<1>2. ASSUME NEW i \in Nat, i \in S PROVE i + 1 \in S
  <2>1. ASSUME i + 1 <= n PROVE v[i + 1] = w[i + 1]
    <3>1. i < n /\ i <= n /\ i + 1 \in 1..n
      BY <2>1
    <3>2. v[i + 1] = 2 * v[i] + X[i + 1] /\ w[i + 1] = 2 * w[i] + Y[i + 1]
      BY <3>1, SumSteps
    <3> QED BY <1>2, <3>1, <3>2
  <2> QED BY <2>1
<1>3. \A i \in Nat : i \in S
  <2> HIDE DEF S
  <2> QED BY <1>1, <1>2, Induction
<1> QED BY <1>3

\* The number whose n bits are X.
Value(n, X) == (CHOOSE v : Sum(v, n, X))[n]

LEMMA ValueIs ==
  ASSUME NEW n \in Nat, NEW X, NEW v, Sum(v, n, X)
  PROVE  \A i \in 0..n : Value(i, X) = v[i]
<1> TAKE i \in 0..n
<1>1. i \in Nat
  OBVIOUS
<1>2. PICK w : Sum(w, i, X)
  BY <1>1, SumExists
<1> DEFINE u == CHOOSE u : Sum(u, i, X)
<1>3. Sum(u, i, X)
  BY <1>2
<1> HIDE DEF u
<1>4. Sum([j \in 0..i |-> v[j]], i, X)
  <2> DEFINE t == [j \in 0..i |-> v[j]]
  <2>1. \A j \in 0..i : t[j] = IF j = 0 THEN 0 ELSE 2 * t[j - 1] + X[j]
    <3> TAKE j \in 0..i
    <3>1. CASE j = 0
      BY <3>1, SumSteps
    <3>2. CASE j # 0
      <4>1. j - 1 \in Nat /\ j - 1 < n /\ j = (j - 1) + 1 /\ j - 1 \in 0..i
        BY <3>2
      <4>2. v[j] = 2 * v[j - 1] + X[j]
        BY <4>1, SumSteps
      <4> QED BY <3>2, <4>1, <4>2
    <3> QED BY <3>1, <3>2
  <2>2. t = [j \in 0..i |-> t[j]]
    OBVIOUS
  <2> HIDE DEF t
  <2>3. Sum(t, i, X)
    BY <2>1, <2>2 DEF Sum
  <2> QED BY <2>3 DEF t
<1>5. u[i] = [j \in 0..i |-> v[j]][i]
  <2> DEFINE t == [j \in 0..i |-> v[j]]
  <2>1. Sum(t, i, X)
    BY <1>4
  <2> HIDE DEF t
  <2>2. \A j \in 0..i : u[j] = t[j]
    BY <1>1, <1>3, <2>1, SumUnique
  <2>3. u[i] = t[i]
    BY <1>1, <2>2
  <2> QED BY <2>3 DEF t
<1> QED BY <1>1, <1>5 DEF Value, u

\* Values grow bit by bit, and depend on these bits only.
LEMMA ValueSteps ==
  ASSUME NEW X
  PROVE  Value(0, X) = 0 /\ \A n \in Nat : Value(n + 1, X) = 2 * Value(n, X) + X[n + 1]
<1>1. Value(0, X) = 0
  <2>1. PICK v : Sum(v, 0, X)
    BY SumExists
  <2> QED BY <2>1, ValueIs, SumSteps
<1>2. ASSUME NEW n \in Nat
      PROVE  Value(n + 1, X) = 2 * Value(n, X) + X[n + 1]
  <2>1. PICK v : Sum(v, n + 1, X)
    BY SumExists
  <2>2. n + 1 \in Nat /\ n \in 0..(n + 1) /\ n + 1 \in 0..(n + 1) /\ n < n + 1
    OBVIOUS
  <2>3. Value(n, X) = v[n] /\ Value(n + 1, X) = v[n + 1]
    BY <2>1, <2>2, ValueIs
  <2>4. v[n + 1] = 2 * v[n] + X[n + 1]
    BY <2>1, <2>2, SumSteps
  <2> QED BY <2>3, <2>4
<1> QED BY <1>1, <1>2

LEMMA ValueSame ==
  ASSUME NEW n \in Nat, NEW X, NEW Y, \A i \in 1..n : X[i] = Y[i]
  PROVE  Value(n, X) = Value(n, Y)
<1>1. PICK v : Sum(v, n, X)
  BY SumExists
<1>2. PICK w : Sum(w, n, Y)
  BY SumExists
<1>3. n \in 0..n
  OBVIOUS
<1>4. Value(n, X) = v[n] /\ Value(n, Y) = w[n]
  BY <1>1, <1>2, <1>3, ValueIs
<1> QED BY <1>1, <1>2, <1>3, <1>4, SumUnique

-----------------------------------------------------------------------------
(***************************************************************************)
(* The cursor                                                              *)
(***************************************************************************)
Octet == 0..255
BitNo == 0..7

LEMMA OctetRange == ASSUME NEW x PROVE x \in Octet <=> x \in Int /\ 0 <= x /\ x < 256
BY DEF Octet

LEMMA BitNoRange == ASSUME NEW o PROVE o \in BitNo <=> o \in Int /\ 0 <= o /\ o < 8
BY DEF BitNo

Streams == [data : Seq(Octet), start : Nat, p : Nat, bits_left : 1..8]

\* The same, with the cursor as a number of bits.
LEMMA StreamParts ==
  ASSUME NEW b \in Streams
  PROVE  /\ b.data \in Seq(Octet) /\ Len(b.data) \in Nat /\ b.start \in Nat /\ b.p \in Nat
         /\ b.bits_left \in Int /\ 1 <= b.bits_left /\ b.bits_left <= 8
         /\ At(b) = 8 * b.p + 8 - b.bits_left /\ At(b) \in Nat
         /\ b = [data |-> b.data, start |-> b.start, p |-> b.p, bits_left |-> b.bits_left]
<1>1. b.data \in Seq(Octet) /\ b.start \in Nat /\ b.p \in Nat /\ b.bits_left \in 1..8
  BY DEF Streams
<1>2. At(b) = 8 * b.p + 8 - b.bits_left
  BY DEF At
<1>3. Len(b.data) \in Nat
  BY <1>1
<1>4. b = [data |-> b.data, start |-> b.start, p |-> b.p, bits_left |-> b.bits_left]
  BY DEF Streams
<1> DEFINE l == b.bits_left
           p == b.p
<1>5. l \in Int /\ 1 <= l /\ l <= 8 /\ p \in Nat
  BY <1>1
<1> HIDE DEF l, p
<1>6. 8 * p + 8 - l \in Nat
  BY <1>5
<1> QED BY <1>1, <1>2, <1>3, <1>4, <1>5, <1>6 DEF l, p

\* Skipping moves the cursor by as many bits, and nothing else.
LEMMA SkipMoves ==
  ASSUME NEW b \in Streams, NEW n \in Int
  PROVE  /\ SkipU(b, n) \in Streams
         /\ SkipU(b, n).data = b.data /\ SkipU(b, n).start = b.start
         /\ At(SkipU(b, n)) = At(b) + AtLeast0(n) /\ AtLeast0(n) \in Nat
<1> DEFINE m == AtLeast0(n)
           p == b.p
           l == b.bits_left
           k == 8 - l + m
           q == k \div 8
           r == k % 8
<1>1. m \in Nat
  BY DEF AtLeast0
<1>2. l \in Int /\ 1 <= l /\ l <= 8 /\ p \in Nat /\ At(b) = 8 * p + 8 - l
  BY StreamParts
<1>3. SkipU(b, n) = [b EXCEPT !.p = p + q, !.bits_left = 8 - r]
  BY DEF SkipU
<1>4. SkipU(b, n) = [data |-> b.data, start |-> b.start, p |-> p + q, bits_left |-> 8 - r]
  BY <1>3 DEF Streams
<1> HIDE DEF m, p, l
<1>10. k \in Nat /\ k = 8 - l + m
  BY <1>1, <1>2
<1> HIDE DEF k
<1>5. q \in Nat /\ r \in Int /\ 0 <= r /\ r < 8 /\ 8 * q + r = 8 - l + m
  BY <1>10
<1> HIDE DEF q, r
<1>6. 8 - r \in 1..8 /\ p + q \in Nat
  BY <1>2, <1>5
<1>7. SkipU(b, n) \in Streams
  BY <1>4, <1>6, StreamParts DEF Streams
<1>8. At(SkipU(b, n)) = 8 * (p + q) + 8 - (8 - r)
  BY <1>4 DEF At
<1>9. At(SkipU(b, n)) = At(b) + m
  BY <1>1, <1>2, <1>5, <1>8
<1> QED BY <1>1, <1>4, <1>7, <1>9 DEF m

LEMMA Skip1 ==
  ASSUME NEW b \in Streams
  PROVE  /\ SkipU1(b) \in Streams
         /\ SkipU1(b).data = b.data /\ SkipU1(b).start = b.start
         /\ At(SkipU1(b)) = At(b) + 1
<1> DEFINE p == b.p
           l == b.bits_left
           d == b.data
           t == b.start
<1>1. /\ l \in Int /\ 1 <= l /\ l <= 8 /\ p \in Nat /\ At(b) = 8 * p + 8 - l
      /\ d \in Seq(Octet) /\ t \in Nat
      /\ b = [data |-> d, start |-> t, p |-> p, bits_left |-> l]
  BY StreamParts
<1> HIDE DEF p, l, d, t
<1>2. CASE l = 1
  <2>1. SkipU1(b) = [data |-> d, start |-> t, p |-> p + 1, bits_left |-> 8]
    BY <1>1, <1>2 DEF SkipU1
  <2>2. SkipU1(b) \in Streams
    BY <1>1, <2>1 DEF Streams
  <2>3. At(SkipU1(b)) = 8 * (p + 1) + 8 - 8
    BY <2>1 DEF At
  <2> QED BY <1>1, <1>2, <2>1, <2>2, <2>3
<1>3. CASE l # 1
  <2>1. SkipU1(b) = [data |-> d, start |-> t, p |-> p, bits_left |-> l - 1]
    BY <1>1, <1>3 DEF SkipU1
  <2>2. l - 1 \in 1..8
    BY <1>1, <1>3
  <2>3. SkipU1(b) \in Streams
    BY <1>1, <2>1, <2>2 DEF Streams
  <2>4. At(SkipU1(b)) = 8 * p + 8 - (l - 1)
    BY <2>1 DEF At
  <2> QED BY <1>1, <2>1, <2>3, <2>4
<1> QED BY <1>2, <1>3

-----------------------------------------------------------------------------
(***************************************************************************)
(* The memory                                                              *)
(***************************************************************************)
\* Bit o of a byte, from the most significant one on.
BitOf(x, o) == (x \div 2^(7 - o)) % 2

\* Bit k of a sequence of bits, or the zero behind its end.
Bit(s, k) == IF k \in DOMAIN s THEN s[k] ELSE 0

\* The memory of b holds the bits s, and its cursor is at bit c.
Holds(b, c, s) ==
  /\ b \in Streams /\ At(b) = c
  /\ s \in [1..(8 * Len(b.data)) -> {0, 1}]
  /\ \A j \in Nat, o \in BitNo : j < Len(b.data) => s[8 * j + o + 1] = BitOf(b.data[j + 1], o)

LEMMA PeekIsBit ==
  ASSUME NEW b, NEW c, NEW s, Holds(b, c, s)
  PROVE  PeekU1(b) = Bit(s, c + 1)
<1> DEFINE p == b.p
           o == 8 - b.bits_left
           n == Len(b.data)
<1>1. /\ o \in Int /\ 0 <= o /\ o <= 7 /\ p \in Nat /\ n \in Nat /\ c = 8 * p + o
      /\ b.bits_left - 1 = 7 - o
  BY StreamParts DEF Holds
<1>2. PeekU1(b) = IF p >= n THEN 0 ELSE BitOf(b.data[p + 1], o)
  BY <1>1 DEF PeekU1, Eof, BitOf
<1>3. p < n => s[8 * p + o + 1] = BitOf(b.data[p + 1], o)
  <2>1. o \in BitNo /\ p \in Nat
    BY <1>1, BitNoRange
  <2>2. \A j \in Nat, i \in BitNo : j < n => s[8 * j + i + 1] = BitOf(b.data[j + 1], i)
    BY DEF Holds
  <2> HIDE DEF p, o, n
  <2>3. p < n => s[8 * p + o + 1] = BitOf(b.data[p + 1], o)
    BY <2>1, <2>2
  <2> QED BY <2>3
<1>4. DOMAIN s = 1..(8 * n)
  BY DEF Holds
<1> HIDE DEF p, o, n
<1>5. c + 1 = 8 * p + o + 1 /\ (c + 1 \in DOMAIN s <=> p < n)
  BY <1>1, <1>4
<1> QED BY <1>1, <1>2, <1>3, <1>5 DEF Bit

\* A stream that is moved still holds what it held.
LEMMA MovedHolds ==
  ASSUME NEW b, NEW c, NEW s, Holds(b, c, s), NEW b2 \in Streams, b2.data = b.data
  PROVE  Holds(b2, At(b2), s)
BY DEF Holds

-----------------------------------------------------------------------------
(***************************************************************************)
(* Reading                                                                 *)
(***************************************************************************)
Bits(s, c, n) == [i \in 1..n |-> Bit(s, c + i)]

\* bs_read_u returns the bits passed over, most significant one first
\* (bitstream.h:142-151).
LEMMA ReadIsValue ==
  ASSUME NEW b, NEW c, NEW s, Holds(b, c, s), NEW n \in Nat
  PROVE  ReadU(b, n).b = SkipU(b, n) /\ ReadU(b, n).r = Value(n, Bits(s, c, n))
<1> DEFINE G(i) == ReadU1(SkipU(b, i - 1)).r
           X == [i \in 1..n |-> G(i)]
           r0 == CHOOSE r : r = [i \in 0..n |-> IF i = 0 THEN 0 ELSE 2 * r[i - 1] + G(i)]
<1>1. ReadU(b, n).b = SkipU(b, n) /\ ReadU(b, n).r = IF n > 0 THEN r0[n] ELSE 0
  BY DEF ReadU
<1>2. \A i \in 1..n : G(i) = Bit(s, c + i)
  <2> TAKE i \in 1..n
  <2>1. i - 1 \in Int /\ AtLeast0(i - 1) = i - 1 /\ i \in Int
    BY DEF AtLeast0
  <2>2. b \in Streams /\ At(b) = c /\ c \in Int
    BY StreamParts DEF Holds
  <2> DEFINE b2 == SkipU(b, i - 1)
  <2>3. b2 \in Streams /\ b2.data = b.data /\ At(b2) = c + (i - 1)
    BY <2>1, <2>2, SkipMoves
  <2>4. Holds(b2, c + (i - 1), s)
    <3> HIDE DEF b2
    <3> QED BY <2>3, MovedHolds
  <2>5. G(i) = PeekU1(b2)
    BY DEF ReadU1
  <2> HIDE DEF b2, G
  <2>6. c + (i - 1) + 1 = c + i
    BY <2>1, <2>2
  <2> QED BY <2>4, <2>5, <2>6, PeekIsBit
<1>3. \A i \in 1..n : X[i] = G(i)
  BY DEF X
<1> HIDE DEF G
<1>4. \A r : r = [i \in 0..n |-> IF i = 0 THEN 0 ELSE 2 * r[i - 1] + G(i)] <=> Sum(r, n, X)
  <2> TAKE r
  <2>1. \A i \in 0..n : (IF i = 0 THEN 0 ELSE 2 * r[i - 1] + G(i)) = (IF i = 0 THEN 0 ELSE 2 * r[i - 1] + X[i])
    <3> HIDE DEF X
    <3> TAKE i \in 0..n
    <3>1. i # 0 => i \in 1..n
      OBVIOUS
    <3> QED BY <1>3, <3>1
  <2> DEFINE A(i) == IF i = 0 THEN 0 ELSE 2 * r[i - 1] + G(i)
             B(i) == IF i = 0 THEN 0 ELSE 2 * r[i - 1] + X[i]
  <2>2. \A i \in 0..n : A(i) = B(i)
    BY <2>1
  <2>3. Sum(r, n, X) <=> r = [i \in 0..n |-> B(i)]
    BY DEF Sum
  <2> HIDE DEF A, B, X
  <2>4. [i \in 0..n |-> A(i)] = [i \in 0..n |-> B(i)]
    BY <2>2
  <2>5. r = [i \in 0..n |-> A(i)] <=> Sum(r, n, X)
    BY <2>3, <2>4
  <2> QED BY <2>5 DEF A
<1> HIDE DEF X
<1>5. Sum(r0, n, X)
  <2>1. PICK v : Sum(v, n, X)
    BY SumExists
  <2> QED BY <1>4, <2>1, Zenon
<1> HIDE DEF r0
<1>6. n \in 0..n /\ 0 \in 0..n
  OBVIOUS
<1>7. r0[n] = Value(n, X) /\ (n = 0 => Value(n, X) = 0)
  BY <1>5, <1>6, ValueIs, ValueSteps
<1>8. Value(n, X) = Value(n, Bits(s, c, n))
  <2>1. \A i \in 1..n : X[i] = Bits(s, c, n)[i]
    BY <1>2, <1>3 DEF Bits
  <2> QED BY <2>1, ValueSame
<1>9. ~ (n > 0) => n = 0
  OBVIOUS
<1> QED BY <1>1, <1>7, <1>8, <1>9

-----------------------------------------------------------------------------
(***************************************************************************)
(* Writing                                                                 *)
(***************************************************************************)
LEMMA BitsOfOctet ==
  ASSUME NEW x \in Octet
  PROVE  /\ \A o \in BitNo : BitOf(x, o) \in {0, 1}
         /\ x = 128 * BitOf(x, 0) + 64 * BitOf(x, 1) + 32 * BitOf(x, 2) + 16 * BitOf(x, 3)
                + 8 * BitOf(x, 4) + 4 * BitOf(x, 5) + 2 * BitOf(x, 6) + BitOf(x, 7)
<1>1. x \in Int /\ 0 <= x /\ x < 256
  BY OctetRange
<1>2. /\ BitOf(x, 0) = (x \div 128) % 2 /\ BitOf(x, 1) = (x \div 64) % 2
      /\ BitOf(x, 2) = (x \div 32) % 2  /\ BitOf(x, 3) = (x \div 16) % 2
      /\ BitOf(x, 4) = (x \div 8) % 2   /\ BitOf(x, 5) = (x \div 4) % 2
      /\ BitOf(x, 6) = (x \div 2) % 2   /\ BitOf(x, 7) = x % 2
  BY <1>1 DEF BitOf
<1>3. \A o \in 0..7 : BitOf(x, o) \in {0, 1}
  BY <1>1, <1>2
<1>4. x = 128 * ((x \div 128) % 2) + 64 * ((x \div 64) % 2) + 32 * ((x \div 32) % 2)
          + 16 * ((x \div 16) % 2) + 8 * ((x \div 8) % 2) + 4 * ((x \div 4) % 2)
          + 2 * ((x \div 2) % 2) + (x % 2)
  BY <1>1
<1>5. \A o \in BitNo : BitOf(x, o) \in {0, 1}
  BY <1>3, Zenon DEF BitNo
<1> QED BY <1>2, <1>4, <1>5

\* A byte is given by its bits.
LEMMA FromBits ==
  ASSUME NEW x0 \in {0, 1}, NEW x1 \in {0, 1}, NEW x2 \in {0, 1}, NEW x3 \in {0, 1},
         NEW x4 \in {0, 1}, NEW x5 \in {0, 1}, NEW x6 \in {0, 1}, NEW x7 \in {0, 1},
         NEW y, y = 128 * x0 + 64 * x1 + 32 * x2 + 16 * x3 + 8 * x4 + 4 * x5 + 2 * x6 + x7
  PROVE  /\ y \in Octet
         /\ BitOf(y, 0) = x0 /\ BitOf(y, 1) = x1 /\ BitOf(y, 2) = x2 /\ BitOf(y, 3) = x3
         /\ BitOf(y, 4) = x4 /\ BitOf(y, 5) = x5 /\ BitOf(y, 6) = x6 /\ BitOf(y, 7) = x7
<1>1. y \in Int /\ 0 <= y /\ y < 256
  OBVIOUS
<1>2. /\ BitOf(y, 0) = (y \div 128) % 2 /\ BitOf(y, 1) = (y \div 64) % 2
      /\ BitOf(y, 2) = (y \div 32) % 2  /\ BitOf(y, 3) = (y \div 16) % 2
      /\ BitOf(y, 4) = (y \div 8) % 2   /\ BitOf(y, 5) = (y \div 4) % 2
      /\ BitOf(y, 6) = (y \div 2) % 2   /\ BitOf(y, 7) = y % 2
  BY <1>1 DEF BitOf
<1>3. /\ (y \div 128) % 2 = x0 /\ (y \div 64) % 2 = x1 /\ (y \div 32) % 2 = x2 /\ (y \div 16) % 2 = x3
  OBVIOUS
<1>4. /\ (y \div 8) % 2 = x4 /\ (y \div 4) % 2 = x5 /\ (y \div 2) % 2 = x6 /\ y % 2 = x7
  OBVIOUS
<1> QED BY <1>1, <1>2, <1>3, <1>4, OctetRange

\* Adding the weight of a bit that is to change changes that bit and no other
\* (bitstream.h:211-225).
LEMMA OneBitChanged ==
  ASSUME NEW x \in Octet, NEW o \in BitNo, NEW t \in {0, 1}
  PROVE  /\ x + (t - BitOf(x, o)) * 2^(7 - o) \in Octet
         /\ \A i \in BitNo : BitOf(x + (t - BitOf(x, o)) * 2^(7 - o), i)
                               = IF i = o THEN t ELSE BitOf(x, i)
<1> DEFINE y == x + (t - BitOf(x, o)) * 2^(7 - o)
           B(i) == BitOf(x, i)
           N(i) == IF i = o THEN t ELSE BitOf(x, i)
<1>1. /\ \A i \in BitNo : B(i) \in {0, 1}
      /\ x = 128 * B(0) + 64 * B(1) + 32 * B(2) + 16 * B(3) + 8 * B(4) + 4 * B(5) + 2 * B(6) + B(7)
  BY BitsOfOctet
<1>2. \A i \in BitNo : N(i) \in {0, 1}
  BY <1>1
<1>3. o = 0 \/ o = 1 \/ o = 2 \/ o = 3 \/ o = 4 \/ o = 5 \/ o = 6 \/ o = 7
  BY DEF BitNo
<1>4. y = x + (t - B(o)) * 2^(7 - o)
  OBVIOUS
<1>5. \A i \in BitNo : N(i) = IF i = o THEN t ELSE B(i)
  OBVIOUS
<1>6. 0 \in BitNo /\ 1 \in BitNo /\ 2 \in BitNo /\ 3 \in BitNo /\ 4 \in BitNo /\ 5 \in BitNo
      /\ 6 \in BitNo /\ 7 \in BitNo
  BY DEF BitNo
<1> HIDE DEF y, B, N
<1>7. y = 128 * N(0) + 64 * N(1) + 32 * N(2) + 16 * N(3) + 8 * N(4) + 4 * N(5) + 2 * N(6) + N(7)
  <2>1. /\ B(0) \in Int /\ B(1) \in Int /\ B(2) \in Int /\ B(3) \in Int
        /\ B(4) \in Int /\ B(5) \in Int /\ B(6) \in Int /\ B(7) \in Int /\ t \in Int
    BY <1>1, <1>6
  <2>2. 2^7 = 128 /\ 2^6 = 64 /\ 2^5 = 32 /\ 2^4 = 16 /\ 2^3 = 8 /\ 2^2 = 4 /\ 2^1 = 2 /\ 2^0 = 1
    OBVIOUS
  <2>3. CASE o = 0
    <3>1. 7 - o = 7 /\ y = x + (t - B(0)) * 128
      BY <1>4, <2>2, <2>3
    <3> QED BY <1>1, <1>5, <1>6, <2>1, <2>3, <3>1
  <2>4. CASE o = 1
    <3>1. 7 - o = 6 /\ y = x + (t - B(1)) * 64
      BY <1>4, <2>2, <2>4
    <3> QED BY <1>1, <1>5, <1>6, <2>1, <2>4, <3>1
  <2>5. CASE o = 2
    <3>1. 7 - o = 5 /\ y = x + (t - B(2)) * 32
      BY <1>4, <2>2, <2>5
    <3> QED BY <1>1, <1>5, <1>6, <2>1, <2>5, <3>1
  <2>6. CASE o = 3
    <3>1. 7 - o = 4 /\ y = x + (t - B(3)) * 16
      BY <1>4, <2>2, <2>6
    <3> QED BY <1>1, <1>5, <1>6, <2>1, <2>6, <3>1
  <2>7. CASE o = 4
    <3>1. 7 - o = 3 /\ y = x + (t - B(4)) * 8
      BY <1>4, <2>2, <2>7
    <3> QED BY <1>1, <1>5, <1>6, <2>1, <2>7, <3>1
  <2>8. CASE o = 5
    <3>1. 7 - o = 2 /\ y = x + (t - B(5)) * 4
      BY <1>4, <2>2, <2>8
    <3> QED BY <1>1, <1>5, <1>6, <2>1, <2>8, <3>1
  <2>9. CASE o = 6
    <3>1. 7 - o = 1 /\ y = x + (t - B(6)) * 2
      BY <1>4, <2>2, <2>9
    <3> QED BY <1>1, <1>5, <1>6, <2>1, <2>9, <3>1
  <2>10. CASE o = 7
    <3>1. 7 - o = 0 /\ y = x + (t - B(7)) * 1
      BY <1>4, <2>2, <2>10
    <3> QED BY <1>1, <1>5, <1>6, <2>1, <2>10, <3>1
  <2> QED BY <1>3, <2>3, <2>4, <2>5, <2>6, <2>7, <2>8, <2>9, <2>10
<1>8. /\ y \in Octet
      /\ BitOf(y, 0) = N(0) /\ BitOf(y, 1) = N(1) /\ BitOf(y, 2) = N(2) /\ BitOf(y, 3) = N(3)
      /\ BitOf(y, 4) = N(4) /\ BitOf(y, 5) = N(5) /\ BitOf(y, 6) = N(6) /\ BitOf(y, 7) = N(7)
  BY <1>2, <1>6, <1>7, FromBits
<1>9. \A i \in BitNo : BitOf(y, i) = N(i)
  BY <1>8 DEF BitNo
<1> QED BY <1>8, <1>9 DEF y, N

\* bs_write_u1 sets the bit at the cursor, if there is one.
LEMMA BitWritten ==
  ASSUME NEW b, NEW c, NEW s, Holds(b, c, s), NEW v \in Nat
  PROVE  Holds(WriteU1(b, v), c + 1, [k \in DOMAIN s |-> IF k = c + 1 THEN v % 2 ELSE s[k]])
<1> DEFINE t == v % 2
           s2 == [k \in DOMAIN s |-> IF k = c + 1 THEN t ELSE s[k]]
           p == b.p
           o == 8 - b.bits_left
           d == b.data
           n == Len(d)
<1>1. /\ o \in Int /\ 0 <= o /\ o < 8 /\ p \in Nat /\ n \in Nat /\ c = 8 * p + o
      /\ b.bits_left - 1 = 7 - o /\ d \in Seq(Octet) /\ b \in Streams /\ c \in Nat
  BY StreamParts DEF Holds
<1>2. t \in {0, 1}
  OBVIOUS
<1>3. /\ s \in [1..(8 * n) -> {0, 1}]
      /\ \A j \in Nat, i \in BitNo : j < n => s[8 * j + i + 1] = BitOf(d[j + 1], i)
  BY DEF Holds
<1>4. s2 \in [1..(8 * n) -> {0, 1}] /\ DOMAIN s = 1..(8 * n)
  BY <1>2, <1>3
<1>5. \A k \in 1..(8 * n) : s2[k] = IF k = c + 1 THEN t ELSE s[k]
  BY <1>4
<1>6. CASE p >= n
  <2>1. WriteU1(b, v) = SkipU1(b)
    BY <1>6 DEF WriteU1, Eof
  <2>2. \A k \in 1..(8 * n) : k # c + 1
    <3> HIDE DEF p, o, n, t, d
    <3> QED BY <1>1, <1>6
  <2>3. s2 = s
    BY <1>3, <1>4, <1>5, <2>2
  <2>4. Holds(SkipU1(b), At(SkipU1(b)), s) /\ At(SkipU1(b)) = c + 1
    BY <1>1, Skip1, MovedHolds DEF Holds
  <2> QED BY <2>1, <2>3, <2>4
<1>7. CASE ~ (p >= n)
  <2> DEFINE x == d[p + 1]
             y == x + (t - BitOf(x, o)) * 2^(7 - o)
             d2 == [d EXCEPT ![p + 1] = y]
             b2 == [b EXCEPT !.data = d2]
  <2>1. o \in BitNo /\ p + 1 \in 1..n /\ x \in Octet
    BY <1>1, <1>7, BitNoRange
  <2>2. PeekU1(b) = BitOf(x, o)
    BY <1>1, <1>7 DEF PeekU1, Eof, BitOf
  <2>3. WriteU1(b, v) = SkipU1(b2)
    BY <1>1, <1>7, <2>2 DEF WriteU1, Eof
  <2>4. y \in Octet /\ \A i \in BitNo : BitOf(y, i) = IF i = o THEN t ELSE BitOf(x, i)
    BY <1>2, <2>1, OneBitChanged
  <2> HIDE DEF y
  <2>5. /\ d2 \in Seq(Octet) /\ Len(d2) = n
        /\ \A j \in 1..n : d2[j] = IF j = p + 1 THEN y ELSE d[j]
    BY <1>1, <2>1, <2>4
  <2> HIDE DEF d2
  <2>6. /\ b2 \in Streams /\ b2.data = d2 /\ b2.start = b.start /\ b2.p = p
        /\ b2.bits_left = b.bits_left
    BY <1>1, <2>5 DEF Streams
  <2>7. At(b2) = c
    BY <2>6 DEF At, Holds
  <2> HIDE DEF b2
  <2>8. SkipU1(b2) \in Streams /\ SkipU1(b2).data = d2 /\ At(SkipU1(b2)) = c + 1
    BY <2>6, <2>7, Skip1
  <2>9. ASSUME NEW j \in Nat, NEW i \in BitNo, j < n
        PROVE  s2[8 * j + i + 1] = BitOf(d2[j + 1], i)
    <3> DEFINE k == 8 * j + i + 1
    <3>1. i \in Int /\ 0 <= i /\ i < 8
      BY BitNoRange
    <3>2. j + 1 \in 1..n
      BY <1>1, <2>9
    <3>3. s[k] = BitOf(d[j + 1], i)
      BY <1>3, <2>9
    <3>4. k \in 1..(8 * n) /\ (k = c + 1 <=> j = p /\ i = o)
      <4> HIDE DEF p, o, n
      <4> QED BY <1>1, <2>9, <3>1
    <3> HIDE DEF k, s2
    <3>5. s2[k] = IF j = p /\ i = o THEN t ELSE s[k]
      BY <1>5, <3>4
    <3>6. d2[j + 1] = IF j = p THEN y ELSE d[j + 1]
      BY <1>1, <2>5, <3>2
    <3>7. ASSUME j = p PROVE s2[k] = BitOf(d2[j + 1], i)
      BY <2>4, <3>3, <3>5, <3>6, <3>7
    <3>8. ASSUME j # p PROVE s2[k] = BitOf(d2[j + 1], i)
      BY <3>3, <3>5, <3>6, <3>8
    <3> QED BY <3>7, <3>8 DEF k
  <2> HIDE DEF s2
  <2>10. Holds(SkipU1(b2), c + 1, s2)
    BY <1>4, <2>5, <2>8, <2>9 DEF Holds
  <2> QED BY <2>3, <2>10 DEF s2
<1> QED BY <1>6, <1>7

\* The powers of 2 that fit in an int, one by one: the prover evaluates a power of
\* numbers only.
LEMMA PowerSteps ==
  ASSUME NEW k \in Nat, k < 30
  PROVE  2^(k + 1) = 2 * 2^k
<1>0. ASSUME k = 0 PROVE 2^(k + 1) = 2 * 2^k BY <1>0
<1>1. ASSUME k = 1 PROVE 2^(k + 1) = 2 * 2^k BY <1>1
<1>2. ASSUME k = 2 PROVE 2^(k + 1) = 2 * 2^k BY <1>2
<1>3. ASSUME k = 3 PROVE 2^(k + 1) = 2 * 2^k BY <1>3
<1>4. ASSUME k = 4 PROVE 2^(k + 1) = 2 * 2^k BY <1>4
<1>5. ASSUME k = 5 PROVE 2^(k + 1) = 2 * 2^k BY <1>5
<1>6. ASSUME k = 6 PROVE 2^(k + 1) = 2 * 2^k BY <1>6
<1>7. ASSUME k = 7 PROVE 2^(k + 1) = 2 * 2^k BY <1>7
<1>8. ASSUME k = 8 PROVE 2^(k + 1) = 2 * 2^k BY <1>8
<1>9. ASSUME k = 9 PROVE 2^(k + 1) = 2 * 2^k BY <1>9
<1>10. ASSUME k = 10 PROVE 2^(k + 1) = 2 * 2^k BY <1>10
<1>11. ASSUME k = 11 PROVE 2^(k + 1) = 2 * 2^k BY <1>11
<1>12. ASSUME k = 12 PROVE 2^(k + 1) = 2 * 2^k BY <1>12
<1>13. ASSUME k = 13 PROVE 2^(k + 1) = 2 * 2^k BY <1>13
<1>14. ASSUME k = 14 PROVE 2^(k + 1) = 2 * 2^k BY <1>14
<1>15. ASSUME k = 15 PROVE 2^(k + 1) = 2 * 2^k BY <1>15
<1>16. ASSUME k = 16 PROVE 2^(k + 1) = 2 * 2^k BY <1>16
<1>17. ASSUME k = 17 PROVE 2^(k + 1) = 2 * 2^k BY <1>17
<1>18. ASSUME k = 18 PROVE 2^(k + 1) = 2 * 2^k BY <1>18
<1>19. ASSUME k = 19 PROVE 2^(k + 1) = 2 * 2^k BY <1>19
<1>20. ASSUME k = 20 PROVE 2^(k + 1) = 2 * 2^k BY <1>20
<1>21. ASSUME k = 21 PROVE 2^(k + 1) = 2 * 2^k BY <1>21
<1>22. ASSUME k = 22 PROVE 2^(k + 1) = 2 * 2^k BY <1>22
<1>23. ASSUME k = 23 PROVE 2^(k + 1) = 2 * 2^k BY <1>23
<1>24. ASSUME k = 24 PROVE 2^(k + 1) = 2 * 2^k BY <1>24
<1>25. ASSUME k = 25 PROVE 2^(k + 1) = 2 * 2^k BY <1>25
<1>26. ASSUME k = 26 PROVE 2^(k + 1) = 2 * 2^k BY <1>26
<1>27. ASSUME k = 27 PROVE 2^(k + 1) = 2 * 2^k BY <1>27
<1>28. ASSUME k = 28 PROVE 2^(k + 1) = 2 * 2^k BY <1>28
<1>29. ASSUME k = 29 PROVE 2^(k + 1) = 2 * 2^k BY <1>29
<1> DEFINE m == 2^k
           n == 2^(k + 1)
<1> HIDE DEF m, n
<1>31. k < 15 => n = 2 * m
  BY <1>0, <1>1, <1>2, <1>3, <1>4, <1>5, <1>6, <1>7, <1>8, <1>9, <1>10, <1>11, <1>12, <1>13, <1>14 DEF m, n
<1>32. k >= 15 => n = 2 * m
  BY <1>15, <1>16, <1>17, <1>18, <1>19, <1>20, <1>21, <1>22, <1>23, <1>24, <1>25, <1>26, <1>27, <1>28, <1>29 DEF m, n
<1> QED BY <1>31, <1>32 DEF m, n

LEMMA PowersOf2 ==
  ASSUME NEW k \in Nat, k <= 30
  PROVE  2^k \in Nat /\ 2^k > 0
<1> DEFINE S == {n \in Nat : n <= 30 => 2^n \in Nat /\ 2^n > 0}
<1>1. 0 \in S
  OBVIOUS
<1>2. ASSUME NEW n \in Nat, n \in S PROVE n + 1 \in S
  <2>1. ASSUME n + 1 <= 30 PROVE 2^(n + 1) \in Nat /\ 2^(n + 1) > 0
    <3>1. 2^(n + 1) = 2 * 2^n
      BY <2>1, PowerSteps
    <3>2. 2^n \in Nat /\ 2^n > 0
      BY <1>2, <2>1
    <3> DEFINE m == 2^n
               l == 2^(n + 1)
    <3> HIDE DEF m, l
    <3>3. l = 2 * m /\ m \in Nat /\ m > 0
      BY <3>1, <3>2 DEF m, l
    <3>4. l \in Nat /\ l > 0
      BY <3>3
    <3> QED BY <3>4 DEF l
  <2> QED BY <2>1
<1>3. \A n \in Nat : n \in S
  <2> HIDE DEF S
  <2> QED BY <1>1, <1>2, Induction
<1> QED BY <1>3

LEMMA ShrIsNat ==
  ASSUME NEW v \in Nat, NEW k \in Nat
  PROVE  Shr(v, k) \in Nat
<1>1. ASSUME k <= 30 PROVE 2^k \in Nat /\ 2^k > 0
  BY <1>1, PowersOf2
<1>2. CASE k > 30
  BY <1>2 DEF Shr
<1>3. CASE ~ (k > 30)
  <2> DEFINE m == 2^k
  <2>2. m \in Nat /\ m > 0
    BY <1>1, <1>3
  <2>3. Shr(v, k) = v \div m
    BY <1>3 DEF Shr
  <2> HIDE DEF m
  <2> QED BY <2>2, <2>3
<1> QED BY <1>2, <1>3

LEMMA ShiftIsNat ==
  ASSUME NEW v \in Nat, NEW k \in Nat, NEW wraps \in BOOLEAN
  PROVE  Shift(v, k, wraps) \in Nat
<1>1. k % 32 \in Nat
  OBVIOUS
<1> QED BY <1>1, ShrIsNat DEF Shift

\* The bits that bs_write_u takes from v (bitstream.h:232).
Shifted(v, n, wraps) == [i \in 1..n |-> Shift(v, n - i, wraps) % 2]

LEMMA LenOfBits ==
  ASSUME NEW v \in Nat, NEW n \in Nat
  PROVE  BitsOf(v, n) \in Seq(Int) /\ Len(BitsOf(v, n)) = n
<1>1. \A i \in 1..n : Shr(v, n - i) % 2 \in Int
  <2> TAKE i \in 1..n
  <2>1. n - i \in Nat
    OBVIOUS
  <2> QED BY <2>1, ShrIsNat
<1> QED BY <1>1 DEF BitsOf

\* They are those of v up to 32 bits, and wrapped round beyond where the counts wrap.
LEMMA ShiftedIs ==
  ASSUME NEW v \in Nat, NEW n \in Nat, n < 64, NEW wraps \in BOOLEAN
  PROVE  /\ Shifted(v, n, wraps) = IF wraps THEN Wrapped(BitsOf(v, n)) ELSE BitsOf(v, n)
         /\ n <= 32 => Wrapped(BitsOf(v, n)) = BitsOf(v, n)
<1> DEFINE s == BitsOf(v, n)
<1>1. Len(s) = n /\ DOMAIN s = 1..n
  BY LenOfBits DEF BitsOf
<1>2. \A i \in 1..n : s[i] = Shr(v, n - i) % 2
  BY DEF BitsOf
<1>3. s = [i \in 1..n |-> s[i]]
  BY DEF BitsOf
<1>4. Wrapped(s) = [i \in 1..n |-> IF i + 32 <= n THEN s[i + 32] ELSE s[i]]
  BY <1>1 DEF Wrapped
<1> HIDE DEF s
<1>5. ASSUME wraps PROVE Shifted(v, n, wraps) = Wrapped(s)
  <2>1. ASSUME NEW i \in 1..n
        PROVE  Shift(v, n - i, wraps) % 2 = IF i + 32 <= n THEN s[i + 32] ELSE s[i]
    <3>1. Shift(v, n - i, wraps) = Shr(v, (n - i) % 32)
      BY <1>5 DEF Shift
    <3>2. CASE i + 32 <= n
      <4>1. (n - i) % 32 = n - (i + 32) /\ i + 32 \in 1..n
        <5> DEFINE k == n - i
        <5>1. k \in Int /\ 32 <= k /\ k < 64 /\ k - 32 = n - (i + 32) /\ i + 32 \in 1..n
          BY <3>2
        <5> HIDE DEF k
        <5>2. k % 32 = k - 32
          BY <5>1
        <5> QED BY <5>1, <5>2 DEF k
      <4> QED BY <1>2, <3>1, <3>2, <4>1
    <3>3. CASE ~ (i + 32 <= n)
      <4>1. (n - i) % 32 = n - i
        <5> DEFINE k == n - i
        <5>1. k \in Int /\ 0 <= k /\ k < 32
          BY <3>3
        <5> HIDE DEF k
        <5>2. k % 32 = k
          BY <5>1
        <5> QED BY <5>2 DEF k
      <4> QED BY <1>2, <3>1, <3>3, <4>1
    <3> QED BY <3>2, <3>3
  <2> QED BY <1>4, <2>1 DEF Shifted
<1>6. ASSUME ~wraps PROVE Shifted(v, n, wraps) = s
  <2>1. \A i \in 1..n : Shift(v, n - i, wraps) % 2 = s[i]
    BY <1>2, <1>6 DEF Shift
  <2> QED BY <1>3, <2>1 DEF Shifted
<1>7. ASSUME n <= 32 PROVE Wrapped(s) = s
  <2>1. \A i \in 1..n : ~ (i + 32 <= n)
    BY <1>7
  <2> QED BY <1>3, <1>4, <2>1
<1> QED BY <1>5, <1>6, <1>7 DEF s

LEMMA ShortShifted ==
  ASSUME NEW v \in Nat, NEW n \in Nat, n <= 32, NEW wraps \in BOOLEAN
  PROVE  Shifted(v, n, wraps) = BitsOf(v, n)
<1>1. n < 64
  OBVIOUS
<1> QED BY <1>1, ShiftedIs

\* Streams written bit by bit: what a definition a[i \in 0..n] chooses.
Writing(a, n, b, X) == a = [i \in 0..n |-> IF i = 0 THEN b ELSE WriteU1(a[i - 1], X[i])]

LEMMA WritingExists ==
  ASSUME NEW b, NEW X
  PROVE  \A n \in Nat : \E a : Writing(a, n, b, X)
<1> DEFINE S == {n \in Nat : \E a : Writing(a, n, b, X)}
<1>1. 0 \in S
  <2> DEFINE a == [i \in 0..0 |-> b]
  <2>1. a = [i \in 0..0 |-> IF i = 0 THEN b ELSE WriteU1(a[i - 1], X[i])]
    OBVIOUS
  <2>2. Writing(a, 0, b, X)
    BY <2>1 DEF Writing
  <2> HIDE DEF a
  <2> QED BY <2>2
<1>2. ASSUME NEW n \in Nat, n \in S PROVE n + 1 \in S
  <2>1. PICK a : Writing(a, n, b, X)
    BY <1>2
  <2> DEFINE a2 == [i \in 0..(n + 1) |-> IF i = n + 1 THEN WriteU1(a[n], X[n + 1]) ELSE a[i]]
  <2>2. \A i \in 0..n : a[i] = IF i = 0 THEN b ELSE WriteU1(a[i - 1], X[i])
    <3> DEFINE F(i) == IF i = 0 THEN b ELSE WriteU1(a[i - 1], X[i])
    <3>1. a = [i \in 0..n |-> F(i)]
      BY <2>1 DEF Writing
    <3> HIDE DEF F
    <3>2. \A i \in 0..n : a[i] = F(i)
      BY <3>1
    <3> QED BY <3>2 DEF F
  <2>3. \A i \in 0..(n + 1) : a2[i] = IF i = 0 THEN b ELSE WriteU1(a2[i - 1], X[i])
    <3> TAKE i \in 0..(n + 1)
    <3>1. CASE i = n + 1
      <4>1. i - 1 = n /\ n \in 0..(n + 1) /\ n # n + 1 /\ i # 0
        BY <3>1
      <4> QED BY <3>1, <4>1
    <3>2. CASE i # n + 1 /\ i # 0
      <4>1. i \in 0..n /\ i - 1 \in 0..(n + 1) /\ i - 1 # n + 1
        BY <3>2
      <4> QED BY <2>2, <3>2, <4>1
    <3>3. CASE i # n + 1 /\ i = 0
      <4>1. i \in 0..n
        BY <3>3
      <4> QED BY <2>2, <3>3, <4>1
    <3> QED BY <3>1, <3>2, <3>3
  <2>4. Writing(a2, n + 1, b, X)
    <3>1. a2 = [i \in 0..(n + 1) |-> a2[i]]
      OBVIOUS
    <3> HIDE DEF a2
    <3> QED BY <2>3, <3>1 DEF Writing
  <2> HIDE DEF a2
  <2> QED BY <2>4
<1>3. \A n \in Nat : n \in S
  <2> HIDE DEF S
  <2> QED BY <1>1, <1>2, Induction
<1> QED BY <1>3

LEMMA WritingSteps ==
  ASSUME NEW a, NEW n \in Nat, NEW b, NEW X, Writing(a, n, b, X)
  PROVE  a[0] = b /\ \A i \in Nat : i < n => a[i + 1] = WriteU1(a[i], X[i + 1])
<1> DEFINE F(i) == IF i = 0 THEN b ELSE WriteU1(a[i - 1], X[i])
<1>1. a = [i \in 0..n |-> F(i)]
  BY DEF Writing
<1> HIDE DEF F
<1>2. \A i \in 0..n : a[i] = F(i)
  BY <1>1
<1>3. a[0] = b
  BY <1>2 DEF F
<1>4. ASSUME NEW i \in Nat, i < n
      PROVE  a[i + 1] = WriteU1(a[i], X[i + 1])
  <2>1. i + 1 \in 0..n /\ (i + 1) - 1 = i /\ i + 1 # 0
    BY <1>4
  <2> QED BY <1>2, <2>1 DEF F
<1> QED BY <1>3, <1>4

\* s with the first n bits of w from bit c on.
Overwritten(s, c, n, w) == [k \in DOMAIN s |-> IF c < k /\ k <= c + n THEN w[k - c] ELSE s[k]]

\* bs_write_u writes n bits, most significant one first (bitstream.h:227-234).
LEMMA BitsWritten ==
  ASSUME NEW b, NEW c, NEW s, Holds(b, c, s), NEW n \in Nat, NEW v \in Nat, NEW wraps \in BOOLEAN
  PROVE  Holds(WriteU(b, n, v, wraps), c + n, Overwritten(s, c, n, Shifted(v, n, wraps)))
<1> DEFINE w == Shifted(v, n, wraps)
           X == [i \in 1..n |-> Shift(v, n - i, wraps)]
           a == CHOOSE a : a = [i \in 0..n |-> IF i = 0 THEN b ELSE WriteU1(a[i - 1], Shift(v, n - i, wraps))]
           P(i) == Holds(a[i], c + i, Overwritten(s, c, i, w))
           S == {i \in Nat : i <= n => P(i)}
<1>1. WriteU(b, n, v, wraps) = a[n]
  BY DEF WriteU
<1>2. Writing(a, n, b, X)
  <2>1. \A u : u = [i \in 0..n |-> IF i = 0 THEN b ELSE WriteU1(u[i - 1], Shift(v, n - i, wraps))]
                 <=> Writing(u, n, b, X)
    <3> TAKE u
    <3> DEFINE A(i) == IF i = 0 THEN b ELSE WriteU1(u[i - 1], Shift(v, n - i, wraps))
               B(i) == IF i = 0 THEN b ELSE WriteU1(u[i - 1], X[i])
    <3>1. \A i \in 0..n : A(i) = B(i)
      <4> TAKE i \in 0..n
      <4>1. i # 0 => i \in 1..n
        OBVIOUS
      <4>2. i # 0 => X[i] = Shift(v, n - i, wraps)
        BY <4>1
      <4> QED BY <4>2
    <3>2. Writing(u, n, b, X) <=> u = [i \in 0..n |-> B(i)]
      BY DEF Writing
    <3> HIDE DEF A, B
    <3>3. [i \in 0..n |-> A(i)] = [i \in 0..n |-> B(i)]
      BY <3>1
    <3>4. u = [i \in 0..n |-> A(i)] <=> Writing(u, n, b, X)
      BY <3>2, <3>3
    <3> QED BY <3>4 DEF A
  <2> HIDE DEF X
  <2>2. PICK u : Writing(u, n, b, X)
    BY WritingExists
  <2> QED BY <2>1, <2>2, Zenon
<1>3. \A i \in 1..n : X[i] \in Nat /\ w[i] = X[i] % 2
  <2> TAKE i \in 1..n
  <2>1. n - i \in Nat
    OBVIOUS
  <2>2. X[i] = Shift(v, n - i, wraps) /\ w[i] = Shift(v, n - i, wraps) % 2
    BY DEF Shifted
  <2> QED BY <2>1, <2>2, ShiftIsNat
<1> HIDE DEF a, X, w
<1>4. c \in Nat
  BY StreamParts DEF Holds
<1>5. DOMAIN s \subseteq Nat /\ s = [k \in DOMAIN s |-> s[k]]
  BY DEF Holds
<1>6. 0 \in S
  <2>1. Overwritten(s, c, 0, w) = s
    <3>1. \A k \in DOMAIN s : ~ (c < k /\ k <= c + 0)
      BY <1>4, <1>5
    <3> QED BY <1>5, <3>1 DEF Overwritten
  <2>2. a[0] = b /\ c + 0 = c
    BY <1>2, <1>4, WritingSteps
  <2> QED BY <2>1, <2>2
<1>7. ASSUME NEW i \in Nat, i \in S PROVE i + 1 \in S
  <2>1. ASSUME i + 1 <= n PROVE P(i + 1)
    <3> DEFINE si == Overwritten(s, c, i, w)
    <3>1. i <= n /\ i < n /\ i + 1 \in 1..n /\ c + i \in Nat /\ c + i + 1 = c + (i + 1)
      BY <1>4, <2>1
    <3>2. Holds(a[i], c + i, si)
      BY <1>7, <3>1
    <3>3. a[i + 1] = WriteU1(a[i], X[i + 1])
      BY <1>2, <3>1, WritingSteps
    <3>4. X[i + 1] \in Nat /\ w[i + 1] = X[i + 1] % 2
      BY <1>3, <3>1
    <3> DEFINE s2 == [k \in DOMAIN si |-> IF k = c + i + 1 THEN X[i + 1] % 2 ELSE si[k]]
    <3>5. Holds(a[i + 1], c + i + 1, s2)
      <4> HIDE DEF si, S, P
      <4> QED BY <3>2, <3>3, <3>4, BitWritten
    <3>6. s2 = Overwritten(s, c, i + 1, w)
      <4>1. DOMAIN si = DOMAIN s
            /\ \A k \in DOMAIN s : si[k] = IF c < k /\ k <= c + i THEN w[k - c] ELSE s[k]
        BY DEF Overwritten
      <4> HIDE DEF si
      <4>2. \A k \in DOMAIN s : (IF k = c + i + 1 THEN X[i + 1] % 2 ELSE si[k])
                                  = IF c < k /\ k <= c + (i + 1) THEN w[k - c] ELSE s[k]
        <5> TAKE k \in DOMAIN s
        <5>1. k \in Nat
          BY <1>5
        <5>2. CASE k = c + i + 1
          <6>1. k - c = i + 1 /\ c < k /\ k <= c + (i + 1)
            BY <1>4, <5>2
          <6> QED BY <3>4, <5>2, <6>1
        <5>3. CASE k # c + i + 1
          <6>1. (c < k /\ k <= c + (i + 1)) <=> (c < k /\ k <= c + i)
            BY <1>4, <5>1, <5>3
          <6> QED BY <4>1, <5>3, <6>1
        <5> QED BY <5>2, <5>3
      <4> QED BY <4>1, <4>2 DEF Overwritten
    <3> QED BY <3>1, <3>5, <3>6
  <2> QED BY <2>1
<1>8. \A i \in Nat : i \in S
  <2> HIDE DEF S
  <2> QED BY <1>6, <1>7, Induction
<1> QED BY <1>1, <1>8 DEF w

-----------------------------------------------------------------------------
(***************************************************************************)
(* Bytes                                                                   *)
(***************************************************************************)
LEMMA ValueOfOctet ==
  ASSUME NEW X, NEW x \in Octet, \A o \in BitNo : X[o + 1] = BitOf(x, o)
  PROVE  Value(8, X) = x
<1> DEFINE B(o) == BitOf(x, o)
           V(n) == Value(n, X)
<1>1. 0 \in BitNo /\ 1 \in BitNo /\ 2 \in BitNo /\ 3 \in BitNo /\ 4 \in BitNo /\ 5 \in BitNo
      /\ 6 \in BitNo /\ 7 \in BitNo
  BY DEF BitNo
<1>2. /\ B(0) \in Int /\ B(1) \in Int /\ B(2) \in Int /\ B(3) \in Int
      /\ B(4) \in Int /\ B(5) \in Int /\ B(6) \in Int /\ B(7) \in Int
      /\ x = 128 * B(0) + 64 * B(1) + 32 * B(2) + 16 * B(3) + 8 * B(4) + 4 * B(5) + 2 * B(6) + B(7)
  <2>1. \A o \in BitNo : B(o) \in {0, 1}
    BY BitsOfOctet
  <2>2. x = 128 * B(0) + 64 * B(1) + 32 * B(2) + 16 * B(3) + 8 * B(4) + 4 * B(5) + 2 * B(6) + B(7)
    BY BitsOfOctet
  <2> HIDE DEF B
  <2>3. \A o \in BitNo : B(o) \in Int
    BY <2>1
  <2>4. B(0) \in Int /\ B(1) \in Int /\ B(2) \in Int /\ B(3) \in Int
    BY <1>1, <2>3
  <2>5. B(4) \in Int /\ B(5) \in Int /\ B(6) \in Int /\ B(7) \in Int
    BY <1>1, <2>3
  <2> QED BY <2>2, <2>4, <2>5, Zenon
<1>3. V(0) = 0 /\ \A n \in Nat : V(n + 1) = 2 * V(n) + X[n + 1]
  BY ValueSteps
<1>4. \A o \in BitNo : X[o + 1] = B(o)
  OBVIOUS
<1> HIDE DEF B, V
<1>5. /\ X[1] = B(0) /\ X[2] = B(1) /\ X[3] = B(2) /\ X[4] = B(3)
      /\ X[5] = B(4) /\ X[6] = B(5) /\ X[7] = B(6) /\ X[8] = B(7)
  BY <1>1, <1>4
<1>6. /\ V(1) = 2 * V(0) + X[1] /\ V(2) = 2 * V(1) + X[2] /\ V(3) = 2 * V(2) + X[3]
      /\ V(4) = 2 * V(3) + X[4] /\ V(5) = 2 * V(4) + X[5] /\ V(6) = 2 * V(5) + X[6]
      /\ V(7) = 2 * V(6) + X[7] /\ V(8) = 2 * V(7) + X[8]
  BY <1>3
<1>7. V(8) = x
  BY <1>2, <1>3, <1>5, <1>6
<1> QED BY <1>7 DEF V

\* A byte of the memory is the value of its eight bits.
LEMMA ByteIsValue ==
  ASSUME NEW b, NEW c, NEW s, Holds(b, c, s), NEW j \in Nat, j < Len(b.data)
  PROVE  b.data[j + 1] = Value(8, Bits(s, 8 * j, 8))
<1> DEFINE X == Bits(s, 8 * j, 8)
           n == Len(b.data)
           d == b.data
<1>1. /\ n \in Nat /\ d \in Seq(Octet)
      /\ s \in [1..(8 * n) -> {0, 1}]
      /\ \A i \in BitNo : s[8 * j + i + 1] = BitOf(d[j + 1], i)
  <2>1. \A k \in Nat, i \in BitNo : k < n => s[8 * k + i + 1] = BitOf(d[k + 1], i)
    BY DEF Holds
  <2>2. \A i \in BitNo : s[8 * j + i + 1] = BitOf(d[j + 1], i)
    BY <2>1
  <2> QED BY <2>2, StreamParts DEF Holds
<1>2. d[j + 1] \in Octet
  <2>1. j + 1 \in 1..n
    BY <1>1
  <2> QED BY <1>1, <2>1
<1>3. ASSUME NEW o \in BitNo
      PROVE  X[o + 1] = BitOf(d[j + 1], o)
  <2>1. o \in Int /\ 0 <= o /\ o < 8
    BY BitNoRange
  <2>2. o + 1 \in 1..8 /\ 8 * j + (o + 1) = 8 * j + o + 1
    BY <2>1
  <2>3. X[o + 1] = Bit(s, 8 * j + (o + 1))
    BY <2>2 DEF Bits
  <2> HIDE DEF n, d
  <2>4. 8 * j + o + 1 \in 1..(8 * n)
    BY <1>1, <2>1 DEF n
  <2>5. Bit(s, 8 * j + o + 1) = s[8 * j + o + 1]
    BY <1>1, <2>4 DEF Bit
  <2> QED BY <1>1, <2>2, <2>3, <2>5
<1> HIDE DEF X
<1> QED BY <1>2, <1>3, ValueOfOctet DEF X

\* bs_read_u8, on both of its paths (bitstream.h:164-175).
LEMMA Read8IsValue ==
  ASSUME NEW b, NEW c, NEW s, Holds(b, c, s)
  PROVE  /\ ReadU8(b).r = Value(8, Bits(s, c, 8))
         /\ Holds(ReadU8(b).b, c + 8, s)
<1>1. b \in Streams /\ At(b) = c /\ c \in Nat
  BY StreamParts DEF Holds
<1>2. CASE ByteAligned(b) /\ ~Eof(b)
  <2> DEFINE p == b.p
             b2 == [b EXCEPT !.p = @ + 1]
  <2>1. p \in Nat /\ b.bits_left = 8 /\ p < Len(b.data) /\ c = 8 * p
    BY <1>1, <1>2, StreamParts DEF ByteAligned, Eof
  <2>2. ReadU8(b).b = b2 /\ ReadU8(b).r = b.data[p + 1]
    BY <1>2 DEF ReadU8
  <2>3. b.data[p + 1] = Value(8, Bits(s, c, 8))
    <3> HIDE DEF p
    <3>1. b.data[p + 1] = Value(8, Bits(s, 8 * p, 8))
      BY <2>1, ByteIsValue
    <3> QED BY <2>1, <3>1
  <2>4. b2 \in Streams /\ b2.data = b.data /\ b2.p = p + 1 /\ b2.bits_left = 8
    BY <1>1, <2>1 DEF Streams
  <2>5. At(b2) = c + 8
    BY <2>1, <2>4 DEF At
  <2> HIDE DEF b2, p
  <2> QED BY <2>2, <2>3, <2>4, <2>5, MovedHolds
<1>3. CASE ~ (ByteAligned(b) /\ ~Eof(b))
  <2>1. ReadU8(b) = ReadU(b, 8)
    BY <1>3 DEF ReadU8
  <2>2. ReadU(b, 8).b = SkipU(b, 8) /\ ReadU(b, 8).r = Value(8, Bits(s, c, 8))
    BY ReadIsValue
  <2>3. SkipU(b, 8) \in Streams /\ SkipU(b, 8).data = b.data /\ At(SkipU(b, 8)) = c + 8
    <3>1. AtLeast0(8) = 8
      BY DEF AtLeast0
    <3> QED BY <1>1, <3>1, SkipMoves
  <2> QED BY <2>1, <2>2, <2>3, MovedHolds
<1> QED BY <1>2, <1>3

\* w are the bits of the first m bytes of y.
AreBitsOf(w, y, m) ==
  \A q \in Nat : q < m =>
    y[q + 1] \in Octet /\ \A i \in BitNo : w[8 * q + i + 1] = BitOf(y[q + 1], i)

\* The memory of b2 is that of b with the first m bytes of y from byte p on.
Stores(b2, b, p, m, y) ==
  /\ Len(b2.data) = Len(b.data)
  /\ \A j \in Nat : j < Len(b.data) =>
       b2.data[j + 1] = IF p <= j /\ j < p + m THEN y[j - p + 1] ELSE b.data[j + 1]

\* Storing whole bytes writes their bits.
LEMMA BytesStored ==
  ASSUME NEW b, NEW c, NEW s, Holds(b, c, s), NEW p \in Nat, c = 8 * p, NEW m \in Nat, NEW y, NEW w,
         AreBitsOf(w, y, m), NEW b2 \in Streams, Stores(b2, b, p, m, y)
  PROVE  Holds(b2, At(b2), Overwritten(s, c, 8 * m, w))
<1>a. \A q \in Nat : q < m => y[q + 1] \in Octet
  BY DEF AreBitsOf
<1>b. \A q \in Nat, i \in BitNo : q < m => w[8 * q + i + 1] = BitOf(y[q + 1], i)
  BY DEF AreBitsOf
<1>c. /\ Len(b2.data) = Len(b.data)
      /\ \A j \in Nat : j < Len(b.data) =>
            b2.data[j + 1] = IF p <= j /\ j < p + m THEN y[j - p + 1] ELSE b.data[j + 1]
  BY DEF Stores
<1> DEFINE n == Len(b.data)
           s2 == Overwritten(s, c, 8 * m, w)
<1>1. /\ n \in Nat /\ b.data \in Seq(Octet) /\ s \in [1..(8 * n) -> {0, 1}]
      /\ \A j \in Nat, i \in BitNo : j < n => s[8 * j + i + 1] = BitOf(b.data[j + 1], i)
  BY StreamParts DEF Holds
<1>2. DOMAIN s = 1..(8 * n) /\ s2 = [k \in 1..(8 * n) |-> IF c < k /\ k <= c + 8 * m THEN w[k - c] ELSE s[k]]
  BY <1>1 DEF Overwritten
<1> HIDE DEF n, s2
<1>3. \A k \in 1..(8 * n) : s2[k] = IF c < k /\ k <= c + 8 * m THEN w[k - c] ELSE s[k]
  BY <1>2
<1>4. ASSUME NEW k \in 1..(8 * n), c < k, k <= c + 8 * m
      PROVE  w[k - c] \in {0, 1}
  <2> DEFINE l == k - c - 1
             q == l \div 8
             i == l % 8
  <2>1. l \in Nat /\ l < 8 * m
    BY <1>1, <1>4
  <2> HIDE DEF l
  <2>2. q \in Nat /\ q < m /\ i \in Int /\ 0 <= i /\ i < 8 /\ l = 8 * q + i
    BY <2>1
  <2> HIDE DEF q, i
  <2>3. k - c = 8 * q + i + 1 /\ i \in BitNo
    BY <1>1, <1>4, <2>2, BitNoRange DEF l
  <2>4. w[8 * q + i + 1] = BitOf(y[q + 1], i) /\ y[q + 1] \in Octet
    BY <1>a, <1>b, <2>2, <2>3
  <2> QED BY <2>3, <2>4, BitsOfOctet
<1>5. s2 \in [1..(8 * n) -> {0, 1}]
  <2>1. \A k \in 1..(8 * n) : s2[k] \in {0, 1}
    BY <1>1, <1>3, <1>4
  <2> QED BY <1>2, <2>1
<1>6. ASSUME NEW j \in Nat, NEW i \in BitNo, j < n
      PROVE  s2[8 * j + i + 1] = BitOf(b2.data[j + 1], i)
  <2> DEFINE k == 8 * j + i + 1
             q == j - p
  <2>1. i \in Int /\ 0 <= i /\ i < 8
    BY BitNoRange
  <2>2. k \in 1..(8 * n)
    BY <1>1, <1>6, <2>1
  <2>3. s[k] = BitOf(b.data[j + 1], i)
    BY <1>1, <1>6, Zenon
  <2>4. b2.data[j + 1] = IF p <= j /\ j < p + m THEN y[q + 1] ELSE b.data[j + 1]
    BY <1>c, <1>6 DEF n
  <2>5. (c < k /\ k <= c + 8 * m) <=> (p <= j /\ j < p + m)
    BY <2>1
  <2>6. k - c = 8 * q + i + 1
    BY <2>1
  <2>7. p <= j /\ j < p + m => q \in Nat /\ q < m
    OBVIOUS
  <2> HIDE DEF k, q
  <2>8. ASSUME p <= j /\ j < p + m PROVE s2[k] = BitOf(b2.data[j + 1], i)
    BY <1>b, <1>3, <2>2, <2>4, <2>5, <2>6, <2>7, <2>8
  <2>9. ASSUME ~ (p <= j /\ j < p + m) PROVE s2[k] = BitOf(b2.data[j + 1], i)
    BY <1>3, <2>2, <2>3, <2>4, <2>5, <2>9
  <2> QED BY <2>8, <2>9 DEF k
<1> QED BY <1>c, <1>5, <1>6 DEF Holds, n, s2

LEMMA ShrOfLowByte ==
  ASSUME NEW v \in Nat, NEW o \in BitNo
  PROVE  Shr(v, 7 - o) % 2 = BitOf(v % 256, o)
<1>1. o = 0 \/ o = 1 \/ o = 2 \/ o = 3 \/ o = 4 \/ o = 5 \/ o = 6 \/ o = 7
  BY DEF BitNo
<1> DEFINE q == v \div 256
           r == v % 256
<1>10. q \in Nat /\ r \in Nat /\ r < 256 /\ v = 256 * q + r
  OBVIOUS
<1> HIDE DEF q, r
<1>2. CASE o = 0
  <2>1. (r \div 128) % 2 = (v \div 128) % 2
    BY <1>10
  <2>2. BitOf(v % 256, 0) = (r \div 128) % 2
    BY DEF BitOf, r
  <2>3. Shr(v, 7 - 0) = v \div 128
    BY DEF Shr
  <2> QED BY <1>2, <2>1, <2>2, <2>3
<1>3. CASE o = 1
  <2>1. (r \div 64) % 2 = (v \div 64) % 2
    BY <1>10
  <2>2. BitOf(v % 256, 1) = (r \div 64) % 2
    BY DEF BitOf, r
  <2>3. Shr(v, 7 - 1) = v \div 64
    BY DEF Shr
  <2> QED BY <1>3, <2>1, <2>2, <2>3
<1>4. CASE o = 2
  <2>1. (r \div 32) % 2 = (v \div 32) % 2
    BY <1>10
  <2>2. BitOf(v % 256, 2) = (r \div 32) % 2
    BY DEF BitOf, r
  <2>3. Shr(v, 7 - 2) = v \div 32
    BY DEF Shr
  <2> QED BY <1>4, <2>1, <2>2, <2>3
<1>5. CASE o = 3
  <2>1. (r \div 16) % 2 = (v \div 16) % 2
    BY <1>10
  <2>2. BitOf(v % 256, 3) = (r \div 16) % 2
    BY DEF BitOf, r
  <2>3. Shr(v, 7 - 3) = v \div 16
    BY DEF Shr
  <2> QED BY <1>5, <2>1, <2>2, <2>3
<1>6. CASE o = 4
  <2>1. (r \div 8) % 2 = (v \div 8) % 2
    BY <1>10
  <2>2. BitOf(v % 256, 4) = (r \div 8) % 2
    BY DEF BitOf, r
  <2>3. Shr(v, 7 - 4) = v \div 8
    BY DEF Shr
  <2> QED BY <1>6, <2>1, <2>2, <2>3
<1>7. CASE o = 5
  <2>1. (r \div 4) % 2 = (v \div 4) % 2
    BY <1>10
  <2>2. BitOf(v % 256, 5) = (r \div 4) % 2
    BY DEF BitOf, r
  <2>3. Shr(v, 7 - 5) = v \div 4
    BY DEF Shr
  <2> QED BY <1>7, <2>1, <2>2, <2>3
<1>8. CASE o = 6
  <2>1. (r \div 2) % 2 = (v \div 2) % 2
    BY <1>10
  <2>2. BitOf(v % 256, 6) = (r \div 2) % 2
    BY DEF BitOf, r
  <2>3. Shr(v, 7 - 6) = v \div 2
    BY DEF Shr
  <2> QED BY <1>8, <2>1, <2>2, <2>3
<1>9. CASE o = 7
  <2>1. (r \div 1) % 2 = (v \div 1) % 2
    BY <1>10
  <2>2. BitOf(v % 256, 7) = (r \div 1) % 2
    BY DEF BitOf, r
  <2>3. Shr(v, 7 - 7) = v \div 1
    BY DEF Shr
  <2> QED BY <1>9, <2>1, <2>2, <2>3
<1> QED BY <1>1, <1>2, <1>3, <1>4, <1>5, <1>6, <1>7, <1>8, <1>9

\* The bits of a value's low byte.
LEMMA BitsOfLowByte ==
  ASSUME NEW v \in Nat
  PROVE  /\ v % 256 \in Octet
         /\ \A o \in BitNo : BitsOf(v, 8)[o + 1] = BitOf(v % 256, o)
<1>1. v % 256 \in Octet
  BY OctetRange
<1>2. ASSUME NEW o \in BitNo
      PROVE  BitsOf(v, 8)[o + 1] = Shr(v, 7 - o) % 2
  <2>1. o + 1 \in 1..8 /\ 8 - (o + 1) = 7 - o
    BY BitNoRange
  <2> QED BY <2>1 DEF BitsOf
<1>3. ASSUME NEW o \in BitNo
      PROVE  Shr(v, 7 - o) % 2 = BitOf(v % 256, o)
  BY ShrOfLowByte
<1> QED BY <1>1, <1>2, <1>3

\* bs_write_u8, on both of its paths (bitstream.h:238-249).
LEMMA OctetWritten ==
  ASSUME NEW b, NEW c, NEW s, Holds(b, c, s), NEW v \in Nat
  PROVE  Holds(WriteU8(b, v), c + 8, Overwritten(s, c, 8, BitsOf(v, 8)))
<1>1. b \in Streams /\ At(b) = c /\ c \in Nat
  BY StreamParts DEF Holds
<1>2. CASE ByteAligned(b) /\ ~Eof(b)
  <2> DEFINE p == b.p
             x == v % 256
             d2 == [b.data EXCEPT ![p + 1] = x]
             b2 == [b EXCEPT !.data = d2, !.p = p + 1]
             y == <<x>>
             w == BitsOf(v, 8)
  <2>1. /\ p \in Nat /\ b.bits_left = 8 /\ p < Len(b.data) /\ c = 8 * p
        /\ b.data \in Seq(Octet) /\ Len(b.data) \in Nat
    <3>1. p \in Nat /\ At(b) = 8 * p + 8 - b.bits_left /\ Len(b.data) \in Nat
          /\ b.data \in Seq(Octet)
      BY <1>1, StreamParts
    <3>2. b.bits_left = 8 /\ ~ (p >= Len(b.data))
      BY <1>2 DEF ByteAligned, Eof
    <3> HIDE DEF p
    <3> QED BY <1>1, <3>1, <3>2
  <2>2. WriteU8(b, v) = b2
    BY <1>2 DEF WriteU8
  <2>3. x \in Octet /\ \A o \in BitNo : w[o + 1] = BitOf(x, o)
    BY BitsOfLowByte
  <2> HIDE DEF x, w
  <2>4. d2 \in Seq(Octet) /\ Len(d2) = Len(b.data)
        /\ \A j \in Nat : j < Len(b.data) => d2[j + 1] = IF j = p THEN x ELSE b.data[j + 1]
    BY <2>1, <2>3
  <2> HIDE DEF d2
  <2>5. b2 \in Streams /\ b2.data = d2 /\ b2.p = p + 1 /\ b2.bits_left = 8
    <3>1. p + 1 \in Nat
      BY <2>1
    <3> HIDE DEF p
    <3>2. /\ b2 \in Streams /\ b2.data = d2 /\ b2.p = p + 1 /\ b2.bits_left = b.bits_left
      <4> DEFINE k == p + 1
      <4>1. b \in Streams /\ d2 \in Seq(Octet) /\ k \in Nat
        BY <1>1, <2>4, <3>1
      <4> HIDE DEF k
      <4>2. b2 = [b EXCEPT !.data = d2, !.p = k]
        BY DEF k
      <4> HIDE DEF b2
      <4>3. b2 \in Streams /\ b2.data = d2 /\ b2.p = k /\ b2.bits_left = b.bits_left
        BY <4>1, <4>2 DEF Streams
      <4> QED BY <4>3 DEF k
    <3> HIDE DEF b2
    <3> QED BY <2>1, <3>2
  <2>6. At(b2) = c + 8
    BY <2>1, <2>5 DEF At
  <2>7. y[1] = x
    OBVIOUS
  <2> HIDE DEF b2, y, p
  <2> DEFINE m == 1
  <2>8. m = 1
    OBVIOUS
  <2> HIDE DEF m
  <2>9. \A q \in Nat : q < m => q = 0
    BY <2>8
  <2>10. AreBitsOf(w, y, m)
    <3> SUFFICES ASSUME NEW q \in Nat, q < m
                 PROVE  y[q + 1] \in Octet /\ \A i \in BitNo : w[8 * q + i + 1] = BitOf(y[q + 1], i)
      BY DEF AreBitsOf
    <3>1. q = 0 /\ q + 1 = 1
      BY <2>9
    <3>2. ASSUME NEW i \in BitNo PROVE 8 * q + i + 1 = i + 1
      BY <3>1, BitNoRange
    <3> QED BY <2>3, <2>7, <3>1, <3>2
  <2>11. m \in Nat /\ 8 * m = 8
    BY <2>8
  <2>12. Stores(b2, b, p, m, y)
    <3>1. ASSUME NEW j \in Nat, j < Len(b.data)
          PROVE  b2.data[j + 1] = IF p <= j /\ j < p + m THEN y[j - p + 1] ELSE b.data[j + 1]
      <4>1. (p <= j /\ j < p + m) <=> j = p
        BY <2>1, <2>8
      <4>2. j = p => j - p + 1 = 1
        BY <2>1
      <4> QED BY <2>4, <2>5, <2>7, <3>1, <4>1, <4>2
    <3> QED BY <2>4, <2>5, <3>1 DEF Stores
  <2>13. p \in Nat /\ c = 8 * p
    BY <2>1
  <2>14. Holds(b2, At(b2), Overwritten(s, c, 8 * m, w))
    BY <2>5, <2>10, <2>11, <2>12, <2>13, BytesStored
  <2> QED BY <2>2, <2>6, <2>11, <2>14 DEF w
<1>3. CASE ~ (ByteAligned(b) /\ ~Eof(b))
  <2>1. WriteU8(b, v) = WriteU(b, 8, v, FALSE)
    BY <1>3 DEF WriteU8
  <2>2. Shifted(v, 8, FALSE) = BitsOf(v, 8)
    <3>1. 8 \in Nat /\ 8 <= 32 /\ FALSE \in BOOLEAN
      OBVIOUS
    <3> QED BY <3>1, ShortShifted
  <2>3. Holds(WriteU(b, 8, v, FALSE), c + 8, Overwritten(s, c, 8, Shifted(v, 8, FALSE)))
    BY BitsWritten
  <2> QED BY <2>1, <2>2, <2>3
<1> QED BY <1>2, <1>3

\* bs_write_bytes stores from the byte the cursor is in, as many as there is room for
\* (bitstream.h:331-340).
LEMMA BytesWritten ==
  ASSUME NEW b, NEW c, NEW s, Holds(b, c, s), ByteAligned(b), NEW y \in Seq(Octet), NEW w,
         AreBitsOf(w, y, Len(y))
  PROVE  Holds(WriteBytes(b, y), c + 8 * Len(y), Overwritten(s, c, 8 * Len(y), w))
<1> DEFINE p == b.p
           m == Len(y)
           d == b.data
           n == Len(d)
           a == ActualLen(b, m)
           d2 == [i \in DOMAIN d |-> IF i \in (p + 1)..(p + a) THEN y[i - p] ELSE d[i]]
           b2 == WriteBytes(b, y)
<1>1. /\ b \in Streams /\ p \in Nat /\ m \in Nat /\ n \in Nat /\ d \in Seq(Octet)
      /\ c = 8 * p
  <2>1. p \in Nat /\ b \in Streams /\ At(b) = c /\ At(b) = 8 * p + 8 - b.bits_left
        /\ n \in Nat /\ d \in Seq(Octet)
    BY StreamParts DEF Holds
  <2>2. b.bits_left = 8 /\ m \in Nat
    BY DEF ByteAligned
  <2> HIDE DEF p, m, n, d
  <2> QED BY <2>1, <2>2
<1>2. a = AtLeast0(IF n - p < m THEN n - p ELSE m)
  BY DEF ActualLen, BytesLeft
<1>3. DOMAIN d = 1..n /\ DOMAIN y = 1..m
  BY <1>1
<1>4. b2 = [b EXCEPT !.p = p + AtLeast0(m), !.data = d2]
  BY DEF WriteBytes, SkipBytes
<1> HIDE DEF p, m, d, n, a
<1>5. a \in Nat /\ a <= m /\ \A j \in Nat : j < n /\ j < p + m => j < p + a
  BY <1>1, <1>2 DEF AtLeast0
<1>6. \A j \in Nat : j < n => d2[j + 1] = IF p <= j /\ j < p + m THEN y[j - p + 1] ELSE d[j + 1]
  <2> TAKE j \in Nat
  <2>1. ASSUME j < n
        PROVE  j + 1 \in 1..n /\ (j + 1 \in (p + 1)..(p + a) <=> p <= j /\ j < p + m)
               /\ (j + 1) - p = j - p + 1
    <3>1. p \in Int /\ n \in Int /\ m \in Int /\ a \in Int /\ a <= m
      BY <1>1, <1>5
    <3>2. j < p + m => j < p + a
      BY <1>5, <2>1
    <3>3. j + 1 \in 1..n /\ (j + 1) - p = j - p + 1
      BY <2>1, <3>1
    <3>4. j + 1 \in (p + 1)..(p + a) <=> p <= j /\ j < p + m
      BY <3>1, <3>2
    <3> QED BY <3>3, <3>4
  <2>2. \A i \in 1..n : d2[i] = IF i \in (p + 1)..(p + a) THEN y[i - p] ELSE d[i]
    BY <1>3
  <2> HIDE DEF d2
  <2>3. ASSUME j < n
        PROVE  d2[j + 1] = IF j + 1 \in (p + 1)..(p + a) THEN y[(j + 1) - p] ELSE d[j + 1]
    BY <2>1, <2>2, <2>3
  <2> QED BY <2>1, <2>3
<1>7. d2 \in Seq(Octet) /\ Len(d2) = n
  <2>1. \A i \in 1..n : d2[i] \in Octet
    <3> TAKE i \in 1..n
    <3>1. d[i] \in Octet
      BY <1>1, <1>3 DEF n
    <3>2. i \in (p + 1)..(p + a) => i - p \in 1..m
      BY <1>1, <1>5
    <3>3. i - p \in 1..m => y[i - p] \in Octet
      BY <1>3 DEF m
    <3> QED BY <1>3, <3>1, <3>2, <3>3
  <2>2. d2 = [i \in 1..n |-> d2[i]]
    BY <1>3
  <2> HIDE DEF d2
  <2> QED BY <1>1, <2>1, <2>2
<1> HIDE DEF d2
<1>8. b2 \in Streams /\ b2.data = d2 /\ b2.p = p + m /\ b2.bits_left = b.bits_left
  <2> DEFINE k == p + AtLeast0(m)
  <2>1. k \in Nat /\ k = p + m
    BY <1>1 DEF AtLeast0
  <2> HIDE DEF k
  <2>2. b2 = [b EXCEPT !.p = k, !.data = d2]
    BY <1>4 DEF k
  <2> HIDE DEF b2
  <2>3. b2 \in Streams /\ b2.data = d2 /\ b2.p = k /\ b2.bits_left = b.bits_left
    BY <1>1, <1>7, <2>1, <2>2 DEF Streams
  <2> QED BY <2>1, <2>3 DEF b2
<1> HIDE DEF b2
<1>9. At(b2) = c + 8 * m
  BY <1>1, <1>8 DEF At, ByteAligned
<1>10. Stores(b2, b, p, m, y)
  BY <1>6, <1>7, <1>8 DEF Stores, n, d
<1>11. AreBitsOf(w, y, m)
  BY DEF m
<1>12. Holds(b2, At(b2), Overwritten(s, c, 8 * m, w))
  BY <1>1, <1>8, <1>10, <1>11, BytesStored
<1> QED BY <1>9, <1>12 DEF b2, m

-----------------------------------------------------------------------------
(***************************************************************************)
(* Exponential Golomb codes                                                *)
(***************************************************************************)
LEMMA PowersAdd ==
  ASSUME NEW k \in Nat, NEW m, m = 2^k, m \in Nat
  PROVE  \A d \in Nat : k + d <= 30 => 2^(k + d) = m * 2^d
<1> DEFINE S == {d \in Nat : k + d <= 30 => 2^(k + d) = m * 2^d}
<1>1. 0 \in S
  <2>1. k + 0 = k /\ 2^0 = 1
    OBVIOUS
  <2>2. 2^(k + 0) = m * 2^0
    BY <2>1
  <2> QED BY <2>2
<1>2. ASSUME NEW d \in Nat, d \in S PROVE d + 1 \in S
  <2>1. ASSUME k + (d + 1) <= 30 PROVE 2^(k + (d + 1)) = m * 2^(d + 1)
    <3>1. k + d <= 30 /\ k + d < 30 /\ d < 30 /\ d <= 30 /\ k + d \in Nat /\ k + (d + 1) = (k + d) + 1
      BY <2>1
    <3>2. 2^(k + d) = m * 2^d
      BY <1>2, <3>1
    <3>3. 2^((k + d) + 1) = 2 * 2^(k + d)
      BY <3>1, PowerSteps
    <3>4. 2^(d + 1) = 2 * 2^d /\ 2^d \in Nat
      BY <3>1, PowerSteps, PowersOf2
    <3> DEFINE x == 2^d
    <3>5. 2^(k + (d + 1)) = 2 * (m * x) /\ 2^(d + 1) = 2 * x /\ x \in Nat
      BY <3>1, <3>2, <3>3, <3>4
    <3> HIDE DEF x
    <3>6. 2 * (m * x) = m * (2 * x)
      BY <3>5
    <3> QED BY <3>5, <3>6
  <2> QED BY <2>1
<1>3. \A d \in Nat : d \in S
  <2> HIDE DEF S
  <2> QED BY <1>1, <1>2, Induction
<1> QED BY <1>3

LEMMA PowersGrow ==
  ASSUME NEW k \in Nat, NEW l \in Nat, k <= l, l <= 30
  PROVE  2^k <= 2^l
<1> DEFINE d == l - k
           m == 2^k
           x == 2^d
<1>1. d \in Nat /\ k + d = l /\ d <= 30 /\ k <= 30
  OBVIOUS
<1>2. m \in Nat /\ x \in Nat /\ x > 0
  BY <1>1, PowersOf2
<1>3. 2^l = m * x
  BY <1>1, <1>2, PowersAdd
<1> HIDE DEF m, x
<1>4. m <= m * x
  BY <1>2
<1> QED BY <1>3, <1>4 DEF m

\* The number of bits of w.
IsLen(n, w) == n \in Nat /\ 1 <= n /\ n <= 30 /\ 2^(n - 1) <= w /\ w < 2^n

LEMMA LenUnique ==
  ASSUME NEW w \in Nat, NEW m, NEW n, IsLen(m, w), IsLen(n, w)
  PROVE  m = n
<1>1. /\ m \in Nat /\ n \in Nat /\ m - 1 \in Nat /\ n - 1 \in Nat /\ m <= 30 /\ n <= 30
      /\ m - 1 <= 30 /\ n - 1 <= 30
  BY DEF IsLen
<1>2. 2^(m - 1) <= w /\ w < 2^m /\ 2^(n - 1) <= w /\ w < 2^n
  BY DEF IsLen
<1>3. 2^m \in Nat /\ 2^n \in Nat /\ 2^(m - 1) \in Nat /\ 2^(n - 1) \in Nat
  BY <1>1, PowersOf2
<1>4. m < n => 2^m <= 2^(n - 1)
  BY <1>1, PowersGrow
<1>5. n < m => 2^n <= 2^(m - 1)
  BY <1>1, PowersGrow
<1> DEFINE a == 2^m
           a1 == 2^(m - 1)
           e == 2^n
           e1 == 2^(n - 1)
<1>6. /\ a1 <= w /\ w < a /\ e1 <= w /\ w < e
      /\ a \in Nat /\ e \in Nat /\ a1 \in Nat /\ e1 \in Nat
      /\ (m < n => a <= e1) /\ (n < m => e <= a1)
  BY <1>2, <1>3, <1>4, <1>5
<1> HIDE DEF a, a1, e, e1
<1>7. ~ (m < n) /\ ~ (n < m)
  BY <1>6
<1> QED BY <1>1, <1>7

\* len_table (bitstream.h:253-272).
LEMMA LenOfByte ==
  ASSUME NEW x \in Int, 1 <= x, x < 256
  PROVE  LenTable(x) \in 1..8 /\ 2^(LenTable(x) - 1) <= x /\ x < 2^LenTable(x)
<1> DEFINE P(n) == x < 2^n /\ (n > 1 => x >= 2^(n - 1))
           n == LenTable(x)
<1>a. /\ 2^1 = 2 /\ 2^2 = 4 /\ 2^3 = 8 /\ 2^4 = 16 /\ 2^5 = 32 /\ 2^6 = 64 /\ 2^7 = 128 /\ 2^8 = 256
  OBVIOUS
<1>1. ASSUME 1 <= x, x < 2 PROVE P(1)
  BY <1>1, <1>a
<1>2. ASSUME 2 <= x, x < 4 PROVE P(2)
  BY <1>2, <1>a
<1>3. ASSUME 4 <= x, x < 8 PROVE P(3)
  BY <1>3, <1>a
<1>4. ASSUME 8 <= x, x < 16 PROVE P(4)
  BY <1>4, <1>a
<1>5. ASSUME 16 <= x, x < 32 PROVE P(5)
  BY <1>5, <1>a
<1>6. ASSUME 32 <= x, x < 64 PROVE P(6)
  BY <1>6, <1>a
<1>7. ASSUME 64 <= x, x < 128 PROVE P(7)
  BY <1>7, <1>a
<1>8. ASSUME 128 <= x, x < 256 PROVE P(8)
  BY <1>8, <1>a
<1>9. \E k \in 1..8 : P(k)
  <2>1. 1 \in 1..8 /\ 2 \in 1..8 /\ 3 \in 1..8 /\ 4 \in 1..8 /\ 5 \in 1..8 /\ 6 \in 1..8
        /\ 7 \in 1..8 /\ 8 \in 1..8
    OBVIOUS
  <2>2. P(1) \/ P(2) \/ P(3) \/ P(4) \/ P(5) \/ P(6) \/ P(7) \/ P(8)
    <3> HIDE DEF P
    <3> QED BY <1>1, <1>2, <1>3, <1>4, <1>5, <1>6, <1>7, <1>8
  <2> HIDE DEF P
  <2> QED BY <2>1, <2>2, Zenon
<1>10. n \in 1..8 /\ P(n)
  <2>1. n = CHOOSE k \in 1..8 : P(k)
    BY SMT DEF LenTable
  <2> HIDE DEF P, n
  <2> QED BY <1>9, <2>1, SMT
<1>11. n = 1 => 2^(n - 1) <= x
  <2>1. 2^(1 - 1) = 1
    OBVIOUS
  <2> HIDE DEF n
  <2> QED BY <2>1
<1> HIDE DEF n
<1>12. n > 1 => 2^(n - 1) <= x
  <2>1. n > 1 => x >= 2^(n - 1)
    BY <1>10
  <2>2. 2^(n - 1) \in Nat
    BY <1>10, PowersOf2
  <2> DEFINE m == 2^(n - 1)
  <2> HIDE DEF m
  <2>3. n > 1 => m <= x
    BY <2>1, <2>2 DEF m
  <2> QED BY <2>3 DEF m
<1>13. n = 1 \/ n > 1
  BY <1>10
<1> QED BY <1>10, <1>11, <1>12, <1>13 DEF n

\* A number and its quotient by a power of 2.
LEMMA LenShifted ==
  ASSUME NEW w \in Nat, NEW k \in Nat, NEW m \in Nat, m = 2^k, m > 0, NEW x \in Nat,
         m * x <= w, w < m * (x + 1),
         NEW n \in 1..8, 2^(n - 1) <= x, x < 2^n, k + n <= 30
  PROVE  IsLen(k + n, w)
<1>1. n \in Nat /\ n - 1 \in Nat /\ n <= 30 /\ n - 1 <= 30 /\ k + (n - 1) = (k + n) - 1
      /\ k + (n - 1) <= 30
  OBVIOUS
<1> DEFINE a == 2^(n - 1)
           e == 2^n
<1>2. a \in Nat /\ e \in Nat /\ a <= x /\ x < e
  BY <1>1, PowersOf2
<1>3. 2^(k + (n - 1)) = m * a /\ 2^(k + n) = m * e
  BY <1>1, PowersAdd
<1> HIDE DEF a, e
<1>4. m * a <= m * x
  BY <1>2
<1>5. m * (x + 1) <= m * e
  BY <1>2
<1>6. m * a \in Nat /\ m * x \in Nat /\ m * (x + 1) \in Nat /\ m * e \in Nat
  BY <1>2
<1> DEFINE q1 == m * a
           q2 == m * x
           q3 == m * (x + 1)
           q4 == m * e
<1>7. q1 <= q2 /\ q3 <= q4 /\ q2 <= w /\ w < q3 /\ q1 \in Nat /\ q2 \in Nat /\ q3 \in Nat /\ q4 \in Nat
  BY <1>4, <1>5, <1>6
<1> HIDE DEF q1, q2, q3, q4
<1>8. q1 <= w /\ w < q4
  BY <1>7
<1>9. 2^((k + n) - 1) = q1 /\ 2^(k + n) = q4
  BY <1>1, <1>3 DEF q1, q4
<1> QED BY <1>1, <1>8, <1>9 DEF IsLen

\* The length bs_write_ue finds (bitstream.h:283-302).
CodeLen(w) ==
  IF w >= 16777216 THEN 24 + LenTable(w \div 16777216)
  ELSE IF w >= 65536 THEN 16 + LenTable(w \div 65536)
  ELSE IF w >= 256 THEN 8 + LenTable(w \div 256)
  ELSE LenTable(w)

LEMMA CodeLenIsLen ==
  ASSUME NEW w \in Nat, 1 <= w, w < 2^30
  PROVE  IsLen(CodeLen(w), w)
<1>0. w < 1073741824 /\ 2^24 = 16777216 /\ 2^16 = 65536 /\ 2^8 = 256 /\ 2^0 = 1 /\ 2^6 = 64
  BY SMT
<1>1. CASE w >= 16777216
  <2> DEFINE x == w \div 16777216
             n == LenTable(x)
  <2>1. x \in Nat /\ 1 <= x /\ x < 64 /\ 16777216 * x <= w /\ w < 16777216 * (x + 1)
    BY <1>0, <1>1, SMT
  <2>2. CodeLen(w) = 24 + n
    BY <1>1, SMT DEF CodeLen
  <2> HIDE DEF x
  <2>3. n \in 1..8 /\ 2^(n - 1) <= x /\ x < 2^n
    BY <2>1, LenOfByte, SMT
  <2>4. 24 + n <= 30
    <3> HIDE DEF n
    <3>1. ASSUME n >= 7 PROVE FALSE
      <4> DEFINE m == 2^(n - 1)
                 l == n - 1
      <4>1. l \in Nat /\ 6 <= l /\ l <= 30
        BY <2>3, <3>1, SMT
      <4>2. 2^6 <= 2^l /\ 2^l \in Nat
        <5> HIDE DEF l
        <5> DEFINE j == 6
        <5>1. j \in Nat /\ j <= l
          BY <4>1, SMT
        <5> HIDE DEF j
        <5>2. 2^j <= 2^l
          BY <4>1, <5>1, PowersGrow
        <5>3. 2^l \in Nat
          BY <4>1, PowersOf2
        <5> QED BY <5>2, <5>3 DEF j
      <4>3. m <= x /\ 64 <= m /\ m \in Nat
        BY <1>0, <2>3, <4>2, SMT
      <4> HIDE DEF m
      <4> QED BY <2>1, <4>3, SMT
    <3> QED BY <2>3, <3>1, SMT
  <2> HIDE DEF n
  <2> DEFINE k == 24
             m == 16777216
  <2>5. /\ k \in Nat /\ m \in Nat /\ m = 2^k /\ m > 0 /\ m * x <= w /\ w < m * (x + 1)
        /\ k + n <= 30 /\ CodeLen(w) = k + n
    BY <1>0, <2>1, <2>2, <2>4, SMT
  <2> HIDE DEF k, m
  <2>6. IsLen(k + n, w)
    <3>1. x \in Nat
      BY <2>1, SMT
    <3> QED BY <2>3, <2>5, <3>1, LenShifted, Zenon
  <2> QED BY <2>5, <2>6, Zenon
<1>2. CASE ~ (w >= 16777216) /\ w >= 65536
  <2> DEFINE x == w \div 65536
             n == LenTable(x)
  <2>1. x \in Nat /\ 1 <= x /\ x < 256 /\ 65536 * x <= w /\ w < 65536 * (x + 1)
    BY <1>2, SMT
  <2>2. CodeLen(w) = 16 + n
    BY <1>2, SMT DEF CodeLen
  <2> HIDE DEF x
  <2>3. n \in 1..8 /\ 2^(n - 1) <= x /\ x < 2^n
    BY <2>1, LenOfByte, SMT
  <2> HIDE DEF n
  <2>4. 16 + n <= 30
    BY <2>3, SMT
  <2> DEFINE k == 16
             m == 65536
  <2>5. /\ k \in Nat /\ m \in Nat /\ m = 2^k /\ m > 0 /\ m * x <= w /\ w < m * (x + 1)
        /\ k + n <= 30 /\ CodeLen(w) = k + n
    BY <1>0, <2>1, <2>2, <2>4, SMT
  <2> HIDE DEF k, m
  <2>6. IsLen(k + n, w)
    <3>1. x \in Nat
      BY <2>1, SMT
    <3> QED BY <2>3, <2>5, <3>1, LenShifted, Zenon
  <2> QED BY <2>5, <2>6, Zenon
<1>3. CASE ~ (w >= 65536) /\ w >= 256
  <2> DEFINE x == w \div 256
             n == LenTable(x)
  <2>1. x \in Nat /\ 1 <= x /\ x < 256 /\ 256 * x <= w /\ w < 256 * (x + 1)
    BY <1>3, SMT
  <2>2. CodeLen(w) = 8 + n
    BY <1>3, SMT DEF CodeLen
  <2> HIDE DEF x
  <2>3. n \in 1..8 /\ 2^(n - 1) <= x /\ x < 2^n
    BY <2>1, LenOfByte, SMT
  <2> HIDE DEF n
  <2>4. 8 + n <= 30
    BY <2>3, SMT
  <2> DEFINE k == 8
             m == 256
  <2>5. /\ k \in Nat /\ m \in Nat /\ m = 2^k /\ m > 0 /\ m * x <= w /\ w < m * (x + 1)
        /\ k + n <= 30 /\ CodeLen(w) = k + n
    BY <1>0, <2>1, <2>2, <2>4, SMT
  <2> HIDE DEF k, m
  <2>6. IsLen(k + n, w)
    <3>1. x \in Nat
      BY <2>1, SMT
    <3> QED BY <2>3, <2>5, <3>1, LenShifted, Zenon
  <2> QED BY <2>5, <2>6, Zenon
<1>4. CASE ~ (w >= 256)
  <2> DEFINE n == LenTable(w)
  <2>1. CodeLen(w) = n
    BY <1>4, SMT DEF CodeLen
  <2>2. n \in 1..8 /\ 2^(n - 1) <= w /\ w < 2^n
    BY <1>4, LenOfByte, SMT
  <2> HIDE DEF n
  <2>3. n \in Nat /\ 1 <= n /\ n <= 30
    BY <2>2, SMT
  <2> QED BY <2>1, <2>2, <2>3, SMT DEF IsLen
<1> QED BY <1>1, <1>2, <1>3, <1>4, SMT

LEMMA GolombLenIs ==
  ASSUME NEW v \in Nat, v + 1 < 2^30
  PROVE  IsLen(GolombLen(v), v + 1) /\ GolombLen(v) = CodeLen(v + 1)
<1> DEFINE w == v + 1
           P(n) == 2^(n - 1) <= w /\ w < 2^n
           n0 == CodeLen(w)
           n1 == GolombLen(v)
<1>1. w \in Nat /\ 1 <= w
  OBVIOUS
<1>2. IsLen(n0, w)
  <2> HIDE DEF w
  <2> QED BY <1>1, CodeLenIsLen DEF w
<1>3. n1 = CHOOSE n \in 1..30 : P(n)
  BY SMT DEF GolombLen
<1> HIDE DEF w, n0, n1
<1>4. \A n \in 1..30 : P(n) <=> IsLen(n, w)
  BY DEF IsLen
<1>5. n0 \in 1..30
  BY <1>2 DEF IsLen
<1> HIDE DEF P
<1>6. n1 \in 1..30 /\ P(n1)
  BY <1>2, <1>3, <1>4, <1>5, SMT
<1>7. IsLen(n1, w)
  BY <1>4, <1>6
<1>8. n1 = n0
  BY <1>1, <1>2, <1>7, LenUnique
<1> QED BY <1>7, <1>8 DEF w, n0, n1

\* bs_write_ue writes the code of v (bitstream.h:251-306).
LEMMA CodeWritten ==
  ASSUME NEW b, NEW c, NEW s, Holds(b, c, s), NEW v \in Nat, v + 1 < 2^30, NEW wraps \in BOOLEAN
  PROVE  /\ 2 * GolombLen(v) - 1 \in Nat /\ Len(Golomb(v)) = 2 * GolombLen(v) - 1
         /\ Holds(WriteUe(b, v, wraps), c + (2 * GolombLen(v) - 1),
                  Overwritten(s, c, 2 * GolombLen(v) - 1, Code(v, wraps)))
<1> DEFINE len == GolombLen(v)
           n == 2 * len - 1
           w == v + 1
<1>1. IsLen(len, w) /\ len = CodeLen(w)
  BY GolombLenIs
<1>2. len \in Nat /\ 1 <= len /\ len <= 30
  BY <1>1 DEF IsLen
<1>3. n \in Nat /\ n < 64 /\ w \in Nat
  <2> HIDE DEF len
  <2> QED BY <1>2
<1>4. Golomb(v) = BitsOf(w, n)
  BY DEF Golomb
<1>8. Len(Golomb(v)) = n
  <2> HIDE DEF n, w
  <2> QED BY <1>3, <1>4, LenOfBits
<1>7. Code(v, wraps) = Shifted(w, n, wraps)
  <2> HIDE DEF n, w
  <2> QED BY <1>3, <1>4, ShiftedIs DEF Code
<1>5. CASE v = 0
  <2>1. w = 1
    BY <1>5
  <2>2. len = 1
    <3>1. 2^(1 - 1) = 1 /\ 2^1 = 2
      OBVIOUS
    <3>2. IsLen(1, 1)
      BY <3>1 DEF IsLen
    <3> HIDE DEF w, len
    <3> QED BY <1>1, <2>1, <3>2, LenUnique
  <2>3. n = 1
    <3> HIDE DEF len
    <3> QED BY <2>2
  <2>4. WriteUe(b, v, wraps) = WriteU1(b, 1)
    BY <1>5, SMT DEF WriteUe
  <2>5. Holds(WriteU1(b, 1), c + 1, [k \in DOMAIN s |-> IF k = c + 1 THEN 1 % 2 ELSE s[k]])
    BY BitWritten
  <2>6. Overwritten(s, c, 1, BitsOf(1, 1)) = [k \in DOMAIN s |-> IF k = c + 1 THEN 1 % 2 ELSE s[k]]
    <3> DEFINE u == BitsOf(1, 1)
    <3>1. u[1] = 1 % 2
      BY DEF BitsOf, Shr
    <3>2. c \in Nat
      BY StreamParts DEF Holds
    <3>3. DOMAIN s \subseteq Nat
      BY DEF Holds
    <3> HIDE DEF u
    <3>4. \A k \in DOMAIN s : (IF c < k /\ k <= c + 1 THEN u[k - c] ELSE s[k])
                                = IF k = c + 1 THEN 1 % 2 ELSE s[k]
      <4> TAKE k \in DOMAIN s
      <4>1. (c < k /\ k <= c + 1) <=> k = c + 1
        BY <3>2, <3>3
      <4>2. k = c + 1 => k - c = 1
        BY <3>2
      <4> QED BY <3>1, <4>1, <4>2
    <3>5. Overwritten(s, c, 1, u) = [k \in DOMAIN s |-> IF c < k /\ k <= c + 1 THEN u[k - c] ELSE s[k]]
      BY DEF Overwritten
    <3> QED BY <3>4, <3>5 DEF u
  <2> HIDE DEF n, w, len
  <2>7. Code(v, wraps) = BitsOf(1, 1)
    <3>1. Shifted(1, 1, wraps) = BitsOf(1, 1)
      BY ShortShifted
    <3> QED BY <1>7, <2>1, <2>3, <3>1
  <2>8. Holds(WriteUe(b, v, wraps), c + n, Overwritten(s, c, n, Code(v, wraps)))
    BY <2>3, <2>4, <2>5, <2>6, <2>7
  <2> QED BY <1>3, <1>8, <2>8 DEF n, len
<1>6. CASE v # 0
  <2>1. WriteUe(b, v, wraps) = WriteU(b, 2 * CodeLen(v + 1) - 1, v + 1, wraps)
    BY <1>6, SMT DEF WriteUe, CodeLen
  <2>2. WriteUe(b, v, wraps) = WriteU(b, n, w, wraps)
    BY <1>1, <2>1
  <2> HIDE DEF n, w, len
  <2>3. Holds(WriteU(b, n, w, wraps), c + n, Overwritten(s, c, n, Shifted(w, n, wraps)))
    BY <1>3, BitsWritten
  <2>4. Holds(WriteUe(b, v, wraps), c + n, Overwritten(s, c, n, Code(v, wraps)))
    BY <1>7, <2>2, <2>3
  <2> QED BY <1>3, <1>8, <2>4 DEF n, len
<1> QED BY <1>5, <1>6

-----------------------------------------------------------------------------
(***************************************************************************)
(* The client                                                              *)
(***************************************************************************)
Held == Holds(bs, cursor, bits)

LEMMA BytesSkipped ==
  ASSUME NEW b \in Streams, NEW n \in Int
  PROVE  /\ SkipBytes(b, n).b \in Streams /\ SkipBytes(b, n).b.data = b.data
         /\ At(SkipBytes(b, n).b) = At(b) + 8 * AtLeast0(n)
<1> DEFINE m == AtLeast0(n)
           p == b.p
           l == b.bits_left
           b2 == [b EXCEPT !.p = p + m]
<1>1. m \in Nat
  BY DEF AtLeast0
<1>2. l \in Int /\ 1 <= l /\ l <= 8 /\ p \in Nat /\ At(b) = 8 * p + 8 - l
  BY StreamParts
<1>3. SkipBytes(b, n).b = b2
  BY DEF SkipBytes
<1>4. b2 \in Streams /\ b2.data = b.data /\ b2.p = p + m /\ b2.bits_left = l
  <2> DEFINE k == p + m
  <2>1. k \in Nat
    BY <1>1, <1>2
  <2> HIDE DEF m, p
  <2>2. b2 = [b EXCEPT !.p = k]
    OBVIOUS
  <2> HIDE DEF k, b2
  <2>3. b2 \in Streams /\ b2.data = b.data /\ b2.p = k /\ b2.bits_left = b.bits_left
    BY <2>1, <2>2 DEF Streams
  <2> QED BY <2>3 DEF k
<1>5. At(b2) = 8 * (p + m) + 8 - l
  BY <1>4 DEF At
<1> HIDE DEF m, p, l, b2
<1>6. At(b2) = At(b) + 8 * m
  BY <1>1, <1>2, <1>5
<1> QED BY <1>3, <1>4, <1>6 DEF m

LEMMA Cloned ==
  ASSUME NEW b \in Streams
  PROVE  Clone(b) \in Streams /\ Clone(b).data = b.data /\ At(Clone(b)) = At(b)
<1> DEFINE b2 == Clone(b)
<1>1. b2 = [b EXCEPT !.start = b.p]
  BY DEF Clone
<1> HIDE DEF b2
<1>2. b2 \in Streams /\ b2.data = b.data /\ b2.p = b.p /\ b2.bits_left = b.bits_left
  BY <1>1 DEF Streams
<1>3. At(b2) = At(b)
  BY <1>2 DEF At
<1> QED BY <1>2, <1>3 DEF b2

LEMMA ReadingKeeps ==
  ASSUME Held, NEW b \in Streams, b.data = bs.data, NEW n, At(b) = cursor + n, Reads(b, n)
  PROVE  Held'
<1>1. Holds(b, At(b), bits)
  BY MovedHolds DEF Held
<1>2. bs' = b /\ cursor' = At(b) /\ bits' = bits
  BY DEF Reads
<1> QED BY <1>1, <1>2 DEF Held

LEMMA WritingKeeps ==
  ASSUME Held, NEW n \in Nat, NEW w, Len(w) = n, NEW b,
         Holds(b, cursor + n, Overwritten(bits, cursor, n, w)), Writes(b, w)
  PROVE  Held'
<1>1. bs' = b /\ cursor' = cursor + n
  BY DEF Writes
<1>2. bits' = [k \in DOMAIN bits |-> IF k - cursor \in 1..n THEN w[k - cursor] ELSE bits[k]]
  BY DEF Writes
<1>3. cursor \in Nat /\ DOMAIN bits \subseteq Nat
  <2>1. cursor = At(bs) /\ bs \in Streams
    BY DEF Held, Holds
  <2>2. DOMAIN bits \subseteq Nat
    BY DEF Held, Holds
  <2> QED BY <2>1, <2>2, StreamParts
<1>4. \A k \in DOMAIN bits : (IF k - cursor \in 1..n THEN w[k - cursor] ELSE bits[k])
                              = IF cursor < k /\ k <= cursor + n THEN w[k - cursor] ELSE bits[k]
  <2> TAKE k \in DOMAIN bits
  <2>1. k - cursor \in 1..n <=> cursor < k /\ k <= cursor + n
    BY <1>3
  <2> QED BY <2>1
<1>5. bits' = Overwritten(bits, cursor, n, w)
  BY <1>2, <1>4 DEF Overwritten
<1> QED BY <1>1, <1>5 DEF Held

LEMMA ReadStep == Held /\ ReadNext => Held'
<1> SUFFICES ASSUME Held, ReadNext PROVE Held'
  OBVIOUS
<1>0. bs \in Streams /\ At(bs) = cursor /\ cursor \in Nat
  BY StreamParts DEF Held, Holds
<1>1. \A n \in Widths : n \in Nat /\ n \in Int /\ AtLeast0(n) = n
  BY BitStreamAssumption DEF AtLeast0
<1>2. \A n \in Counts : n \in Int
  BY BitStreamAssumption
<1>3. \A n \in Nat : n \in Int /\ 8 * n \in Nat /\ 8 * n \in Int /\ AtLeast0(8 * n) = 8 * n /\ AtLeast0(n) = n
  BY DEF AtLeast0
<1>4. ASSUME NEW n \in Widths, Reads(ReadU(bs, n).b, n) \/ Reads(SkipU(bs, n), n)
      PROVE  Held'
  <2>1. ReadU(bs, n).b = SkipU(bs, n)
    BY DEF ReadU
  <2>2. SkipU(bs, n) \in Streams /\ SkipU(bs, n).data = bs.data /\ At(SkipU(bs, n)) = cursor + n
    BY <1>0, <1>1, SkipMoves
  <2> QED BY <1>4, <2>1, <2>2, ReadingKeeps
<1>5. CASE Reads(ReadU8(bs).b, 8)
  <2>1. Holds(ReadU8(bs).b, cursor + 8, bits)
    BY Read8IsValue DEF Held
  <2>2. bs' = ReadU8(bs).b /\ cursor' = cursor + 8 /\ bits' = bits
    BY <1>5 DEF Reads
  <2> QED BY <2>1, <2>2 DEF Held
<1>6. CASE Reads(Clone(bs), 0)
  <2>1. At(Clone(bs)) = cursor + 0
    BY <1>0, Cloned
  <2> QED BY <1>0, <1>6, <2>1, Cloned, ReadingKeeps
<1>7. ASSUME NEW n \in Counts \cap Nat, Reads(ReadU8n(bs, n).b, 8 * n) \/ Reads(ReadBytes(bs, n).b, 8 * n)
      PROVE  Held'
  <2>1. n \in Int /\ 8 * n \in Int /\ AtLeast0(8 * n) = 8 * n /\ AtLeast0(n) = n
    BY <1>3
  <2>2. ReadU8n(bs, n).b = SkipU(bs, 8 * n) /\ ReadBytes(bs, n).b = SkipBytes(bs, n).b
    BY DEF ReadU8n, ReadU, ReadBytes
  <2> DEFINE m == 8 * n
  <2>3. SkipU(bs, m) \in Streams /\ SkipU(bs, m).data = bs.data /\ At(SkipU(bs, m)) = cursor + m
    <3>1. m \in Int /\ AtLeast0(m) = m
      BY <2>1
    <3> HIDE DEF m
    <3> QED BY <1>0, <3>1, SkipMoves
  <2>4. /\ SkipBytes(bs, n).b \in Streams /\ SkipBytes(bs, n).b.data = bs.data
        /\ At(SkipBytes(bs, n).b) = cursor + 8 * n
    BY <1>0, <2>1, BytesSkipped
  <2> QED BY <1>7, <2>2, <2>3, <2>4, ReadingKeeps
<1>8. ASSUME NEW n \in Counts, Reads(SkipBytes(bs, n).b, 8 * AtLeast0(n))
      PROVE  Held'
  <2>1. /\ SkipBytes(bs, n).b \in Streams /\ SkipBytes(bs, n).b.data = bs.data
        /\ At(SkipBytes(bs, n).b) = cursor + 8 * AtLeast0(n)
    BY <1>0, <1>2, BytesSkipped
  <2> QED BY <1>8, <2>1, ReadingKeeps
<1>9. ASSUME NEW n \in Counts \cap Nat, ReadString(bs, n, 3).r = n, Reads(ReadString(bs, n, 3).b, 8 * n)
      PROVE  Held'
  <2>1. ReadString(bs, n, 3).b = SkipU(bs, 8 * n)
    BY <1>9 DEF ReadString
  <2> DEFINE m == 8 * n
  <2>2. m \in Int /\ AtLeast0(m) = m
    BY <1>3
  <2>3. Reads(SkipU(bs, m), m)
    BY <1>9, <2>1
  <2> HIDE DEF m
  <2>4. SkipU(bs, m) \in Streams /\ SkipU(bs, m).data = bs.data /\ At(SkipU(bs, m)) = cursor + m
    BY <1>0, <2>2, SkipMoves
  <2> QED BY <2>3, <2>4, ReadingKeeps
<1> QED BY <1>4, <1>5, <1>6, <1>7, <1>8, <1>9 DEF ReadNext

LEMMA LenOfCode ==
  ASSUME NEW v \in Nat, v + 1 < 2^30, NEW wraps \in BOOLEAN
  PROVE  Len(Code(v, wraps)) = Len(Golomb(v))
<1> DEFINE n == 2 * GolombLen(v) - 1
           g == Golomb(v)
<1>1. n \in Nat
  <2>1. GolombLen(v) \in Nat /\ 1 <= GolombLen(v)
    BY GolombLenIs DEF IsLen
  <2> QED BY <2>1
<1>2. g = BitsOf(v + 1, n)
  BY DEF Golomb
<1>3. g \in Seq(Int) /\ Len(g) = n
  <2> HIDE DEF n, g
  <2> QED BY <1>1, <1>2, LenOfBits
<1> HIDE DEF n, g
<1>4. DOMAIN g = 1..n /\ \A i \in 1..n : g[i] \in Int
  BY <1>3
<1>5. Wrapped(g) = [i \in 1..n |-> IF i + 32 <= n THEN g[i + 32] ELSE g[i]]
  BY <1>3, <1>4 DEF Wrapped
<1>6. \A i \in 1..n : (IF i + 32 <= n THEN g[i + 32] ELSE g[i]) \in Int
  <2> TAKE i \in 1..n
  <2>1. i + 32 <= n => i + 32 \in 1..n
    OBVIOUS
  <2> QED BY <1>4, <2>1
<1>7. Len(Wrapped(g)) = n
  BY <1>1, <1>5, <1>6
<1> QED BY <1>3, <1>7 DEF Code, g

LEMMA WriteStep ==
  ASSUME ShortCodes
  PROVE  Held /\ WriteNext => Held'
<1> SUFFICES ASSUME Held, NEW v \in Values, NEW wraps \in BOOLEAN,
                    \/ \E n \in Widths : Writes(WriteU(bs, n, v, wraps), BitsOf(v, n))
                    \/ Writes(WriteU8(bs, v), BitsOf(v, 8))
                    \/ Writes(WriteUe(bs, v, wraps), Code(v, wraps))
                    \/ \E i \in {v, -v} : Writes(WriteSe(bs, i, wraps), Code(Signed(i), wraps))
                    \/ ByteAligned(bs) /\ Writes(WriteBytes(bs, <<v % 256, 5>>), BitsOf(v, 8) \o BitsOf(5, 8))
             PROVE  Held'
  BY DEF WriteNext
<1>1. Holds(bs, cursor, bits)
  BY DEF Held
<1>2. v \in Nat /\ 2 * v + 1 < 2^30
  BY BitStreamAssumption DEF ShortCodes
<1>3. ASSUME NEW n \in Widths, Writes(WriteU(bs, n, v, wraps), BitsOf(v, n)) PROVE Held'
  <2>1. n \in Nat /\ n <= 32
    BY BitStreamAssumption
  <2>4. Holds(WriteU(bs, n, v, wraps), cursor + n, Overwritten(bits, cursor, n, Shifted(v, n, wraps)))
    BY <1>1, <1>2, <2>1, BitsWritten
  <2>5. Shifted(v, n, wraps) = BitsOf(v, n)
    BY <1>2, <2>1, ShortShifted
  <2>2. Holds(WriteU(bs, n, v, wraps), cursor + n, Overwritten(bits, cursor, n, BitsOf(v, n)))
    BY <2>4, <2>5
  <2>3. Len(BitsOf(v, n)) = n
    BY <1>2, <2>1, LenOfBits
  <2> QED BY <1>3, <2>1, <2>2, <2>3, WritingKeeps
<1>4. CASE Writes(WriteU8(bs, v), BitsOf(v, 8))
  <2>1. Holds(WriteU8(bs, v), cursor + 8, Overwritten(bits, cursor, 8, BitsOf(v, 8)))
    BY <1>1, <1>2, OctetWritten
  <2>2. Len(BitsOf(v, 8)) = 8
    BY <1>2, LenOfBits
  <2> QED BY <1>4, <2>1, <2>2, WritingKeeps
<1>5. ASSUME NEW u \in Nat, u + 1 < 2^30, Writes(WriteUe(bs, u, wraps), Code(u, wraps))
      PROVE  Held'
  <2> DEFINE n == 2 * GolombLen(u) - 1
  <2>1. n \in Nat /\ Len(Golomb(u)) = n
        /\ Holds(WriteUe(bs, u, wraps), cursor + n, Overwritten(bits, cursor, n, Code(u, wraps)))
    BY <1>1, <1>5, CodeWritten
  <2> HIDE DEF n
  <2>2. Len(Code(u, wraps)) = n
    BY <1>5, <2>1, LenOfCode
  <2> QED BY <1>5, <2>1, <2>2, WritingKeeps
<1>6. CASE Writes(WriteUe(bs, v, wraps), Code(v, wraps))
  <2>1. v + 1 < 2^30
    <3> DEFINE m == 2^30
    <3>1. m \in Nat /\ 2 * v + 1 < m
      BY <1>2, PowersOf2
    <3> HIDE DEF m
    <3>2. v + 1 < m
      BY <1>2, <3>1
    <3> QED BY <3>2 DEF m
  <2> QED BY <1>2, <1>5, <1>6, <2>1
<1>7. ASSUME NEW i \in {v, -v}, Writes(WriteSe(bs, i, wraps), Code(Signed(i), wraps))
      PROVE  Held'
  <2> DEFINE u == Signed(i)
  <2>1. WriteSe(bs, i, wraps) = WriteUe(bs, u, wraps)
    <3>1. i \in Int
      BY <1>2
    <3>2. i <= 0 => -i * 2 = -2 * i
      BY <3>1
    <3>3. i > 0 => i * 2 - 1 = 2 * i - 1
      BY <3>1
    <3> QED BY <3>1, <3>2, <3>3 DEF WriteSe, Signed
  <2>2. u \in Nat /\ u + 1 < 2^30
    <3> DEFINE m == 2^30
    <3>1. m \in Nat /\ 2 * v + 1 < m
      BY <1>2, PowersOf2
    <3> HIDE DEF m
    <3>2. i = v \/ i = -v
      OBVIOUS
    <3>3. u \in Nat /\ u + 1 < m
      BY <1>2, <3>1, <3>2 DEF Signed
    <3> QED BY <3>3 DEF m
  <2> HIDE DEF u
  <2>3. Writes(WriteUe(bs, u, wraps), Code(u, wraps))
    BY <1>7, <2>1 DEF u
  <2> QED BY <1>5, <2>2, <2>3
<1>8. CASE ByteAligned(bs) /\ Writes(WriteBytes(bs, <<v % 256, 5>>), BitsOf(v, 8) \o BitsOf(5, 8))
  <2> DEFINE y == <<v % 256, 5>>
             w1 == BitsOf(v, 8)
             w2 == BitsOf(5, 8)
             w == w1 \o w2
  <2>1. /\ w1 \in Seq(Int) /\ Len(w1) = 8 /\ w2 \in Seq(Int) /\ Len(w2) = 8
    BY <1>2, LenOfBits
  <2>2. /\ v % 256 \in Octet /\ \A o \in BitNo : w1[o + 1] = BitOf(v % 256, o)
        /\ 5 % 256 \in Octet /\ \A o \in BitNo : w2[o + 1] = BitOf(5 % 256, o)
    BY <1>2, BitsOfLowByte
  <2>3. 5 % 256 = 5
    OBVIOUS
  <2>4. y \in Seq(Octet) /\ Len(y) = 2 /\ y[1] = v % 256 /\ y[2] = 5 /\ y[1] \in Octet /\ y[2] \in Octet
    BY <2>2, <2>3
  <2> HIDE DEF w1, w2, y
  <2>5. Len(w) = 16 /\ \A k \in 1..16 : w[k] = IF k <= 8 THEN w1[k] ELSE w2[k - 8]
    <3>1. /\ Len(w) = Len(w1) + Len(w2)
          /\ \A k \in 1..(Len(w1) + Len(w2)) : w[k] = IF k <= Len(w1) THEN w1[k] ELSE w2[k - Len(w1)]
      BY <2>1, ConcatProperties, Zenon
    <3> HIDE DEF w
    <3>2. Len(w1) + Len(w2) = 16 /\ Len(w1) = 8
      BY <2>1
    <3> QED BY <3>1, <3>2, Zenon
  <2> HIDE DEF w
  <2>6. AreBitsOf(w, y, 2)
    <3> SUFFICES ASSUME NEW q \in Nat, q < 2
                 PROVE  y[q + 1] \in Octet /\ \A i \in BitNo : w[8 * q + i + 1] = BitOf(y[q + 1], i)
      BY DEF AreBitsOf
    <3>1. \A i \in BitNo : i \in Int /\ 0 <= i /\ i < 8
      BY BitNoRange
    <3>2. CASE q = 0
      <4>1. y[q + 1] = v % 256 /\ y[q + 1] \in Octet
        BY <2>4, <3>2
      <4>2. ASSUME NEW i \in BitNo PROVE w[8 * q + i + 1] = w1[i + 1]
        <5>1. i + 1 \in 1..16 /\ i + 1 <= 8 /\ 8 * q + i + 1 = i + 1
          BY <3>1, <3>2
        <5> QED BY <2>5, <5>1
      <4> QED BY <2>2, <4>1, <4>2
    <3>3. CASE q = 1
      <4>1. y[q + 1] = 5 /\ y[q + 1] \in Octet
        BY <2>4, <3>3
      <4>2. ASSUME NEW i \in BitNo PROVE w[8 * q + i + 1] = w2[i + 1]
        <5> DEFINE k == 8 * q + i + 1
        <5>1. k \in 1..16 /\ ~ (k <= 8) /\ k - 8 = i + 1
          BY <3>1, <3>3
        <5> HIDE DEF k
        <5>2. w[k] = w2[k - 8]
          BY <2>5, <5>1
        <5> QED BY <5>1, <5>2 DEF k
      <4> QED BY <2>2, <2>3, <4>1, <4>2
    <3> QED BY <3>2, <3>3
  <2>7. Writes(WriteBytes(bs, y), w) /\ ByteAligned(bs)
    BY <1>8 DEF y, w, w1, w2
  <2>8. Holds(WriteBytes(bs, y), cursor + 8 * Len(y), Overwritten(bits, cursor, 8 * Len(y), w))
    <3>1. AreBitsOf(w, y, Len(y))
      BY <2>4, <2>6
    <3> QED BY <1>1, <2>4, <2>7, <3>1, BytesWritten
  <2>9. 8 * Len(y) = 16
    BY <2>4
  <2>10. Holds(WriteBytes(bs, y), cursor + 16, Overwritten(bits, cursor, 16, w))
    BY <2>8, <2>9
  <2> QED BY <2>5, <2>7, <2>10, WritingKeeps
<1> QED BY <1>3, <1>4, <1>6, <1>7, <1>8

\* Bit k - 1 of the memory is bit o of byte j.
LEMMA PlaceOfBit ==
  ASSUME NEW n \in Nat, NEW k \in 1..(8 * n)
  PROVE  /\ (k - 1) \div 8 \in Nat /\ (k - 1) \div 8 < n /\ (k - 1) % 8 \in BitNo
         /\ 8 * ((k - 1) \div 8) + ((k - 1) % 8) + 1 = k
<1> DEFINE j == (k - 1) \div 8
           o == (k - 1) % 8
<1>1. k - 1 \in Nat /\ k - 1 < 8 * n
  OBVIOUS
<1>2. j \in Nat /\ o \in Int /\ 0 <= o /\ o < 8 /\ 8 * j + o = k - 1
  <2> DEFINE l == k - 1
  <2> HIDE DEF l
  <2>1. l \in Nat
    BY <1>1 DEF l
  <2>2. l \div 8 \in Nat /\ l % 8 \in Int /\ 0 <= l % 8 /\ l % 8 < 8 /\ 8 * (l \div 8) + (l % 8) = l
    BY <2>1
  <2> QED BY <2>2 DEF l
<1>3. o \in BitNo
  BY <1>2, BitNoRange
<1> HIDE DEF j, o
<1>4. j < n /\ 8 * j + o + 1 = k
  BY <1>1, <1>2
<1> QED BY <1>2, <1>3, <1>4 DEF j, o

LEMMA BitOfPlace ==
  ASSUME NEW n \in Nat, NEW j \in Nat, j < n, NEW o \in BitNo, NEW k, k = 8 * j + o + 1
  PROVE  k \in 1..(8 * n) /\ (k - 1) \div 8 = j /\ (k - 1) % 8 = o
<1>1. o \in Int /\ 0 <= o /\ o < 8
  BY BitNoRange
<1>2. k \in 1..(8 * n)
  BY <1>1
<1>3. k - 1 = 8 * j + o
  BY <1>1
<1>4. (8 * j + o) \div 8 = j /\ (8 * j + o) % 8 = o
  BY <1>1
<1> QED BY <1>2, <1>3, <1>4

LEMMA OctetIsLow ==
  ASSUME NEW x \in Octet
  PROVE  x \in Nat /\ x % 256 = x
<1>1. x \in Int /\ 0 <= x /\ x < 256
  BY OctetRange
<1> QED BY <1>1

LEMMA InitHeld == BsInit => Held
<1> SUFFICES ASSUME NEW m \in Memory, bs = Bs(m), cursor = 0,
                    bits = [k \in 1..(8 * Len(m)) |-> BitsOf(m[(k - 1) \div 8 + 1], 8)[((k - 1) % 8) + 1]]
             PROVE  Held
  BY DEF BsInit
<1> DEFINE n == Len(m)
<1>1. m \in Seq(Octet) /\ n \in Nat /\ DOMAIN m = 1..n
  BY BitStreamAssumption DEF Octet
<1>2. bs \in Streams /\ bs.data = m /\ bs.p = 0 /\ bs.bits_left = 8
  BY <1>1 DEF Bs, Streams
<1>3. At(bs) = 0
  BY <1>2 DEF At
<1>4. \A j \in 1..n : m[j] \in Octet
  BY <1>1
<1> HIDE DEF n
<1>5. ASSUME NEW x \in Octet, NEW o \in BitNo
      PROVE  BitsOf(x, 8)[o + 1] = BitOf(x, o)
  <2>1. x \in Nat /\ x % 256 = x
    BY OctetIsLow
  <2> QED BY <2>1, BitsOfLowByte
<1>6. \A k \in 1..(8 * n) : bits[k] = BitsOf(m[(k - 1) \div 8 + 1], 8)[((k - 1) % 8) + 1]
  BY DEF n
<1>7. ASSUME NEW j \in Nat, NEW o \in BitNo, j < n
      PROVE  8 * j + o + 1 \in 1..(8 * n) /\ bits[8 * j + o + 1] = BitOf(m[j + 1], o)
  <2> DEFINE k == 8 * j + o + 1
  <2>2. k \in 1..(8 * n) /\ (k - 1) \div 8 = j /\ (k - 1) % 8 = o
    <3>1. k = 8 * j + o + 1
      OBVIOUS
    <3> HIDE DEF k
    <3> QED BY <1>1, <1>7, <3>1, BitOfPlace
  <2>3. m[j + 1] \in Octet
    <3>1. j + 1 \in 1..n
      BY <1>1, <1>7
    <3> QED BY <1>4, <3>1
  <2> HIDE DEF k
  <2>4. bits[k] = BitsOf(m[j + 1], 8)[o + 1]
    BY <1>6, <2>2
  <2>5. BitsOf(m[j + 1], 8)[o + 1] = BitOf(m[j + 1], o)
    BY <1>5, <2>3
  <2> QED BY <2>2, <2>4, <2>5 DEF k
<1>8. ASSUME NEW k \in 1..(8 * n) PROVE bits[k] \in {0, 1}
  <2> DEFINE j == (k - 1) \div 8
             o == (k - 1) % 8
  <2>1. j \in Nat /\ j < n /\ o \in BitNo /\ 8 * j + o + 1 = k
    BY <1>1, PlaceOfBit
  <2> HIDE DEF j, o
  <2>2. o \in BitNo /\ j + 1 \in 1..n
    BY <1>1, <2>1
  <2>3. bits[k] = BitOf(m[j + 1], o)
    BY <1>7, <2>1, <2>2
  <2> QED BY <1>4, <2>2, <2>3, BitsOfOctet
<1>9. bits \in [1..(8 * n) -> {0, 1}]
  <2>1. DOMAIN bits = 1..(8 * n) /\ bits = [k \in DOMAIN bits |-> bits[k]]
    BY DEF n
  <2> QED BY <1>8, <2>1
<1> QED BY <1>2, <1>3, <1>7, <1>9 DEF Held, Holds, n

LEMMA HeldImplies == Held => HoldsWhatWasWritten
<1> SUFFICES ASSUME Held PROVE HoldsWhatWasWritten
  OBVIOUS
<1> DEFINE n == Len(bs.data)
<1>1. bs \in Streams /\ At(bs) = cursor /\ bits \in [1..(8 * n) -> {0, 1}]
  BY DEF Held, Holds
<1>2. \A j \in Nat, o \in BitNo : j < n => bits[8 * j + o + 1] = BitOf(bs.data[j + 1], o)
  BY DEF Held, Holds
<1>3. bs.bits_left \in 1..8 /\ n \in Nat
  BY <1>1, StreamParts
<1>4. DOMAIN bits = 1..(8 * n)
  BY <1>1
<1> HIDE DEF n
<1>5. ASSUME NEW k \in DOMAIN bits
      PROVE  bits[k] = (bs.data[(k - 1) \div 8 + 1] \div 2^(7 - ((k - 1) % 8))) % 2
  <2> DEFINE j == (k - 1) \div 8
             o == (k - 1) % 8
  <2>1. j \in Nat /\ j < n /\ o \in BitNo /\ 8 * j + o + 1 = k
    BY <1>3, <1>4, PlaceOfBit
  <2> HIDE DEF j, o
  <2>2. bits[k] = BitOf(bs.data[j + 1], o)
    BY <1>2, <2>1
  <2> QED BY <2>2 DEF BitOf, j, o
<1> QED BY <1>1, <1>3, <1>5 DEF HoldsWhatWasWritten

\* The memory and the cursor are those of the sequence of bits in every reachable
\* state, whatever is read, skipped and written.
THEOREM StreamHeld ==
  ASSUME ShortCodes
  PROVE  BsSpec => []Held
<1>1. BsInit => Held
  BY InitHeld
<1>2. Held /\ [BsNext]_bsVars => Held'
  <2>1. Held /\ BsNext => Held'
    BY ReadStep, WriteStep DEF BsNext
  <2>2. Held /\ UNCHANGED bsVars => Held'
    BY DEF Held, bsVars
  <2> QED BY <2>1, <2>2
<1> QED BY <1>1, <1>2, PTL DEF BsSpec

\* Reading, skipping and writing move one cursor, and what is written is what the
\* memory holds and nothing else, for every memory, all widths up to 30 bits and all
\* byte counts, before the end and behind it; of a code of more than 32 bits that is
\* what the shifts of bs_write_u make of it, whichever of both outcomes the processor
\* gives them (bitstream.h:108-306, 320-350).
THEOREM MemoryHeld ==
  ASSUME ShortCodes
  PROVE  BsSpec => []HoldsWhatWasWritten
BY StreamHeld, HeldImplies, PTL

-----------------------------------------------------------------------------
(***************************************************************************)
(* What is read                                                            *)
(***************************************************************************)
LEMMA ValueAtIs ==
  ASSUME NEW k, NEW n \in Nat
  PROVE  ValueAt(k, n) = Value(n, Bits(bits, k, n))
<1> DEFINE X == Bits(bits, k, n)
           r0 == CHOOSE r : r = [i \in 0..n |->
                   IF i = 0 THEN 0 ELSE 2 * r[i - 1] + (IF k + i \in DOMAIN bits THEN bits[k + i] ELSE 0)]
<1>1. ValueAt(k, n) = r0[n]
  BY DEF ValueAt
<1>2. \A r : r = [i \in 0..n |->
              IF i = 0 THEN 0 ELSE 2 * r[i - 1] + (IF k + i \in DOMAIN bits THEN bits[k + i] ELSE 0)]
            <=> Sum(r, n, X)
  <2> TAKE r
  <2> DEFINE A(i) == IF i = 0 THEN 0 ELSE 2 * r[i - 1] + (IF k + i \in DOMAIN bits THEN bits[k + i] ELSE 0)
             B(i) == IF i = 0 THEN 0 ELSE 2 * r[i - 1] + X[i]
  <2>1. \A i \in 0..n : A(i) = B(i)
    <3> TAKE i \in 0..n
    <3>1. i # 0 => i \in 1..n
      OBVIOUS
    <3>2. i # 0 => X[i] = IF k + i \in DOMAIN bits THEN bits[k + i] ELSE 0
      BY <3>1 DEF Bits, Bit
    <3> HIDE DEF X
    <3> QED BY <3>2
  <2>2. Sum(r, n, X) <=> r = [i \in 0..n |-> B(i)]
    BY DEF Sum
  <2> HIDE DEF A, B, X
  <2>3. [i \in 0..n |-> A(i)] = [i \in 0..n |-> B(i)]
    BY <2>1
  <2>4. r = [i \in 0..n |-> A(i)] <=> Sum(r, n, X)
    BY <2>2, <2>3
  <2> QED BY <2>4 DEF A
<1> HIDE DEF X
<1>3. Sum(r0, n, X)
  <2>1. PICK v : Sum(v, n, X)
    BY SumExists
  <2> QED BY <1>2, <2>1, Zenon
<1> HIDE DEF r0
<1>4. n \in 0..n
  OBVIOUS
<1>5. r0[n] = Value(n, X)
  BY <1>3, <1>4, ValueIs
<1> QED BY <1>1, <1>5 DEF X

\* Eight more bits.
LEMMA ValueOfEightMore ==
  ASSUME NEW X, NEW m \in Nat, NEW x \in Octet, \A o \in BitNo : X[m + o + 1] = BitOf(x, o),
         Value(m, X) \in Int
  PROVE  Value(m + 8, X) = 256 * Value(m, X) + x
<1> DEFINE B(o) == BitOf(x, o)
           V(i) == Value(m + i, X)
<1>1. 0 \in BitNo /\ 1 \in BitNo /\ 2 \in BitNo /\ 3 \in BitNo /\ 4 \in BitNo /\ 5 \in BitNo
      /\ 6 \in BitNo /\ 7 \in BitNo
  BY DEF BitNo
<1>2. \A o \in BitNo : B(o) \in {0, 1}
  BY BitsOfOctet
<1>3. x = 128 * B(0) + 64 * B(1) + 32 * B(2) + 16 * B(3) + 8 * B(4) + 4 * B(5) + 2 * B(6) + B(7)
  BY BitsOfOctet
<1>4. \A n \in Nat : Value(n + 1, X) = 2 * Value(n, X) + X[n + 1]
  BY ValueSteps
<1>5. ASSUME NEW o \in BitNo
      PROVE  V(o + 1) = 2 * V(o) + B(o)
  <2>1. o \in Int /\ 0 <= o
    BY BitNoRange
  <2>2. m + o \in Nat /\ m + (o + 1) = (m + o) + 1
    BY <2>1
  <2>3. Value((m + o) + 1, X) = 2 * Value(m + o, X) + X[(m + o) + 1]
    BY <1>4, <2>2
  <2> QED BY <2>2, <2>3
<1>6. V(0) = Value(m, X) /\ V(8) = Value(m + 8, X) /\ V(0) \in Int
  <2>1. m + 0 = m
    OBVIOUS
  <2> QED BY <2>1
<1> HIDE DEF B, V
<1>7. \A o \in BitNo : B(o) \in Int
  BY <1>2
<1>8. /\ V(1) = 2 * V(0) + B(0) /\ V(2) = 2 * V(1) + B(1) /\ V(3) = 2 * V(2) + B(2)
      /\ V(4) = 2 * V(3) + B(3)
  <2>1. 0 + 1 = 1 /\ 1 + 1 = 2 /\ 2 + 1 = 3 /\ 3 + 1 = 4
    OBVIOUS
  <2> QED BY <1>1, <1>5, <2>1, Zenon
<1>9. /\ V(5) = 2 * V(4) + B(4) /\ V(6) = 2 * V(5) + B(5) /\ V(7) = 2 * V(6) + B(6)
      /\ V(8) = 2 * V(7) + B(7)
  <2>1. 4 + 1 = 5 /\ 5 + 1 = 6 /\ 6 + 1 = 7 /\ 7 + 1 = 8
    OBVIOUS
  <2> QED BY <1>1, <1>5, <2>1, Zenon
<1>10. /\ B(0) \in Int /\ B(1) \in Int /\ B(2) \in Int /\ B(3) \in Int
       /\ B(4) \in Int /\ B(5) \in Int /\ B(6) \in Int /\ B(7) \in Int
  BY <1>1, <1>7, Zenon
<1>11. V(8) = 256 * V(0) + x
  BY <1>3, <1>6, <1>8, <1>9, <1>10
<1> QED BY <1>6, <1>11

\* bs_next_bytes puts bytes together to the value of their bits (bitstream.h:359-369).
LEMMA NextBytesIsValue ==
  ASSUME NEW b, NEW c, NEW s, Holds(b, c, s), ByteAligned(b), NEW n \in 1..8, b.p + n <= Len(b.data)
  PROVE  NextBytes(b, n).r = Value(8 * n, Bits(s, c, 8 * n))
<1> DEFINE X == Bits(s, c, 8 * n)
           p == b.p
           d == b.data
           r0 == CHOOSE r : r = [i \in 0..n |-> IF i = 0 THEN 0 ELSE 256 * r[i - 1] + d[p + i]]
           V(i) == Value(8 * i, X)
<1>1. NextBytes(b, n).r = r0[n]
  <2>1. ~ (n \notin 1..8 \/ b.p + n > Len(b.data))
    <3>1. Len(b.data) \in Nat /\ p \in Nat
      BY StreamParts DEF Holds
    <3> QED BY <3>1
  <2> QED BY <2>1 DEF NextBytes
<1>2. p \in Nat /\ c = 8 * p /\ n \in Nat /\ d \in Seq(Octet) /\ p + n <= Len(d) /\ Len(d) \in Nat
  <2>1. b \in Streams /\ At(b) = c /\ b.bits_left = 8
    BY DEF Holds, ByteAligned
  <2>2. p \in Nat /\ d \in Seq(Octet) /\ Len(d) \in Nat /\ At(b) = 8 * p + 8 - b.bits_left
    BY <2>1, StreamParts
  <2>3. c = 8 * p
    <3> HIDE DEF p
    <3> QED BY <2>1, <2>2
  <2> QED BY <2>2, <2>3
<1>3. s \in [1..(8 * Len(d)) -> {0, 1}]
      /\ \A j \in Nat, o \in BitNo : j < Len(d) => s[8 * j + o + 1] = BitOf(d[j + 1], o)
  BY DEF Holds
<1>4. \A k \in 1..(8 * n) : X[k] = Bit(s, c + k)
  BY DEF Bits
<1> HIDE DEF X, p, d
<1>5. ASSUME NEW i \in Nat, i < n
      PROVE  d[p + (i + 1)] \in Octet /\ \A o \in BitNo : X[8 * i + o + 1] = BitOf(d[p + (i + 1)], o)
  <2> DEFINE j == p + i
  <2>1. j \in Nat /\ j < Len(d) /\ j + 1 = p + (i + 1) /\ j + 1 \in 1..Len(d)
    BY <1>2, <1>5
  <2>2. d[j + 1] \in Octet
    BY <1>2, <2>1
  <2>3. ASSUME NEW o \in BitNo PROVE X[8 * i + o + 1] = BitOf(d[j + 1], o)
    <3> DEFINE k == 8 * i + o + 1
               l == 8 * j + o + 1
    <3>1. k \in 1..(8 * n)
      BY <1>2, <1>5, BitOfPlace
    <3>2. l \in 1..(8 * Len(d))
      <4>1. l = 8 * j + o + 1
        OBVIOUS
      <4> HIDE DEF j, l
      <4> QED BY <1>2, <2>1, <4>1, BitOfPlace
    <3>3. c + k = l
      BY <1>2, BitNoRange
    <3>4. s[l] = BitOf(d[j + 1], o)
      <4> HIDE DEF j
      <4> QED BY <1>3, <2>1
    <3> HIDE DEF k, l, j
    <3>5. Bit(s, l) = s[l]
      BY <1>3, <3>2 DEF Bit
    <3> QED BY <1>4, <3>1, <3>3, <3>4, <3>5 DEF k
  <2> HIDE DEF j
  <2> QED BY <2>1, <2>2, <2>3
<1>6. \A i \in Nat : i \in {k \in Nat : k <= n => V(k) \in Int}
  <2> DEFINE S == {k \in Nat : k <= n => V(k) \in Int}
  <2>1. 0 \in S
    <3>1. 8 * 0 = 0 /\ Value(0, X) = 0
      BY ValueSteps
    <3>2. V(0) \in Int
      BY <3>1
    <3> QED BY <3>2
  <2>2. ASSUME NEW i \in Nat, i \in S PROVE i + 1 \in S
    <3>1. ASSUME i + 1 <= n PROVE V(i + 1) \in Int
      <4> DEFINE m == 8 * i
                 x == d[p + (i + 1)]
      <4>1. i < n /\ i <= n /\ m \in Nat /\ 8 * (i + 1) = m + 8
        BY <3>1, <1>2
      <4>2. Value(m, X) \in Int
        BY <2>2, <4>1
      <4>3. x \in Octet /\ \A o \in BitNo : X[m + o + 1] = BitOf(x, o)
        BY <1>5, <4>1
      <4> HIDE DEF m, x
      <4>4. Value(m + 8, X) = 256 * Value(m, X) + x
        BY <4>1, <4>2, <4>3, ValueOfEightMore
      <4>5. x \in Int
        BY <4>3, OctetRange
      <4>6. Value(m + 8, X) \in Int
        BY <4>2, <4>4, <4>5
      <4> QED BY <4>1, <4>6
    <3> QED BY <3>1
  <2>3. \A i \in Nat : i \in S
    <3> HIDE DEF S
    <3> QED BY <2>1, <2>2, Induction
  <2> QED BY <2>3
<1>7. ASSUME NEW i \in Nat, i < n
      PROVE  V(i + 1) = 256 * V(i) + d[p + (i + 1)]
  <2> DEFINE m == 8 * i
             x == d[p + (i + 1)]
  <2>1. i <= n /\ m \in Nat /\ 8 * (i + 1) = m + 8
    BY <1>2, <1>7
  <2>2. Value(m, X) \in Int
    BY <1>6, <2>1
  <2>3. x \in Octet /\ \A o \in BitNo : X[m + o + 1] = BitOf(x, o)
    BY <1>5, <1>7
  <2> HIDE DEF m, x
  <2>4. Value(m + 8, X) = 256 * Value(m, X) + x
    BY <2>1, <2>2, <2>3, ValueOfEightMore
  <2> QED BY <2>1, <2>4 DEF m, x
<1>8. V(0) = 0
  <2>1. 8 * 0 = 0 /\ Value(0, X) = 0
    BY ValueSteps
  <2> QED BY <2>1
<1> HIDE DEF V
<1>9. r0 = [i \in 0..n |-> IF i = 0 THEN 0 ELSE 256 * r0[i - 1] + d[p + i]]
  <2> DEFINE v == [i \in 0..n |-> V(i)]
             F(r, i) == IF i = 0 THEN 0 ELSE 256 * r[i - 1] + d[p + i]
  <2>1. ASSUME NEW i \in 0..n PROVE v[i] = F(v, i)
    <3>1. CASE i = 0
      BY <1>8, <3>1
    <3>2. CASE i # 0
      <4>1. i - 1 \in Nat /\ i - 1 < n /\ i - 1 \in 0..n /\ (i - 1) + 1 = i
        BY <1>2, <3>2
      <4>2. V(i) = 256 * V(i - 1) + d[p + i]
        BY <1>7, <4>1
      <4> QED BY <3>2, <4>1, <4>2
    <3> QED BY <3>1, <3>2
  <2>2. v = [i \in 0..n |-> v[i]]
    OBVIOUS
  <2> HIDE DEF v, F
  <2>3. v = [i \in 0..n |-> F(v, i)]
    BY <2>1, <2>2
  <2>4. \E r : r = [i \in 0..n |-> F(r, i)]
    BY <2>3
  <2> QED BY <2>4, Zenon DEF F
<1> HIDE DEF r0
<1>10. ASSUME NEW i \in 0..n PROVE r0[i] = IF i = 0 THEN 0 ELSE 256 * r0[i - 1] + d[p + i]
  <2> DEFINE F(j) == IF j = 0 THEN 0 ELSE 256 * r0[j - 1] + d[p + j]
  <2>1. r0 = [j \in 0..n |-> F(j)]
    BY <1>9
  <2> HIDE DEF F
  <2>2. r0[i] = F(i)
    BY <2>1
  <2> QED BY <2>2 DEF F
<1>11. \A i \in Nat : i \in {k \in Nat : k <= n => r0[k] = V(k)}
  <2> DEFINE S == {k \in Nat : k <= n => r0[k] = V(k)}
  <2>1. 0 \in S
    <3>1. 0 \in 0..n
      BY <1>2
    <3> QED BY <1>8, <1>10, <3>1
  <2>2. ASSUME NEW i \in Nat, i \in S PROVE i + 1 \in S
    <3>1. ASSUME i + 1 <= n PROVE r0[i + 1] = V(i + 1)
      <4>1. i < n /\ i <= n /\ i + 1 \in 0..n /\ i + 1 # 0 /\ (i + 1) - 1 = i
        BY <1>2, <3>1
      <4>2. r0[i + 1] = 256 * r0[i] + d[p + (i + 1)]
        BY <1>10, <4>1
      <4> QED BY <1>7, <2>2, <4>1, <4>2
    <3> QED BY <3>1
  <2>3. \A i \in Nat : i \in S
    <3> HIDE DEF S
    <3> QED BY <2>1, <2>2, Induction
  <2> QED BY <2>3
<1>12. r0[n] = V(n)
  BY <1>2, <1>11
<1> QED BY <1>1, <1>12 DEF V, X

\* bs_read_bytes copies bytes of the memory, as many as there are (bitstream.h:320-329).
LEMMA BytesRead ==
  ASSUME NEW b, NEW c, NEW s, Holds(b, c, s), ByteAligned(b), NEW n \in Int
  PROVE  LET bytes == ReadBytes(b, n).r
         IN  /\ \A i \in 1..Len(bytes) : bytes[i] = Value(8, Bits(s, c + 8 * (i - 1), 8))
             /\ Len(bytes) = n /\ n > 0 => b.p + n <= Len(b.data)
             /\ Len(bytes) < n => BytesLeft(b) < n
<1> DEFINE p == b.p
           d == b.data
           l == Len(d)
           a == ActualLen(b, n)
           bytes == SubSeq(d, p + 1, p + a)
<1>1. ReadBytes(b, n).r = bytes
  BY DEF ReadBytes
<1>2. p \in Nat /\ c = 8 * p /\ d \in Seq(Octet) /\ l \in Nat
  <2>1. b \in Streams /\ At(b) = c /\ b.bits_left = 8
    BY DEF Holds, ByteAligned
  <2>2. p \in Nat /\ d \in Seq(Octet) /\ l \in Nat /\ At(b) = 8 * p + 8 - b.bits_left
    BY <2>1, StreamParts
  <2>3. c = 8 * p
    <3> HIDE DEF p
    <3> QED BY <2>1, <2>2
  <2> QED BY <2>2, <2>3
<1>3. a = AtLeast0(IF l - p < n THEN l - p ELSE n) /\ BytesLeft(b) = l - p
  BY DEF ActualLen, BytesLeft
<1>4. ASSUME NEW j \in Nat, j < l
      PROVE  d[j + 1] = Value(8, Bits(s, 8 * j, 8))
  BY <1>4, ByteIsValue
<1> HIDE DEF p, d, l, a
<1>5. /\ a \in Nat /\ (a > 0 => p + a <= l)
      /\ (a = n /\ n > 0 => p + n <= l) /\ (a < n => l - p < n)
  BY <1>2, <1>3 DEF AtLeast0
<1>6. /\ Len(bytes) = a
      /\ \A i \in 1..a : bytes[i] = d[p + i]
  <2> DEFINE m1 == p + 1
             m2 == p + a
  <2>1. m1 \in Int /\ m2 \in Int /\ m2 - m1 + 1 = a /\ (m1 <= m2 <=> a # 0)
    BY <1>2, <1>5
  <2>2. \A i \in m1..m2 : d[i] \in Octet
    <3> TAKE i \in m1..m2
    <3>1. i \in 1..l
      BY <1>2, <1>5
    <3> QED BY <1>2, <3>1 DEF l
  <2>3. \A i \in 1..a : m1 + i - 1 = p + i
    BY <1>2, <1>5
  <2>4. bytes = SubSeq(d, m1, m2)
    OBVIOUS
  <2> HIDE DEF m1, m2, bytes
  <2>5. /\ Len(bytes) = IF m1 <= m2 THEN m2 - m1 + 1 ELSE 0
        /\ \A i \in 1..(m2 - m1 + 1) : bytes[i] = d[m1 + i - 1]
    BY <2>1, <2>2, <2>4, SubSeqProperties
  <2>6. Len(bytes) = a
    BY <1>5, <2>1, <2>5
  <2>7. \A i \in 1..a : bytes[i] = d[p + i]
    BY <2>1, <2>3, <2>5
  <2> QED BY <2>6, <2>7
<1> HIDE DEF bytes
<1>7. ASSUME NEW i \in 1..Len(bytes)
      PROVE  bytes[i] = Value(8, Bits(s, c + 8 * (i - 1), 8))
  <2> DEFINE j == p + (i - 1)
  <2>1. i \in 1..a
    BY <1>6
  <2>2. j \in Nat /\ j < l /\ j + 1 = p + i /\ 8 * j = c + 8 * (i - 1)
    BY <1>2, <1>5, <2>1
  <2> HIDE DEF j
  <2>3. d[j + 1] = Value(8, Bits(s, 8 * j, 8))
    BY <1>4, <2>2
  <2> QED BY <1>6, <2>1, <2>2, <2>3
<1>8. Len(bytes) = n /\ n > 0 => p + n <= l
  BY <1>5, <1>6
<1>9. Len(bytes) < n => BytesLeft(b) < n
  BY <1>3, <1>5, <1>6
<1> QED BY <1>1, <1>7, <1>8, <1>9 DEF p, l, d

LEMMA HeldReads == Held => ReadsWhatIsHeld
<1> SUFFICES ASSUME Held PROVE ReadsWhatIsHeld
  OBVIOUS
<1>1. Holds(bs, cursor, bits) /\ bs \in Streams /\ At(bs) = cursor
  BY DEF Held, Holds
<1>2. Holds(Clone(bs), cursor, bits)
  BY <1>1, Cloned, MovedHolds
<1>3. ASSUME NEW n \in Nat
      PROVE  ReadU(bs, n).r = ValueAt(cursor, n) /\ NextBits(bs, n).r = ReadU(bs, n).r
  <2>1. ReadU(bs, n).r = Value(n, Bits(bits, cursor, n))
    BY <1>1, ReadIsValue
  <2>2. ReadU(Clone(bs), n).r = Value(n, Bits(bits, cursor, n))
    BY <1>2, ReadIsValue
  <2>3. NextBits(bs, n).r = ReadU(Clone(bs), n).r
    BY DEF NextBits
  <2> QED BY <2>1, <2>2, <2>3, ValueAtIs
<1>4. \A n \in Widths : ReadU(bs, n).r = ValueAt(cursor, n) /\ NextBits(bs, n).r = ReadU(bs, n).r
  BY <1>3, BitStreamAssumption
<1>5. ReadU8(bs).r = ValueAt(cursor, 8)
  BY <1>1, Read8IsValue, ValueAtIs
<1>6. ASSUME NEW n \in Counts \cap Nat
      PROVE  ReadU8n(bs, n).r = ValueAt(cursor, 8 * n)
  <2> DEFINE m == 8 * n
  <2>1. m \in Nat
    OBVIOUS
  <2>2. ReadU8n(bs, n) = ReadU(bs, m)
    BY DEF ReadU8n
  <2> HIDE DEF m
  <2>3. ReadU(bs, m).r = ValueAt(cursor, m)
    BY <1>3, <2>1
  <2> QED BY <2>2, <2>3 DEF m
<1>7. ASSUME NEW n \in Counts, ByteAligned(bs)
      PROVE  LET bytes == ReadBytes(bs, n).r
             IN  /\ \A i \in 1..Len(bytes) : bytes[i] = ValueAt(cursor + 8 * (i - 1), 8)
                 /\ Len(bytes) = n /\ n > 0 => NextBytes(bs, n).r = ValueAt(cursor, 8 * n)
                 /\ Len(bytes) < n => BytesLeft(bs) < n
  <2> DEFINE bytes == ReadBytes(bs, n).r
  <2>1. n \in Int /\ n <= 3
    BY BitStreamAssumption
  <2>2. /\ \A i \in 1..Len(bytes) : bytes[i] = Value(8, Bits(bits, cursor + 8 * (i - 1), 8))
        /\ Len(bytes) = n /\ n > 0 => bs.p + n <= Len(bs.data)
        /\ Len(bytes) < n => BytesLeft(bs) < n
    BY <1>1, <1>7, <2>1, BytesRead
  <2> HIDE DEF bytes
  <2>3. \A i \in 1..Len(bytes) : bytes[i] = ValueAt(cursor + 8 * (i - 1), 8)
    BY <2>2, ValueAtIs
  <2>4. ASSUME Len(bytes) = n, n > 0 PROVE NextBytes(bs, n).r = ValueAt(cursor, 8 * n)
    <3>1. n \in 1..8 /\ bs.p + n <= Len(bs.data)
      BY <2>1, <2>2, <2>4
    <3>2. NextBytes(bs, n).r = Value(8 * n, Bits(bits, cursor, 8 * n))
      BY <1>1, <1>7, <3>1, NextBytesIsValue
    <3> DEFINE m == 8 * n
    <3>3. m \in Nat
      BY <3>1
    <3> HIDE DEF m
    <3>4. ValueAt(cursor, m) = Value(m, Bits(bits, cursor, m))
      BY <3>3, ValueAtIs
    <3> QED BY <3>2, <3>4 DEF m
  <2> QED BY <2>2, <2>3, <2>4 DEF bytes
<1> QED BY <1>4, <1>5, <1>6, <1>7 DEF ReadsWhatIsHeld

\* Every operation that reads returns the value of the bits it passes over, on the fast
\* path and on the slow one; bytes read ahead or copied are the bytes that would be
\* read one by one (bitstream.h:108-180, 320-387).
THEOREM ReadsHeld ==
  ASSUME ShortCodes
  PROVE  BsSpec => []ReadsWhatIsHeld
BY StreamHeld, HeldReads, PTL

-----------------------------------------------------------------------------
(***************************************************************************)
(* Codes read back                                                         *)
(***************************************************************************)
LEMMA Quotients ==
  ASSUME NEW w \in Nat, NEW m \in Nat, m > 0
  PROVE  (w \div m) = 2 * (w \div (2 * m)) + ((w \div m) % 2)
<1> DEFINE q == w \div m
           h == w \div (2 * m)
<1>1. q \in Nat /\ m * q <= w /\ w < m * q + m
  OBVIOUS
<1>2. h \in Nat /\ (2 * m) * h <= w /\ w < (2 * m) * h + 2 * m
  <2> DEFINE l == 2 * m
  <2>1. l \in Nat /\ l > 0
    OBVIOUS
  <2> HIDE DEF l
  <2>2. w \div l \in Nat /\ l * (w \div l) <= w /\ w < l * (w \div l) + l
    BY <2>1
  <2> QED BY <2>2 DEF l
<1> HIDE DEF q, h
<1>3. m * (2 * h) = (2 * m) * h
  BY <1>2
<1>4. ASSUME q >= 2 * h + 2 PROVE FALSE
  <2>1. m * (2 * h + 2) <= m * q
    BY <1>1, <1>2, <1>4
  <2>2. m * (2 * h + 2) = m * (2 * h) + 2 * m
    BY <1>2
  <2> QED BY <1>1, <1>2, <1>3, <2>1, <2>2
<1>5. ASSUME q + 1 <= 2 * h PROVE FALSE
  <2>1. m * (q + 1) <= m * (2 * h)
    BY <1>1, <1>2, <1>5
  <2>2. m * (q + 1) = m * q + m
    BY <1>1
  <2> QED BY <1>1, <1>2, <1>3, <2>1, <2>2
<1>6. q = 2 * h \/ q = 2 * h + 1
  BY <1>1, <1>2, <1>4, <1>5
<1>7. q = 2 * h + (q % 2)
  BY <1>2, <1>6
<1> QED BY <1>7 DEF q, h

LEMMA ShrSteps ==
  ASSUME NEW w \in Nat, NEW k \in Nat, k < 30
  PROVE  Shr(w, k) = 2 * Shr(w, k + 1) + (Shr(w, k) % 2)
<1> DEFINE m == 2^k
<1>1. m \in Nat /\ m > 0 /\ 2^(k + 1) = 2 * m
  BY PowersOf2, PowerSteps
<1>2. Shr(w, k) = w \div m
  BY DEF Shr
<1>3. Shr(w, k + 1) = w \div (2 * m)
  <2>1. Shr(w, k + 1) = w \div 2^(k + 1)
    BY DEF Shr
  <2> QED BY <1>1, <2>1
<1> HIDE DEF m
<1>4. (w \div m) = 2 * (w \div (2 * m)) + ((w \div m) % 2)
  BY <1>1, Quotients
<1> QED BY <1>2, <1>3, <1>4

\* The bits behind the leading one of w.
LEMMA ValueOfLowBits ==
  ASSUME NEW w \in Nat, NEW k \in Nat, k <= 30, NEW X, Shr(w, k) = 1,
         \A i \in 1..k : X[i] = Shr(w, k - i) % 2
  PROVE  Value(k, X) = w - 2^k
<1> DEFINE S == {i \in Nat : i <= k => Value(i, X) = Shr(w, k - i) - 2^i}
<1>1. 0 \in S
  <2>1. Value(0, X) = 0 /\ 2^0 = 1 /\ k - 0 = k
    BY ValueSteps
  <2>2. Value(0, X) = Shr(w, k - 0) - 2^0
    BY <2>1
  <2> QED BY <2>2
<1>2. ASSUME NEW i \in Nat, i \in S PROVE i + 1 \in S
  <2>1. ASSUME i + 1 <= k PROVE Value(i + 1, X) = Shr(w, k - (i + 1)) - 2^(i + 1)
    <3> DEFINE j == k - (i + 1)
    <3>1. i <= k /\ j \in Nat /\ j < 30 /\ k - i = j + 1 /\ i + 1 \in 1..k /\ i < 30
      BY <2>1
    <3>2. Value(i + 1, X) = 2 * Value(i, X) + X[i + 1]
      BY ValueSteps
    <3>3. X[i + 1] = Shr(w, j) % 2
      BY <3>1
    <3>4. Value(i, X) = Shr(w, j + 1) - 2^i
      <4>1. Value(i, X) = Shr(w, k - i) - 2^i
        BY <1>2, <3>1
      <4>2. k - i = j + 1
        BY <3>1
      <4> HIDE DEF j
      <4> QED BY <4>1, <4>2
    <3>5. 2^(i + 1) = 2 * 2^i /\ 2^i \in Nat
      BY <3>1, PowerSteps, PowersOf2
    <3> HIDE DEF j
    <3>6. Shr(w, j) = 2 * Shr(w, j + 1) + (Shr(w, j) % 2)
      BY <3>1, ShrSteps
    <3>7. Shr(w, j) \in Nat /\ Shr(w, j + 1) \in Nat
      <4>1. j + 1 \in Nat
        BY <3>1
      <4> QED BY <3>1, <4>1, ShrIsNat
    <3> DEFINE a == Shr(w, j)
               e == Shr(w, j + 1)
               m == 2^i
    <3>8. /\ Value(i + 1, X) = 2 * (e - m) + (a % 2) /\ a = 2 * e + (a % 2)
          /\ 2^(i + 1) = 2 * m /\ a \in Nat /\ e \in Nat /\ m \in Nat
      BY <3>2, <3>3, <3>4, <3>5, <3>6, <3>7
    <3> HIDE DEF a, e, m
    <3>9. Value(i + 1, X) = a - 2^(i + 1)
      BY <3>8
    <3> QED BY <3>9 DEF a, j
  <2> QED BY <2>1
<1>3. \A i \in Nat : i \in S
  <2> HIDE DEF S
  <2> QED BY <1>1, <1>2, Induction
<1>4. Value(k, X) = Shr(w, k - k) - 2^k
  BY <1>3
<1>5. k - k = 0 /\ Shr(w, 0) = w
  <2>1. 2^0 = 1
    OBVIOUS
  <2> QED BY <2>1 DEF Shr
<1> QED BY <1>4, <1>5

\* Only the leading bit of a number is left at its place, and none behind it.
LEMMA LeadingBit ==
  ASSUME NEW w \in Nat, NEW n, IsLen(n, w)
  PROVE  Shr(w, n - 1) = 1 /\ \A k \in Nat : n <= k => Shr(w, k) = 0
<1>1. n \in Nat /\ 1 <= n /\ n <= 30 /\ 2^(n - 1) <= w /\ w < 2^n /\ n - 1 \in Nat
  BY DEF IsLen
<1>2. Shr(w, n - 1) = 1
  <2> DEFINE k == n - 1
             m == 2^k
  <2>1. k \in Nat /\ k < 30 /\ k + 1 = n
    BY <1>1
  <2>2. m \in Nat /\ m > 0 /\ 2^(k + 1) = 2 * m
    <3> HIDE DEF k
    <3> QED BY <2>1, PowersOf2, PowerSteps
  <2>3. Shr(w, k) = w \div m
    BY <2>1 DEF Shr
  <2>4. m <= w /\ w < 2 * m
    BY <1>1, <2>1, <2>2
  <2> HIDE DEF m, k
  <2>5. w \div m = 1
    <3> DEFINE q == w \div m
    <3>1. q \in Nat /\ m * q <= w /\ w < m * q + m
      BY <2>2
    <3> HIDE DEF q
    <3>2. q # 0
      BY <2>2, <2>4, <3>1
    <3>3. q >= 2 => m * 2 <= m * q
      BY <2>2, <3>1
    <3>4. ~ (q >= 2)
      BY <2>2, <2>4, <3>1, <3>3
    <3>5. q = 1
      BY <3>1, <3>2, <3>4
    <3> QED BY <3>5 DEF q
  <2> QED BY <2>3, <2>5 DEF k
<1>3. ASSUME NEW k \in Nat, n <= k PROVE Shr(w, k) = 0
  <2>1. CASE k > 30
    BY <2>1 DEF Shr
  <2>2. CASE ~ (k > 30)
    <3> DEFINE m == 2^k
               l == 2^n
    <3>1. l <= m /\ m \in Nat /\ m > 0 /\ l \in Nat /\ w < l
      <4>1. k <= 30 /\ n \in Nat /\ n <= 30
        BY <1>1, <2>2
      <4>2. l <= m
        BY <1>3, <4>1, PowersGrow
      <4>3. m \in Nat /\ m > 0 /\ l \in Nat
        BY <4>1, PowersOf2
      <4> QED BY <1>1, <4>2, <4>3
    <3>2. Shr(w, k) = w \div m
      BY <2>2 DEF Shr
    <3> HIDE DEF m, l
    <3>3. w \div m = 0
      <4> DEFINE q == w \div m
      <4>1. q \in Nat /\ m * q <= w
        BY <3>1
      <4> HIDE DEF q
      <4>2. q >= 1 => m <= m * q
        BY <3>1, <4>1
      <4>3. q = 0
        BY <3>1, <4>1, <4>2
      <4> QED BY <4>3 DEF q
    <3> QED BY <3>2, <3>3
  <2> QED BY <2>1, <2>2
<1> QED BY <1>2, <1>3

\* bs_read_ue counts the zeros up to the leading one, and as many bits follow
\* (bitstream.h:182-194).
LEMMA CodeReadBack ==
  ASSUME NEW r, NEW c, NEW s, Holds(r, c, s), NEW v \in Nat, v + 1 < 2^30,
         c + (2 * GolombLen(v) - 1) <= 8 * Len(r.data),
         \A k \in 1..(2 * GolombLen(v) - 1) : s[c + k] = Golomb(v)[k]
  PROVE  ReadUe(r).r = v
<1> DEFINE len == GolombLen(v)
           n == 2 * len - 1
           w == v + 1
           m == Len(r.data)
           z == len - 1
<1>1. IsLen(len, w) /\ w \in Nat
  BY GolombLenIs
<1>2. len \in Nat /\ 1 <= len /\ len <= 30
  BY <1>1 DEF IsLen
<1>3. r \in Streams /\ At(r) = c /\ s \in [1..(8 * m) -> {0, 1}] /\ c \in Nat /\ m \in Nat
  <2>1. r \in Streams /\ At(r) = c /\ s \in [1..(8 * m) -> {0, 1}]
    BY DEF Holds
  <2> QED BY <2>1, StreamParts
<1>4. c + n <= 8 * m /\ \A k \in 1..n : s[c + k] = Golomb(v)[k]
  OBVIOUS
<1>5. Golomb(v) = BitsOf(w, n)
  BY DEF Golomb
<1> HIDE DEF len, w, m
<1>6. n \in Nat /\ z \in Nat /\ z <= 30 /\ n = 2 * z + 1 /\ len = z + 1
  BY <1>2
<1> HIDE DEF n, z
<1>7. \A k \in 1..n : Bit(s, c + k) = Shr(w, n - k) % 2
  <2> TAKE k \in 1..n
  <2>1. BitsOf(w, n)[k] = Shr(w, n - k) % 2
    BY DEF BitsOf
  <2>2. c + k \in 1..(8 * m)
    BY <1>3, <1>4, <1>6
  <2>3. Bit(s, c + k) = s[c + k]
    BY <1>3, <2>2 DEF Bit
  <2> QED BY <1>4, <1>5, <2>1, <2>3
<1>8. Shr(w, z) = 1 /\ \A k \in Nat : z + 1 <= k => Shr(w, k) = 0
  <2>1. len - 1 = z
    BY <1>6
  <2>2. Shr(w, len - 1) = 1 /\ \A k \in Nat : len <= k => Shr(w, k) = 0
    BY <1>1, LeadingBit
  <2> QED BY <1>6, <2>1, <2>2
<1>9. ASSUME NEW i \in Nat
      PROVE  /\ SkipU(r, i) \in Streams /\ SkipU(r, i).data = r.data /\ At(SkipU(r, i)) = c + i
             /\ Holds(SkipU(r, i), c + i, s)
  <2>1. i \in Int /\ AtLeast0(i) = i
    BY DEF AtLeast0
  <2>2. SkipU(r, i) \in Streams /\ SkipU(r, i).data = r.data /\ At(SkipU(r, i)) = c + i
    BY <1>3, <2>1, SkipMoves
  <2> QED BY <2>2, MovedHolds
<1>10. ASSUME NEW i \in Nat PROVE PeekU1(SkipU(r, i)) = Bit(s, c + (i + 1))
  <2>1. Holds(SkipU(r, i), c + i, s)
    BY <1>9
  <2>2. (c + i) + 1 = c + (i + 1)
    BY <1>3
  <2> QED BY <2>1, <2>2, PeekIsBit
<1>11. ASSUME NEW i \in Nat, i < z PROVE CountsOn(r, i)
  <2>1. i + 1 \in 1..n /\ n - (i + 1) \in Nat /\ z + 1 <= n - (i + 1) /\ i < 32
    BY <1>6, <1>11
  <2>2. Shr(w, n - (i + 1)) = 0
    BY <1>8, <2>1
  <2>3. PeekU1(SkipU(r, i)) = 0
    <3>1. Bit(s, c + (i + 1)) = Shr(w, n - (i + 1)) % 2
      BY <1>7, <2>1
    <3> QED BY <1>10, <2>2, <3>1
  <2>4. ~ Eof(SkipU(r, i + 1))
    <3> DEFINE b == SkipU(r, i + 1)
               p == b.p
               l == b.bits_left
    <3>1. i + 1 \in Nat
      OBVIOUS
    <3>2. b \in Streams /\ b.data = r.data /\ At(b) = c + (i + 1)
      BY <1>9, <3>1
    <3>3. At(b) = 8 * p + 8 - l /\ p \in Nat /\ l \in Int /\ l <= 8
      <4> HIDE DEF b
      <4> QED BY <3>2, StreamParts
    <3>4. Eof(b) <=> p >= m
      BY <3>2 DEF Eof, m
    <3> HIDE DEF b, p, l
    <3>5. c + (i + 1) < 8 * m
      BY <1>3, <1>4, <1>6, <1>11
    <3>6. p < m
      BY <1>3, <3>2, <3>3, <3>5
    <3> QED BY <1>3, <3>3, <3>4, <3>6 DEF b
  <2> QED BY <2>1, <2>3, <2>4 DEF CountsOn
<1>12. ~ CountsOn(r, z)
  <2>1. z + 1 \in 1..n /\ n - (z + 1) = z
    BY <1>6
  <2>2. Bit(s, c + (z + 1)) = Shr(w, z) % 2
    BY <1>7, <2>1
  <2>3. PeekU1(SkipU(r, z)) = 1
    BY <1>6, <1>8, <1>10, <2>2
  <2> QED BY <2>3 DEF CountsOn
<1> DEFINE Q(k) == ~ CountsOn(r, k) /\ \A j \in 0..(k - 1) : CountsOn(r, j)
           i0 == CHOOSE k \in 0..32 : Q(k)
<1>13. i0 = z
  <2>1. z \in 0..32 /\ Q(z)
    <3>1. \A j \in 0..(z - 1) : CountsOn(r, j)
      BY <1>6, <1>11
    <3>2. z \in 0..32
      BY <1>6
    <3> QED BY <1>12, <3>1, <3>2
  <2>2. ASSUME NEW k \in 0..32, Q(k) PROVE k = z
    <3>1. ~ (k < z)
      <4>1. k \in Nat
        OBVIOUS
      <4> QED BY <1>11, <2>2, <4>1
    <3>2. ~ (z < k)
      <4>1. z < k => z \in 0..(k - 1)
        BY <1>6
      <4> QED BY <1>12, <2>2, <4>1
    <3> QED BY <1>6, <3>1, <3>2
  <2> HIDE DEF Q
  <2>0. i0 = CHOOSE k \in 0..32 : Q(k)
    OBVIOUS
  <2> HIDE DEF i0
  <2>3. i0 \in 0..32 /\ Q(i0)
    BY <2>0, <2>1, Zenon
  <2> QED BY <2>2, <2>3
<1>14. ReadUe(r).r = ReadU(SkipU(r, i0 + 1), i0).r + 2^i0 - 1
  BY SMT DEF ReadUe
<1> HIDE DEF i0, Q
<1>15. ReadU(SkipU(r, z + 1), z).r = w - 2^z
  <2> DEFINE X == Bits(s, c + (z + 1), z)
  <2>1. z + 1 \in Nat
    BY <1>6
  <2>2. Holds(SkipU(r, z + 1), c + (z + 1), s)
    BY <1>9, <2>1
  <2>3. ReadU(SkipU(r, z + 1), z).r = Value(z, X)
    BY <1>6, <2>2, ReadIsValue
  <2>4. \A i \in 1..z : X[i] = Shr(w, z - i) % 2
    <3> TAKE i \in 1..z
    <3>1. X[i] = Bit(s, (c + (z + 1)) + i)
      BY DEF Bits
    <3>2. z + 1 + i \in 1..n /\ n - (z + 1 + i) = z - i /\ (c + (z + 1)) + i = c + (z + 1 + i)
      BY <1>3, <1>6
    <3> HIDE DEF X
    <3> QED BY <1>7, <3>1, <3>2
  <2> HIDE DEF X
  <2>5. Value(z, X) = w - 2^z
    BY <1>1, <1>6, <1>8, <2>4, ValueOfLowBits
  <2> QED BY <2>3, <2>5
<1>16. 2^z \in Nat
  BY <1>6, PowersOf2
<1>17. ReadUe(r).r = (w - 2^z) + 2^z - 1
  BY <1>13, <1>14, <1>15
<1> DEFINE x == 2^z
<1> HIDE DEF x
<1>18. x \in Nat /\ ReadUe(r).r = (w - x) + x - 1
  BY <1>16, <1>17 DEF x
<1>19. ReadUe(r).r = w - 1
  BY <1>1, <1>18
<1> QED BY <1>19 DEF w

LEMMA CodeRoundTrip ==
  ASSUME Held, NEW v \in Nat, v + 1 < 2^30, NEW wraps \in BOOLEAN, Legible(v, wraps),
         Fitting(WriteUe(bs, v, wraps))
  PROVE  ReadUe(Rewound(WriteUe(bs, v, wraps))).r = v
<1> DEFINE b == WriteUe(bs, v, wraps)
           r == Rewound(b)
           n == 2 * GolombLen(v) - 1
           z == Golomb(v)
           s == Overwritten(bits, cursor, n, z)
           m == Len(b.data)
<1>0. Code(v, wraps) = z
  <2>1. Len(z) = n /\ n \in Nat
    BY CodeWritten DEF Held
  <2>2. z = BitsOf(v + 1, n)
    BY DEF Golomb
  <2>3. ~wraps \/ n <= 32
    BY <2>1 DEF Legible
  <2>4. Code(v, wraps) = IF wraps THEN Wrapped(z) ELSE z
    BY DEF Code
  <2> HIDE DEF z, n
  <2>5. n <= 32 => Wrapped(z) = z
    <3>1. v + 1 \in Nat /\ (n <= 32 => n < 64)
      BY <2>1
    <3> QED BY <2>1, <2>2, <3>1, ShiftedIs
  <2> QED BY <2>3, <2>4, <2>5
<1>1. n \in Nat /\ Holds(b, cursor + n, s)
  <2>1. n \in Nat /\ Holds(b, cursor + n, Overwritten(bits, cursor, n, Code(v, wraps)))
    BY CodeWritten DEF Held
  <2> QED BY <1>0, <2>1
<1>2. bs \in Streams /\ At(bs) = cursor /\ cursor \in Nat
  BY StreamParts DEF Held, Holds
<1>3. cursor + n <= 8 * m
  <2>1. At(b) <= 8 * m
    BY DEF Fitting
  <2>2. At(b) = cursor + n
    BY <1>1 DEF Holds
  <2> QED BY <2>1, <2>2
<1>4. s = [k \in DOMAIN bits |-> IF cursor < k /\ k <= cursor + n THEN z[k - cursor] ELSE bits[k]]
  BY DEF Overwritten
<1>5. r = [b EXCEPT !.p = bs.p, !.bits_left = bs.bits_left]
  BY DEF Rewound
<1> HIDE DEF b, r, n, z, s
<1>6. b \in Streams /\ DOMAIN s = 1..(8 * m) /\ m \in Nat
  BY <1>1, StreamParts DEF Holds, m
<1>7. r \in Streams /\ r.data = b.data /\ r.p = bs.p /\ r.bits_left = bs.bits_left
  BY <1>2, <1>5, <1>6 DEF Streams
<1>8. Holds(r, cursor, s)
  <2>1. At(r) = cursor
    BY <1>2, <1>7 DEF At
  <2> QED BY <1>1, <1>7, <2>1, MovedHolds
<1>9. ASSUME NEW k \in 1..n PROVE s[cursor + k] = z[k]
  <2>1. /\ cursor + k \in DOMAIN s /\ cursor < cursor + k /\ cursor + k <= cursor + n
        /\ (cursor + k) - cursor = k
    BY <1>1, <1>2, <1>3, <1>6
  <2>2. cursor + k \in DOMAIN bits
    BY <1>4, <2>1
  <2>3. s[cursor + k] = z[(cursor + k) - cursor]
    BY <1>4, <2>1, <2>2
  <2> QED BY <2>1, <2>3
<1>10. cursor + n <= 8 * Len(r.data)
  BY <1>3, <1>7 DEF m
<1>11. ReadUe(r).r = v
  BY <1>8, <1>9, <1>10, CodeReadBack DEF n, z
<1> QED BY <1>11 DEF r, b

LEMMA SignedRoundTrip ==
  ASSUME Held, NEW i \in Int, Signed(i) \in Nat, Signed(i) + 1 < 2^30, NEW wraps \in BOOLEAN,
         Legible(Signed(i), wraps), Fitting(WriteSe(bs, i, wraps))
  PROVE  ReadSe(Rewound(WriteSe(bs, i, wraps))).r = i
<1> DEFINE u == Signed(i)
           r == Rewound(WriteSe(bs, i, wraps))
<1>1. WriteSe(bs, i, wraps) = WriteUe(bs, u, wraps)
  <2>1. i <= 0 => -i * 2 = -2 * i
    OBVIOUS
  <2>2. i > 0 => i * 2 - 1 = 2 * i - 1
    OBVIOUS
  <2> QED BY <2>1, <2>2 DEF WriteSe, Signed
<1>2. ReadUe(r).r = u
  <2> HIDE DEF u
  <2>1. ReadUe(Rewound(WriteUe(bs, u, wraps))).r = u
    BY <1>1, CodeRoundTrip DEF u
  <2> QED BY <1>1, <2>1
<1>3. u = IF i <= 0 THEN -2 * i ELSE 2 * i - 1
  BY DEF Signed
<1>4. ReadSe(r).r = IF ReadUe(r).r % 2 = 1 THEN (ReadUe(r).r + 1) \div 2 ELSE -(ReadUe(r).r \div 2)
  BY DEF ReadSe
<1> HIDE DEF u, r
<1>5. ReadSe(r).r = IF u % 2 = 1 THEN (u + 1) \div 2 ELSE -(u \div 2)
  BY <1>2, <1>4
<1>6. ReadSe(r).r = i
  BY <1>3, <1>5
<1> QED BY <1>6 DEF r

LEMMA HeldRoundTrip ==
  ASSUME ShortCodes
  PROVE  Held => GolombRoundTrip
<1> SUFFICES ASSUME Held, NEW v \in Values, NEW wraps \in BOOLEAN
             PROVE  /\ Legible(v, wraps) /\ Fitting(WriteUe(bs, v, wraps))
                         => ReadUe(Rewound(WriteUe(bs, v, wraps))).r = v
                    /\ \A i \in {v, -v} :
                         Legible(Signed(i), wraps) /\ Fitting(WriteSe(bs, i, wraps))
                           => ReadSe(Rewound(WriteSe(bs, i, wraps))).r = i
  BY DEF GolombRoundTrip
<1> DEFINE m == 2^30
<1>1. v \in Nat /\ 2 * v + 1 < m /\ m \in Nat
  BY BitStreamAssumption, PowersOf2 DEF ShortCodes
<1> HIDE DEF m
<1>2. v + 1 < m
  BY <1>1
<1>3. ASSUME NEW i \in {v, -v} PROVE i \in Int /\ Signed(i) \in Nat /\ Signed(i) + 1 < m
  <2>1. i = v \/ i = -v
    OBVIOUS
  <2> QED BY <1>1, <2>1 DEF Signed
<1>4. Legible(v, wraps) /\ Fitting(WriteUe(bs, v, wraps))
        => ReadUe(Rewound(WriteUe(bs, v, wraps))).r = v
  BY <1>1, <1>2, CodeRoundTrip DEF m
<1>5. ASSUME NEW i \in {v, -v}, Legible(Signed(i), wraps), Fitting(WriteSe(bs, i, wraps))
      PROVE  ReadSe(Rewound(WriteSe(bs, i, wraps))).r = i
  BY <1>3, <1>5, SignedRoundTrip DEF m
<1> QED BY <1>4, <1>5

\* A number written as a code is read back, signed or not, wherever in a byte the code
\* starts and whatever surrounds it, if the memory holds it (bitstream.h:182-208, 251-318)
\* - one below 65535 in any build, a larger one only where a shift by 32 bits and more
\* leaves nothing (bitstream.h:232).
THEOREM CodesReadBack ==
  ASSUME ShortCodes
  PROVE  BsSpec => []GolombRoundTrip
BY StreamHeld, HeldRoundTrip, PTL
=============================================================================
