---------------------- MODULE SmartLinkCapture_proofs -----------------------
(***************************************************************************)
(* From the bytes of a packet to the decoder, for any packets.             *)
(*                                                                         *)
(* The argument: the parser never leaves the boundary of a byte, so that   *)
(* its bit stream reads the bytes of the buffer, and zeros behind the end. *)
(***************************************************************************)
EXTENDS SmartLinkCapture, SmartLinkRx_proofs, SequenceTheorems

\* A stream over d whose cursor is at the beginning of byte k.
Stream(d, k) == [data |-> d, start |-> 0, p |-> k, bits_left |-> 8]

\* Byte k of d, or the zero that is read behind its end.
ByteAt(d, k) == IF k < Len(d) THEN d[k + 1] ELSE 0

-----------------------------------------------------------------------------
(***************************************************************************)
(* The stream                                                              *)
(***************************************************************************)
\* Skipping whole bytes; a negative number of them skips nothing.
LEMMA SkipAligned ==
  ASSUME NEW d, NEW k \in Nat, NEW n \in Int
  PROVE  SkipU(Stream(d, k), 8 * n) = Stream(d, k + AtLeast0(n)) /\ AtLeast0(n) \in Nat
<1> DEFINE passed == 8 - 8 + AtLeast0(8 * n)
<1>1. AtLeast0(n) \in Nat /\ passed = 8 * AtLeast0(n)
  BY DEF AtLeast0
<1>2. passed \div 8 = AtLeast0(n) /\ passed % 8 = 0
  BY <1>1
<1>3. SkipU(Stream(d, k), 8 * n) =
        [data |-> d, start |-> 0, p |-> k + passed \div 8, bits_left |-> 8 - (passed % 8)]
  <2> DEFINE b == Stream(d, k)
             q == (8 - b.bits_left + AtLeast0(8 * n)) \div 8
             r == (8 - b.bits_left + AtLeast0(8 * n)) % 8
  <2>1. SkipU(b, 8 * n) = [b EXCEPT !.p = @ + q, !.bits_left = 8 - r]
    BY DEF SkipU
  <2>2. q = passed \div 8 /\ r = passed % 8
    BY DEF Stream
  <2> HIDE DEF q, r, passed
  <2>3. SkipU(b, 8 * n) = [data |-> d, start |-> 0, p |-> k + q, bits_left |-> 8 - r]
    BY <2>1 DEF Stream
  <2> QED BY <2>2, <2>3
<1> HIDE DEF passed
<1>4. 8 - (passed % 8) = 8 /\ k + passed \div 8 = k + AtLeast0(n)
  BY <1>2
<1> QED BY <1>1, <1>3, <1>4 DEF Stream

\* The bits of a byte behind the end are zeros.
LEMMA ReadsZero ==
  ASSUME NEW d \in Seq(Byte), NEW k \in Nat, ~ (k < Len(d))
  PROVE  ReadU(Stream(d, k), 8).r = 0
<1> DEFINE s == Stream(d, k)
           Is(r) == r = [i \in 0..8 |-> IF i = 0 THEN 0 ELSE 2 * r[i - 1] + ReadU1(SkipU(s, i - 1)).r]
           r0 == CHOOSE r : Is(r)
<1>1. \A i \in 1..8 : ReadU1(SkipU(s, i - 1)).r = 0
  <2> TAKE i \in 1..8
  <2>1. (8 - 8 + AtLeast0(i - 1)) \div 8 = 0
    BY DEF AtLeast0
  <2>2. SkipU(s, i - 1).p = k /\ SkipU(s, i - 1).data = d
    BY <2>1 DEF SkipU, Stream
  <2> QED BY <2>2 DEF ReadU1, PeekU1, Eof
<1>2. ReadU(s, 8).r = r0[8]
  BY DEF ReadU
<1>3. Is(r0)
  <2> DEFINE zeros == [i \in 0..8 |-> 0]
  <2>1. Is(zeros)
    <3>1. \A i \in 0..8 : zeros[i] = IF i = 0 THEN 0 ELSE 2 * zeros[i - 1] + ReadU1(SkipU(s, i - 1)).r
      <4> TAKE i \in 0..8
      <4>1. i # 0 => i \in 1..8 /\ i - 1 \in 0..8
        OBVIOUS
      <4> QED BY <1>1, <4>1
    <3> QED BY <3>1
  <2> HIDE DEF Is, zeros
  <2> QED BY <2>1, Zenon
<1>4. r0[0] = 0 /\ \A i \in 1..8 : r0[i - 1] = 0 => r0[i] = 0
  <2> HIDE DEF r0
  <2>1. \A i \in 0..8 : r0[i] = IF i = 0 THEN 0 ELSE 2 * r0[i - 1] + ReadU1(SkipU(s, i - 1)).r
    <3> DEFINE F(i) == IF i = 0 THEN 0 ELSE 2 * r0[i - 1] + ReadU1(SkipU(s, i - 1)).r
    <3>1. r0 = [i \in 0..8 |-> F(i)]
      BY <1>3
    <3> HIDE DEF F
    <3>2. \A i \in 0..8 : r0[i] = F(i)
      BY <3>1
    <3> QED BY <3>2 DEF F
  <2> HIDE DEF s
  <2>2. ASSUME NEW i \in 1..8, r0[i - 1] = 0
        PROVE  r0[i] = 0
    <3>1. i \in 0..8 /\ i # 0
      OBVIOUS
    <3> QED BY <1>1, <2>1, <2>2, <3>1
  <2> QED BY <2>1, <2>2
<1> HIDE DEF r0
<1>5. r0[8] = 0
  BY <1>4
<1> QED BY <1>2, <1>5

LEMMA ByteAtType ==
  ASSUME NEW d \in Seq(Byte), NEW k \in Nat
  PROVE  ByteAt(d, k) \in Byte /\ ByteAt(d, k) \in Int /\ 0 <= ByteAt(d, k) /\ ByteAt(d, k) < 256
<1>1. ByteAt(d, k) \in Byte
  BY ByteRange DEF ByteAt
<1> QED BY <1>1, ByteRange

\* Reading a byte, on the fast path or behind the end.
LEMMA ReadAligned ==
  ASSUME NEW d \in Seq(Byte), NEW k \in Nat
  PROVE  ReadU8(Stream(d, k)).b = Stream(d, k + 1) /\ ReadU8(Stream(d, k)).r = ByteAt(d, k)
<1> DEFINE s == Stream(d, k)
<1>1. s.bits_left = 8 /\ s.p = k /\ s.data = d
  BY DEF Stream
<1>2. CASE k < Len(d)
  <2>1. ReadU8(s) = [b |-> [s EXCEPT !.p = @ + 1], r |-> d[k + 1]]
    BY <1>1, <1>2 DEF ReadU8, ByteAligned, Eof
  <2> QED BY <1>2, <2>1 DEF ByteAt, Stream
<1>3. CASE ~ (k < Len(d))
  <2>1. ReadU8(s) = ReadU(s, 8)
    <3>1. Eof(s)
      BY <1>1, <1>3 DEF Eof
    <3> QED BY <3>1 DEF ReadU8
  <2>2. ReadU(s, 8).b = Stream(d, k + 1)
    <3>1. SkipU(s, 8 * 1) = Stream(d, k + AtLeast0(1)) /\ AtLeast0(1) = 1
      BY SkipAligned DEF AtLeast0
    <3> QED BY <3>1 DEF ReadU
  <2> QED BY <1>3, <2>1, <2>2, ReadsZero DEF ByteAt
<1> QED BY <1>2, <1>3

-----------------------------------------------------------------------------
(***************************************************************************)
(* The parser                                                              *)
(***************************************************************************)
\* Where the 802.11 frame begins: behind the radiotap header, which has three
\* bytes at least.
FrameAt(d) == IF ByteAt(d, 2) < 3 THEN 3 ELSE ByteAt(d, 2)

LEMMA HeaderRead ==
  ASSUME NEW d \in Seq(Byte)
  PROVE  /\ HeaderLength(Bs(d)) = ByteAt(d, 2)
         /\ ReadU8(SkipU(Bs(d), 16)).b = Stream(d, 3)
<1>1. Bs(d) = Stream(d, 0)
  BY DEF Bs, Stream
<1>2. SkipU(Stream(d, 0), 8 * 2) = Stream(d, 0 + AtLeast0(2)) /\ AtLeast0(2) = 2
  BY SkipAligned DEF AtLeast0
<1>3. SkipU(Bs(d), 16) = Stream(d, 2)
  BY <1>1, <1>2
<1>4. ReadU8(Stream(d, 2)).b = Stream(d, 2 + 1) /\ ReadU8(Stream(d, 2)).r = ByteAt(d, 2)
  <2>1. 2 \in Nat
    OBVIOUS
  <2> QED BY <2>1, ReadAligned
<1> QED BY <1>3, <1>4 DEF HeaderLength

LEMMA FrameFound ==
  ASSUME NEW d \in Seq(Byte)
  PROVE  AtFrame(Bs(d)) = Stream(d, FrameAt(d)) /\ FrameAt(d) \in Nat
<1> DEFINE h == ByteAt(d, 2)
           pos == Pos(Stream(d, 3))
<1>1. h \in Int /\ 0 <= h /\ h < 256 /\ FrameAt(d) \in Nat
  BY ByteAtType DEF FrameAt
<1>2. pos = IF 3 > Len(d) THEN Len(d) ELSE 3
  BY DEF Pos, Overrun, Stream
<1>3. 3 > Len(d) => h = 0
  BY DEF ByteAt
<1>4. Len(d) \in Nat
  OBVIOUS
<1> HIDE DEF h, pos
<1>5. AtFrame(Bs(d)) = SkipU(Stream(d, 3), 8 * (h - pos))
  BY HeaderRead DEF AtFrame, h, pos
<1>6. h - pos \in Int
  BY <1>1, <1>2, <1>4
<1>7. SkipU(Stream(d, 3), 8 * (h - pos)) = Stream(d, 3 + AtLeast0(h - pos))
  BY <1>6, SkipAligned
<1>8. 3 + AtLeast0(h - pos) = IF h < 3 THEN 3 ELSE h
  BY <1>1, <1>2, <1>3, <1>4 DEF AtLeast0
<1> QED BY <1>1, <1>5, <1>7, <1>8 DEF FrameAt, h

\* The bytes of the source address.
LEMMA SourceRead ==
  ASSUME NEW d \in Seq(Byte)
  PROVE  /\ SourceAddress(Bs(d)) = [i \in 1..MAC_LEN |-> ByteAt(d, FrameAt(d) + 15 + i)]
         /\ SourceAddress(Bs(d)) \in [1..MAC_LEN -> Byte]
<1> DEFINE at == FrameAt(d)
<1>1. at \in Nat
  BY FrameFound
<1> HIDE DEF at
<1>2. AtSource(Bs(d)) = Stream(d, at + 16)
  <2>1. SkipU(Stream(d, at), 8 * 16) = Stream(d, at + AtLeast0(16)) /\ AtLeast0(16) = 16
    BY <1>1, SkipAligned DEF AtLeast0
  <2>2. 1 + 1 + 2 + 2 * MAC_LEN = 16
    BY DEF MAC_LEN
  <2> QED BY <2>1, <2>2, FrameFound DEF AtSource, at
<1>3. ASSUME NEW i \in 1..MAC_LEN
      PROVE  ReadU8(SkipU(AtSource(Bs(d)), 8 * (i - 1))).r = ByteAt(d, at + 15 + i)
  <2>1. i \in Int /\ i - 1 \in Int /\ 0 <= i - 1
    BY DEF MAC_LEN
  <2>2. AtLeast0(i - 1) = i - 1 /\ at + 16 \in Nat /\ at + 16 + (i - 1) = at + 15 + i
    BY <1>1, <2>1 DEF AtLeast0
  <2>3. SkipU(Stream(d, at + 16), 8 * (i - 1)) = Stream(d, at + 16 + AtLeast0(i - 1))
    BY <2>1, <2>2, SkipAligned
  <2>4. SkipU(AtSource(Bs(d)), 8 * (i - 1)) = Stream(d, at + 15 + i) /\ at + 15 + i \in Nat
    BY <1>1, <1>2, <2>1, <2>2, <2>3
  <2> QED BY <2>4, ReadAligned
<1>4. \A i \in 1..MAC_LEN : ByteAt(d, at + 15 + i) \in Byte
  <2> TAKE i \in 1..MAC_LEN
  <2>1. at + 15 + i \in Nat
    BY <1>1 DEF MAC_LEN
  <2> QED BY <2>1, ByteAtType
<1> QED BY <1>3, <1>4, Zenon DEF SourceAddress, at

\* What the parser makes of a buffer.
LEMMA Parsed ==
  ASSUME NEW d \in Seq(Byte), RadiotapHeader(d)
  PROVE  /\ radiotap'.frame_type = ByteAt(d, FrameAt(d)) /\ radiotap'.frame_type \in Byte
         /\ radiotap' = [frame_type |-> radiotap'.frame_type, saddr |-> radiotap'.saddr]
         /\ radiotap'.frame_type = DataFrame =>
              /\ radiotap'.saddr = [i \in 1..MAC_LEN |-> ByteAt(d, FrameAt(d) + 15 + i)]
              /\ radiotap'.saddr \in [1..MAC_LEN -> Byte]
              /\ sendlen' = Len(d) - ByteAt(d, 2) - MacOverhead
         /\ radiotap'.frame_type # DataFrame => radiotap'.saddr = radiotap.saddr /\ sendlen' = SMART_FAIL
<1> DEFINE type == ByteAt(d, FrameAt(d))
<1>1. ReadU8(AtFrame(Bs(d))).r = type /\ type \in Byte
  BY FrameFound, ReadAligned, ByteAtType
<1> HIDE DEF type
<1>2. /\ radiotap' = [frame_type |-> type,
                      saddr |-> IF type = DataFrame THEN SourceAddress(Bs(d)) ELSE radiotap.saddr]
      /\ sendlen' = IF type = DataFrame THEN Len(d) - ByteAt(d, 2) - MacOverhead ELSE SMART_FAIL
  BY <1>1, HeaderRead DEF RadiotapHeader
<1>3. /\ radiotap'.frame_type = type
      /\ radiotap'.saddr = IF type = DataFrame THEN SourceAddress(Bs(d)) ELSE radiotap.saddr
  BY <1>2
<1> QED BY <1>1, <1>2, <1>3, SourceRead DEF type

-----------------------------------------------------------------------------
(***************************************************************************)
(* One turn of the loop                                                    *)
(***************************************************************************)
\* What recvfrom leaves of a packet.
Received(p) == IF Len(p) < PACKET_MAX THEN p ELSE SubSeq(p, 1, PACKET_MAX - 1)

LEMMA ReceivedBytes ==
  ASSUME NEW p \in Seq(Byte)
  PROVE  /\ Received(p) \in Seq(Byte) /\ Len(p) \in Nat
         /\ Len(Received(p)) = IF Len(p) < 1500 THEN Len(p) ELSE 1499
         /\ \A k \in Nat : k < Len(Received(p)) => ByteAt(Received(p), k) = p[k + 1]
<1>1. CASE Len(p) < PACKET_MAX
  BY <1>1 DEF Received, PACKET_MAX, ByteAt
<1>2. CASE ~ (Len(p) < PACKET_MAX)
  <2> DEFINE n == PACKET_MAX - 1
             d == SubSeq(p, 1, n)
  <2>1. Len(p) \in Nat /\ n \in Nat /\ n <= Len(p) /\ n = 1499 /\ ~ (Len(p) < 1500)
    BY <1>2 DEF PACKET_MAX
  <2>2. Received(p) = d
    BY <1>2 DEF Received
  <2> HIDE DEF n
  <2>7. n \in Int /\ 0 <= n /\ n <= Len(p)
    BY <2>1
  <2>8. \A i \in 1..n : p[i] \in Byte
    BY <2>7
  <2>3. d \in Seq(Byte) /\ Len(d) = n
    BY <2>7, <2>8, SubSeqProperties
  <2>4. \A k \in Nat : k < n => d[k + 1] = p[k + 1]
    BY <2>1
  <2> HIDE DEF d
  <2>5. \A k \in Nat : k < Len(d) => ByteAt(d, k) = p[k + 1]
    BY <2>3, <2>4 DEF ByteAt
  <2> QED BY <2>1, <2>2, <2>3, <2>5
<1> QED BY <1>1, <1>2

\* What is known of a buffer with a data frame in it, and of one without.
LEMMA DatagramParsed ==
  ASSUME NEW p \in Seq(Byte), RevcRawpacket(p), sendlen' > 0
  PROVE  /\ Len(Received(p)) > p[3] + 76 /\ p[3] \in Byte /\ Len(Received(p)) > 76
         /\ p[HeaderOf(p) + 1] = DataFrame /\ HeaderOf(p) + 22 <= Len(Received(p))
         /\ sendlen' = Len(Received(p)) - p[3] - 76
         /\ radiotap'.saddr = [i \in 1..MAC_LEN |-> p[HeaderOf(p) + 16 + i]]
<1> DEFINE d == Received(p)
           h == ByteAt(d, 2)
<1>1. d \in Seq(Byte) /\ Len(d) \in Nat /\ \A k \in Nat : k < Len(d) => ByteAt(d, k) = p[k + 1]
  BY ReceivedBytes
<1>2. RadiotapHeader(d)
  BY DEF RevcRawpacket, Received
<1> HIDE DEF d
<1>3. h \in Byte /\ h \in Int /\ 0 <= h /\ h < 256
  BY <1>1, ByteAtType
<1>4. radiotap'.frame_type = DataFrame
  <2>1. radiotap'.frame_type # DataFrame => sendlen' = SMART_FAIL
    BY <1>1, <1>2, Parsed
  <2> QED BY <2>1 DEF SMART_FAIL
<1>5. sendlen' = Len(d) - h - 76 /\ ByteAt(d, FrameAt(d)) = DataFrame
      /\ radiotap'.saddr = [i \in 1..MAC_LEN |-> ByteAt(d, FrameAt(d) + 15 + i)]
  BY <1>1, <1>2, <1>4, Parsed DEF MacOverhead
<1> HIDE DEF h
<1>6. Len(d) > h + 76 /\ Len(d) > 76
  BY <1>1, <1>3, <1>5
<1>7. h = p[3]
  BY <1>1, <1>6 DEF h
<1>8. FrameAt(d) = HeaderOf(p) /\ FrameAt(d) \in Nat /\ FrameAt(d) + 22 <= Len(d)
  BY <1>1, <1>3, <1>6, <1>7 DEF FrameAt, HeaderOf, h
<1>9. ByteAt(d, FrameAt(d)) = p[HeaderOf(p) + 1]
  BY <1>1, <1>8
<1>10. ASSUME NEW i \in 1..MAC_LEN
       PROVE  ByteAt(d, FrameAt(d) + 15 + i) = p[HeaderOf(p) + 16 + i]
  <2> DEFINE k == FrameAt(d) + 15 + i
  <2>1. k \in Nat /\ k < Len(d) /\ k + 1 = HeaderOf(p) + 16 + i
    BY <1>1, <1>8 DEF MAC_LEN
  <2> HIDE DEF k
  <2>2. ByteAt(d, k) = p[k + 1]
    BY <1>1, <2>1
  <2> QED BY <2>1, <2>2 DEF k
<1>11. radiotap'.saddr = [i \in 1..MAC_LEN |-> p[HeaderOf(p) + 16 + i]]
  BY <1>5, <1>10, Zenon
<1> QED BY <1>3, <1>5, <1>6, <1>7, <1>8, <1>9, <1>11 DEF d

\* A whole data frame always comes out, however long it is: the longest header
\* leaves room for some of it.
LEMMA CarriedParsed ==
  ASSUME NEW p \in Seq(Byte), RevcRawpacket(p), Carries(p)
  PROVE  sendlen' = Len(Received(p)) - p[3] - 76 /\ sendlen' > 0
<1> DEFINE d == Received(p)
           h == ByteAt(d, 2)
<1>1. d \in Seq(Byte)
  BY ReceivedBytes
<1>2. RadiotapHeader(d)
  BY DEF RevcRawpacket, Received
<1>3. Len(p) \in Nat /\ Len(d) \in Nat /\ Len(d) = IF Len(p) < 1500 THEN Len(p) ELSE 1499
  BY ReceivedBytes
<1>4. \A k \in Nat : k < Len(d) => ByteAt(d, k) = p[k + 1]
  BY ReceivedBytes
<1> HIDE DEF d
<1>5. h \in Int /\ 0 <= h /\ h < 256
  BY <1>1, ByteAtType
<1>6. Len(p) > 2 /\ Len(p) > p[3] + 76 /\ p[HeaderOf(p) + 1] = DataFrame
  BY DEF Carries, MacOverhead
<1>7. h = p[3]
  <2>1. 2 < Len(d)
    BY <1>3, <1>6
  <2> QED BY <1>4, <2>1
<1> HIDE DEF h
<1>8. Len(d) > h + 76
  BY <1>3, <1>5, <1>6, <1>7
<1>9. FrameAt(d) = HeaderOf(p) /\ FrameAt(d) \in Nat /\ FrameAt(d) < Len(d)
  <2>1. FrameAt(d) = IF h < 3 THEN 3 ELSE h
    BY DEF FrameAt, h
  <2>2. HeaderOf(p) = IF h < 3 THEN 3 ELSE h
    BY <1>7 DEF HeaderOf
  <2> QED BY <1>3, <1>5, <1>8, <2>1, <2>2
<1>10. ByteAt(d, FrameAt(d)) = DataFrame
  BY <1>4, <1>6, <1>9
<1>11. sendlen' = Len(d) - h - 76
  <2>1. radiotap'.frame_type = DataFrame
    BY <1>1, <1>2, <1>10, Parsed
  <2> QED BY <1>1, <1>2, <2>1, Parsed DEF h, MacOverhead
<1> QED BY <1>3, <1>5, <1>7, <1>8, <1>11 DEF d

\* What is found in a packet is what the packet carries.
LEMMA FoundIsCarried ==
  ASSUME NEW p \in Seq(Byte), RevcRawpacket(p), sendlen' > 0
  PROVE  Carries(p) /\ radiotap'.saddr = AsFrame(p).src
<1> DEFINE d == Received(p)
<1>1. Len(d) \in Nat /\ Len(p) \in Nat /\ Len(d) <= Len(p)
  <2>1. Len(p) \in Nat /\ Len(d) = IF Len(p) < 1500 THEN Len(p) ELSE 1499
    BY ReceivedBytes
  <2> HIDE DEF d
  <2> QED BY <2>1
<1>2. /\ Len(d) > p[3] + 76 /\ p[3] \in Byte /\ Len(d) > 76
      /\ p[HeaderOf(p) + 1] = DataFrame
      /\ radiotap'.saddr = [i \in 1..MAC_LEN |-> p[HeaderOf(p) + 16 + i]]
  BY DatagramParsed
<1> HIDE DEF d
<1>3. Carries(p)
  <2>1. p[3] \in Int
    BY <1>2, ByteRange
  <2>2. Len(p) > 2 /\ Len(p) > p[3] + MacOverhead
    BY <1>1, <1>2, <2>1 DEF MacOverhead
  <2> QED BY <1>2, <2>2 DEF Carries
<1>4. AsFrame(p).src = [i \in 1..MAC_LEN |-> p[HeaderOf(p) + 16 + i]]
  BY <1>3 DEF AsFrame
<1> QED BY <1>2, <1>3, <1>4

-----------------------------------------------------------------------------
(***************************************************************************)
(* The invariant                                                           *)
(***************************************************************************)
\* The parser's results keep their types.
LEMMA ParserTypes ==
  ASSUME WlanTypeOK, NEW p \in Seq(Byte), RevcRawpacket(p)
  PROVE  WlanTypeOK'
<1> DEFINE d == Received(p)
           h == ByteAt(d, 2)
           type == radiotap'.frame_type
           saddr == radiotap'.saddr
<1>1. d \in Seq(Byte)
  BY ReceivedBytes
<1>2. Len(d) \in Int /\ 0 <= Len(d) /\ Len(d) <= 1499
  <2>1. Len(p) \in Nat /\ Len(d) = IF Len(p) < 1500 THEN Len(p) ELSE 1499
    BY ReceivedBytes
  <2> HIDE DEF d
  <2> QED BY <2>1
<1>3. RadiotapHeader(d)
  BY DEF RevcRawpacket, Received
<1> HIDE DEF d
<1>4. h \in Int /\ 0 <= h /\ h < 256
  BY <1>1, ByteAtType
<1>5. /\ type \in Byte
      /\ radiotap' = [frame_type |-> type, saddr |-> saddr]
      /\ type = DataFrame => saddr \in [1..MAC_LEN -> Byte] /\ sendlen' = Len(d) - h - MacOverhead
      /\ type # DataFrame => saddr = radiotap.saddr /\ sendlen' = SMART_FAIL
  BY <1>1, <1>3, Parsed
<1> HIDE DEF h, type, saddr
<1>6. sendlen' \in Int /\ -331 <= sendlen' /\ sendlen' <= 1423
  BY <1>2, <1>4, <1>5 DEF MacOverhead, SMART_FAIL
<1>7. radiotap' \in [frame_type : Byte, saddr : [1..MAC_LEN -> Byte]]
  <2>1. radiotap.saddr \in [1..MAC_LEN -> Byte]
    BY DEF WlanTypeOK
  <2> QED BY <1>5, <2>1
<1>8. sendlen' \in -(255 + MacOverhead)..(PACKET_MAX - 1 - MacOverhead)
  <2>1. -(255 + MacOverhead) = -331 /\ PACKET_MAX - 1 - MacOverhead = 1423
    BY DEF MacOverhead, PACKET_MAX
  <2> DEFINE lo == -(255 + MacOverhead)
             hi == PACKET_MAX - 1 - MacOverhead
  <2> HIDE DEF lo, hi
  <2>2. lo \in Int /\ hi \in Int /\ lo <= sendlen' /\ sendlen' <= hi
    BY <1>6, <2>1 DEF lo, hi
  <2>3. sendlen' \in lo..hi
    BY <1>6, <2>2
  <2> QED BY <2>3 DEF lo, hi
<1> QED BY <1>7, <1>8 DEF WlanTypeOK

\* The two results of one turn, for a packet and for none.
LEMMA ParserStep ==
  ASSUME WlanTypeOK, AddressIsOfThisFrame, [Process]_captureVars
  PROVE  WlanTypeOK' /\ AddressIsOfThisFrame'
<1>1. ASSUME NEW p \in Packets, RevcRawpacket(p)
      PROVE  WlanTypeOK' /\ AddressIsOfThisFrame'
  <2>1. p \in Seq(Byte) /\ packet' = p
    BY <1>1, PacketsAssumption DEF RevcRawpacket
  <2>2. WlanTypeOK'
    BY <1>1, <2>1, ParserTypes
  <2>3. ASSUME sendlen' > 0
        PROVE  /\ HeaderOf(p) + 22 <= Len(p)
               /\ \A i \in 1..MAC_LEN : radiotap'.saddr[i] = p[HeaderOf(p) + 16 + i]
    <3> DEFINE d == Received(p)
    <3>1. Len(p) \in Nat /\ Len(d) = IF Len(p) < 1500 THEN Len(p) ELSE 1499
      BY <2>1, ReceivedBytes
    <3>2. /\ p[3] \in Byte /\ HeaderOf(p) + 22 <= Len(d)
          /\ radiotap'.saddr = [i \in 1..MAC_LEN |-> p[HeaderOf(p) + 16 + i]]
      BY <1>1, <2>1, <2>3, DatagramParsed
    <3> HIDE DEF d
    <3>3. HeaderOf(p) \in Int
      BY <3>2, ByteRange DEF HeaderOf
    <3>4. HeaderOf(p) + 22 <= Len(p)
      BY <3>1, <3>2, <3>3
    <3> QED BY <3>2, <3>4
  <2>4. AddressIsOfThisFrame'
    BY <2>1, <2>3 DEF AddressIsOfThisFrame, HeaderOf
  <2> QED BY <2>2, <2>4
<1>2. ASSUME RevcNothing
      PROVE  WlanTypeOK' /\ AddressIsOfThisFrame'
  <2>1. sendlen' \in {-1, 0} /\ radiotap' = radiotap
    BY <1>2 DEF RevcNothing
  <2>2. sendlen' \in -(255 + MacOverhead)..(PACKET_MAX - 1 - MacOverhead)
    BY <2>1 DEF MacOverhead, PACKET_MAX
  <2> QED BY <2>1, <2>2 DEF WlanTypeOK, AddressIsOfThisFrame
<1>3. ASSUME UNCHANGED captureVars
      PROVE  WlanTypeOK' /\ AddressIsOfThisFrame'
  BY <1>3 DEF captureVars, wlanVars, WlanTypeOK, AddressIsOfThisFrame
<1> QED BY <1>1, <1>2, <1>3 DEF Process

LEMMA ParserInit == WlanInit => WlanTypeOK /\ AddressIsOfThisFrame
<1> SUFFICES ASSUME WlanInit PROVE WlanTypeOK /\ AddressIsOfThisFrame
  OBVIOUS
<1>1. 0 \in Byte
  BY ByteRange
<1>2. radiotap \in [frame_type : Byte, saddr : [1..MAC_LEN -> Byte]]
  BY <1>1 DEF WlanInit
<1>3. sendlen = 0 /\ 0 \in -(255 + MacOverhead)..(PACKET_MAX - 1 - MacOverhead)
  BY DEF WlanInit, MacOverhead, PACKET_MAX
<1> QED BY <1>2, <1>3 DEF WlanTypeOK, AddressIsOfThisFrame

\* No flag above 87 comes out of recvfrom's buffer, even if a frame has no
\* radiotap header at all (sockets.c:50, wlan80211.c:50).
LEMMA SendlenFlag ==
  ASSUME NEW n \in Int, 0 < n, n <= 1423
  PROVE  FlagOf(n) \in FlagsHeard /\ DataOf(n) \in Nibble
BY DEF FlagOf, DataOf, LenBase, U8, Nibble, FlagsHeard

\* What the decoder does with the result for one packet.
LEMMA DecodeStep ==
  ASSUME RxInv, SentByStations, NEW p \in Packets, RevcRawpacket(p), Decode, WlanTypeOK'
  PROVE  RxInv'
<1>1. CASE sendlen' <= 0
  BY <1>1, StutterStep DEF Decode
<1>2. CASE ~ (sendlen' <= 0)
  <2> DEFINE g == [len |-> sendlen', src |-> radiotap'.saddr]
  <2>1. sendlen' \in Int /\ 0 < sendlen' /\ sendlen' <= 1423
    <3>1. PACKET_MAX - 1 - MacOverhead = 1423 /\ -(255 + MacOverhead) = -331
      BY DEF PACKET_MAX, MacOverhead
    <3> DEFINE lo == -(255 + MacOverhead)
               hi == PACKET_MAX - 1 - MacOverhead
    <3>2. sendlen' \in lo..hi
      BY DEF WlanTypeOK
    <3>3. lo \in Int /\ hi = 1423
      BY <3>1
    <3> HIDE DEF lo, hi
    <3> QED BY <1>2, <3>2, <3>3
  <2>2. p \in Seq(Byte)
    BY PacketsAssumption
  <2>3. radiotap'.saddr \in Stations
    BY <2>1, <2>2, FoundIsCarried DEF SentByStations
  <2>4. g \in Decoded
    BY <2>1, <2>3, SendlenFlag DEF Decoded
  <2>5. RxDecode(g)
    BY <1>2 DEF Decode
  <2> HIDE DEF g
  <2> QED BY <2>4, <2>5, HighStep, LowStep, ResyncStep, StutterStep DEF RxDecode, Ignore
<1> QED BY <1>1, <1>2

CaptureInv == RxInv /\ WlanTypeOK /\ AddressIsOfThisFrame

LEMMA CaptureInvariance == ASSUME SentByStations PROVE CaptureSpec => []CaptureInv
<1>1. CaptureInit => CaptureInv
  BY InitInv, ParserInit DEF CaptureInit, CaptureInv
<1>2. CaptureInv /\ [Process]_captureVars => CaptureInv'
  <2> SUFFICES ASSUME CaptureInv, [Process]_captureVars PROVE CaptureInv'
    OBVIOUS
  <2>1. WlanTypeOK' /\ AddressIsOfThisFrame'
    BY ParserStep DEF CaptureInv
  <2>2. RxInv'
    <3>1. ASSUME NEW p \in Packets, RevcRawpacket(p), Decode PROVE RxInv'
      BY <2>1, <3>1, DecodeStep DEF CaptureInv
    <3>2. ASSUME RevcNothing, Decode PROVE RxInv'
      BY <3>2, StutterStep DEF RevcNothing, Decode, CaptureInv
    <3>3. ASSUME UNCHANGED captureVars PROVE RxInv'
      BY <3>3, StutterStep DEF captureVars, CaptureInv
    <3> QED BY <3>1, <3>2, <3>3 DEF Process
  <2> QED BY <2>1, <2>2 DEF CaptureInv
<1> QED BY <1>1, <1>2, PTL DEF CaptureSpec

\* The parser's own part of it needs nothing of the stations.
LEMMA ParserInvariance == CaptureSpec => [](WlanTypeOK /\ AddressIsOfThisFrame)
<1>1. CaptureInit => WlanTypeOK /\ AddressIsOfThisFrame
  BY ParserInit DEF CaptureInit
<1>2. WlanTypeOK /\ AddressIsOfThisFrame /\ [Process]_captureVars
        => (WlanTypeOK /\ AddressIsOfThisFrame)'
  BY ParserStep
<1> QED BY <1>1, <1>2, PTL DEF CaptureSpec

-----------------------------------------------------------------------------
(***************************************************************************)
(* Theorems                                                                *)
(***************************************************************************)
\* Whatever bytes are captured, the parser's results keep their types, and the
\* length it returns is never more than recvfrom has left (wlan80211.c:50).
THEOREM ParserTypeCorrect == CaptureSpec => []WlanTypeOK
<1> QED BY ParserInvariance, PTL

\* Whatever bytes are captured, a frame that reaches the decoder brings its own
\* source address, although the structure it is parsed into is never cleared
\* (wlan80211.c:43-48) and the bit stream returns zeros behind the end.
THEOREM OwnAddress == CaptureSpec => []AddressIsOfThisFrame
<1> QED BY ParserInvariance, PTL

\* Whatever bytes are captured, the decoder that the parser's results go to
\* keeps its index in step with its sequence number and inside its buffer
\* (smartlinkrx.c:36-78).
THEOREM CaptureIndexBounded ==
  ASSUME SentByStations
  PROVE  CaptureSpec => []SequenceTracksIndex
<1>1. CaptureInv => SequenceTracksIndex
  BY DEF CaptureInv, RxInv
<1> QED BY <1>1, CaptureInvariance, PTL

\* A turn for a packet is the turn SmartLinkRx takes for its datagram.
LEMMA PacketIsFrame ==
  ASSUME OneHeader, NEW p \in Packets, RevcRawpacket(p), Decode
  PROVE  RxProcess(AsFrame(p))
<1> DEFINE f == AsFrame(p)
           d == Received(p)
<1>1. p \in Seq(Byte)
  BY PacketsAssumption
<1>2. Len(p) \in Nat /\ Len(d) = IF Len(p) < 1500 THEN Len(p) ELSE 1499
  BY <1>1, ReceivedBytes
<1>3. MaxSendlen = 1423 - RadiotapLen /\ RadiotapLen \in Int /\ 0 <= RadiotapLen /\ RadiotapLen < 256
  BY RadiotapRange DEF MaxSendlen, PACKET_MAX, MacOverhead
<1>4. CASE Carries(p)
  <2> DEFINE src == f.src
             h == p[3]
  <2>1. f = [len |-> Len(p) - h - 76, src |-> src] /\ f.len = Len(p) - h - 76
    BY <1>4 DEF AsFrame, MacOverhead
  <2>2. sendlen' = Len(d) - h - 76 /\ sendlen' > 0
    BY <1>1, <1>4, CarriedParsed
  <2>3. radiotap'.saddr = src /\ h \in Byte
    BY <1>1, <2>2, FoundIsCarried, DatagramParsed
  <2>4. h \in Int /\ 0 <= h /\ h < 256
    BY <2>3, ByteRange
  <2>5. Len(p) > 1244 => h = RadiotapLen
    BY <1>4 DEF OneHeader, PACKET_MAX, U8
  <2> HIDE DEF f, d, src, h
  <2>6. Captured(f.len) = sendlen'
    BY <1>2, <1>3, <2>1, <2>2, <2>4, <2>5 DEF Captured
  <2>7. [f EXCEPT !.len = Captured(f.len)] = [len |-> sendlen', src |-> src]
    BY <2>1, <2>6
  <2>8. ~ (sendlen' <= 0)
    BY <1>2, <2>2, <2>4
  <2>9. RxDecode([len |-> sendlen', src |-> src])
    BY <2>3, <2>8 DEF Decode
  <2>10. RxProcess(f)
    BY <2>6, <2>7, <2>8, <2>9 DEF RxProcess
  <2> QED BY <2>10 DEF f
<1>5. CASE ~Carries(p)
  <2>1. f.len = -1
    BY <1>5 DEF AsFrame, SMART_FAIL
  <2>2. ~ (sendlen' > 0)
    BY <1>1, <1>5, FoundIsCarried
  <2>3. sendlen' \in Int
    <3>1. d \in Seq(Byte) /\ Len(d) \in Int
      BY <1>1, <1>2, ReceivedBytes
    <3>2. RadiotapHeader(d)
      BY DEF RevcRawpacket, Received
    <3> HIDE DEF d
    <3>3. ByteAt(d, 2) \in Int
      BY <3>1, ByteAtType
    <3>4. sendlen' = Len(d) - ByteAt(d, 2) - MacOverhead \/ sendlen' = SMART_FAIL
      BY <3>1, <3>2, Parsed
    <3> QED BY <3>1, <3>3, <3>4 DEF MacOverhead, SMART_FAIL
  <2>4. Captured(f.len) <= 0
    BY <1>3, <2>1 DEF Captured
  <2> QED BY <2>2, <2>3, <2>4 DEF RxProcess, Decode
<1> QED BY <1>4, <1>5

\* Cutting the packet, parsing it bit by bit and carrying the results over to
\* the decoder is, for every sequence of packets, what SmartLinkRx says it is:
\* hearing the datagram.  The one hypothesis is about the driver, which puts its
\* radiotap header before the long frames (sockets.c:50, wlan80211.c:50).
THEOREM IsDecoder ==
  ASSUME OneHeader
  PROVE  CaptureSpec => ImplementsDecoder
<1>1. CaptureInit => RxInit
  BY DEF CaptureInit
<1>2. [Process]_captureVars
        => [IF packet' = <<>> THEN UNCHANGED rxVars
                              ELSE RxProcess(AsFrame(packet'))]_captureVars
  <2> SUFFICES ASSUME Process
               PROVE  IF packet' = <<>> THEN UNCHANGED rxVars ELSE RxProcess(AsFrame(packet'))
    OBVIOUS
  <2>1. ASSUME NEW p \in Packets, Len(p) > 0, RevcRawpacket(p), Decode
        PROVE  packet' # <<>> /\ RxProcess(AsFrame(packet'))
    <3>1. packet' = p /\ p # <<>>
      BY <2>1 DEF RevcRawpacket
    <3> QED BY <2>1, <3>1, PacketIsFrame
  <2>2. ASSUME RevcNothing, Decode
        PROVE  packet' = <<>> /\ UNCHANGED rxVars
    BY <2>2 DEF RevcNothing, Decode
  <2> QED BY <2>1, <2>2 DEF Process
<1> QED BY <1>1, <1>2, PTL DEF CaptureSpec, ImplementsDecoder
=============================================================================
