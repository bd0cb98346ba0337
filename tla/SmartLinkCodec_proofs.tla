----------------------- MODULE SmartLinkCodec_proofs ------------------------
(***************************************************************************)
(* What the proofs need of the arithmetic of SmartLinkCodec.               *)
(***************************************************************************)
EXTENDS SmartLinkCodec, TLAPS

\* A byte is split into two nibbles (smartlinktx.c:108-109).
LEMMA HalvesAreNibbles ==
  ASSUME NEW b \in Byte
  PROVE  High(b) \in Nibble /\ Low(b) \in Nibble
BY DEF High, Low, Byte, Nibble

\* A nibble has no bits above the fourth.
LEMMA NibbleBits ==
  ASSUME NEW p \in Nibble
  PROVE  BitAt(p, 16) = 0 /\ BitAt(p, 32) = 0 /\ BitAt(p, 64) = 0 /\ BitAt(p, 128) = 0
BY DEF BitAt, Nibble

\* The |= of the decoder leaves a byte, whatever was in the buffer before
\* (smartlinkrx.c:49 and :58).
LEMMA OrIsByte ==
  ASSUME NEW a, NEW b
  PROVE  Or(a, b) \in Byte
BY DEF Or, OrBit, Byte

\* A byte that is completed to END by its low nibble had END's high nibble
\* before (smartlinkrx.c:65).
LEMMA EndHasHighNibble7 ==
  ASSUME NEW b \in Byte, NEW d \in Nibble, Or(b, d) = END_FLAGS
  PROVE  High(b) = 7
<1>1. BitAt(b, 128) = 0 /\ BitAt(b, 64) = 1 /\ BitAt(b, 32) = 1 /\ BitAt(b, 16) = 1
  <2>1. \A w \in {1, 2, 4, 8} : OrBit(b, d, w) \in {0, w}
    BY DEF OrBit
  <2>2. \A w \in {16, 32, 64, 128} : OrBit(b, d, w) = IF BitAt(b, w) = 0 THEN 0 ELSE w
    BY NibbleBits DEF OrBit
  <2>3. \A w \in {16, 32, 64, 128} : BitAt(b, w) \in 0..1
    BY DEF BitAt, Byte
  <2> QED BY <2>1, <2>2, <2>3 DEF Or, END_FLAGS
<1> QED BY <1>1 DEF BitAt, High, Byte

-----------------------------------------------------------------------------
FlagsHeard == (0..87) \cup (254..255)

\* recvfrom's buffer leaves no flag above 87, but for the ones of lengths below
\* 24, which are negative and wrap (smartlinkrx.c:41-42, sockets.c:50).
LEMMA CapturedFlag ==
  ASSUME NEW len \in Int, Captured(len) > 0
  PROVE  /\ Captured(len) \in Int
         /\ FlagOf(Captured(len)) \in FlagsHeard
         /\ DataOf(Captured(len)) \in Nibble
BY RadiotapAssumption
   DEF FlagOf, DataOf, Captured, MaxSendlen, PACKET_MAX, MacOverhead, LenBase, U8, Nibble,
       FlagsHeard

\* No frame that is heard carries sequence number 96: its flag is 96 to 111.
LEMMA LastSequence ==
  ASSUME NEW p \in Nibble
  PROVE  Xor(p, 96) \notin FlagsHeard
<1>1. BitAt(96, 16) = 0 /\ BitAt(96, 32) = 1 /\ BitAt(96, 64) = 1 /\ BitAt(96, 128) = 0
  BY DEF BitAt
<1>2. Xor(p, 96) \in 96..111
  BY <1>1, NibbleBits DEF Xor, XorBit
<1> QED BY <1>2 DEF FlagsHeard

\* Nor does the low nibble of a byte with high nibble 7 carry one of 89 to 95.
LEMMA LastEnd ==
  ASSUME NEW s \in {89, 91, 93, 95}
  PROVE  Xor(7, s) \notin FlagsHeard
<1>1. Xor(7, 89) = 94 /\ Xor(7, 91) = 92 /\ Xor(7, 93) = 90 /\ Xor(7, 95) = 88
  BY DEF Xor, XorBit, BitAt
<1> QED BY <1>1 DEF FlagsHeard

-----------------------------------------------------------------------------
\* A byte as a range of integers.
LEMMA ByteRange ==
  ASSUME NEW b
  PROVE  b \in Byte <=> b \in Int /\ 0 <= b /\ b < 256
BY DEF Byte

\* A value that fits a uint8_t is kept by one.
LEMMA Fits8 ==
  ASSUME NEW n \in Int, 0 <= n, n < 256
  PROVE  n % U8 = n /\ n \in Byte
BY ByteRange DEF U8

\* The assumption on the radiotap header, as a range.
LEMMA RadiotapRange == RadiotapLen \in Int /\ 0 <= RadiotapLen /\ RadiotapLen < 256
BY RadiotapAssumption

\* The same of a nibble.
LEMMA NibbleRange ==
  ASSUME NEW d
  PROVE  d \in Nibble <=> d \in Int /\ 0 <= d /\ d < 16
BY DEF Nibble

\* ^ on uint8_t is a uint8_t.
LEMMA XorIsByte ==
  ASSUME NEW a, NEW b
  PROVE  Xor(a, b) \in Byte
BY DEF Xor, XorBit, Byte

\* A flag is at most the sequence number with its low nibble full: ^ with a
\* nibble leaves the bits above it as they are (smartlinktx.c:111-112).
LEMMA FlagBelow80 ==
  ASSUME NEW p \in Nibble, NEW s \in Byte, s < 80
  PROVE  Xor(p, s) < 80
<1>1. BitAt(s, 128) = 0 /\ (BitAt(s, 64) = 0 \/ (BitAt(s, 32) = 0 /\ BitAt(s, 16) = 0))
  BY ByteRange DEF BitAt
<1>2. /\ XorBit(p, s, 128) = 0 /\ XorBit(p, s, 64) \in {0, 64}
      /\ XorBit(p, s, 64) = 64 => XorBit(p, s, 32) = 0 /\ XorBit(p, s, 16) = 0
  BY <1>1, NibbleBits DEF XorBit
<1>3. \A w \in {1, 2, 4, 8, 16, 32} : XorBit(p, s, w) \in {0, w}
  BY DEF XorBit
<1> QED BY <1>2, <1>3 DEF Xor

\* What is sent is bytes, START and END included (smartlinktx.c:101-104).
LEMMA MessageIsBytes ==
  ASSUME NEW p \in Seq(Byte)
  PROVE  /\ Len(p) \in Nat /\ MessageLen(p) \in Byte /\ MessageLen(p) <= Len(p) + 2
         /\ \A i \in Byte : i < MessageLen(p) => MessageByte(p, i) \in Byte
<1>1. Len(p) \in Nat /\ MessageLen(p) \in Byte /\ MessageLen(p) <= Len(p) + 2
  BY ByteRange DEF MessageLen, U8
<1>2. ASSUME NEW i \in Byte, i < MessageLen(p)
      PROVE  MessageByte(p, i) \in Byte
  <2>1. i = 0 \/ i = Len(p) + 1 \/ i \in 1..Len(p)
    BY <1>1, <1>2, ByteRange
  <2>2. START_FLAGS \in Byte /\ END_FLAGS \in Byte
    BY ByteRange DEF START_FLAGS, END_FLAGS
  <2> QED BY <2>1, <2>2 DEF MessageByte
<1> QED BY <1>1, <1>2

\* The two lengths of a byte are a flag and a nibble each (smartlinktx.c:111-112).
LEMMA LengthsOfByte ==
  ASSUME NEW p \in Seq(Byte), NEW i \in Byte, i < MessageLen(p), NEW s \in Byte
  PROVE  /\ SendLen0(p, i, s) \in Int /\ SendLen1(p, i, s) \in Int
         /\ 24 <= SendLen0(p, i, s) /\ 24 <= SendLen1(p, i, s)
         /\ s < 80 => SendLen0(p, i, s) <= 1303 /\ SendLen1(p, i, s) <= 1303
<1> DEFINE b  == MessageByte(p, i)
           f0 == IF i # 0 THEN Xor(Low(MessageByte(p, i - 1)), s) ELSE s
           f1 == Xor(High(b), s)
<1>1. High(b) \in Nibble /\ Low(b) \in Nibble
  BY MessageIsBytes, HalvesAreNibbles
<1>2. i # 0 => Low(MessageByte(p, i - 1)) \in Nibble
  <2>1. i # 0 => i - 1 \in Byte /\ i - 1 < MessageLen(p)
    BY MessageIsBytes, ByteRange
  <2> QED BY <2>1, MessageIsBytes, HalvesAreNibbles
<1>3. f0 \in Byte /\ f1 \in Byte
  BY XorIsByte
<1>4. s < 80 => f0 < 80 /\ f1 < 80
  BY <1>1, <1>2, FlagBelow80
<1>5. SendLen0(p, i, s) = 16 * f0 + High(b) + 24 /\ SendLen1(p, i, s) = 16 * f1 + Low(b) + 24
  BY DEF SendLen0, SendLen1, LenBase
<1> HIDE DEF b, f0, f1
<1> QED BY <1>1, <1>3, <1>4, <1>5, ByteRange, NibbleRange

\* Frames 2i and 2i + 1 of a round are the two lengths of byte i.
LEMMA FramesOfByte ==
  ASSUME NEW p, NEW i \in Byte
  PROVE  /\ FrameLen(p, 2 * i) = SendLen0(p, i, (2 * i) % U8)
         /\ FrameLen(p, 2 * i + 1) = SendLen1(p, i, (2 * i + 1) % U8)
<1>1. /\ (2 * i) % 2 = 0 /\ (2 * i) \div 2 = i
      /\ (2 * i + 1) % 2 = 1 /\ (2 * i + 1) \div 2 = i
  BY ByteRange
<1> QED BY <1>1 DEF FrameLen

-----------------------------------------------------------------------------
\* Flag and nibble are taken out of a length as they were put in.
LEMMA Packed ==
  ASSUME NEW x \in Byte, NEW d \in Nibble
  PROVE  FlagOf(16 * x + d + LenBase) = x /\ DataOf(16 * x + d + LenBase) = d
<1>1. x \in Int /\ 0 <= x /\ x < 256 /\ d \in Int /\ 0 <= d /\ d < 16
  BY ByteRange, NibbleRange
<1> QED BY <1>1 DEF FlagOf, DataOf, LenBase, U8

\* What the receiver takes out of the two frames of byte i.
LEMMA FrameParts ==
  ASSUME NEW p \in Seq(Byte), NEW i \in Byte, i < MessageLen(p), NEW s \in Byte
  PROVE  /\ DataOf(SendLen0(p, i, s)) = High(MessageByte(p, i))
         /\ DataOf(SendLen1(p, i, s)) = Low(MessageByte(p, i))
         /\ FlagOf(SendLen0(p, i, s)) = IF i # 0 THEN Xor(Low(MessageByte(p, i - 1)), s) ELSE s
         /\ FlagOf(SendLen1(p, i, s)) = Xor(High(MessageByte(p, i)), s)
<1> DEFINE f0 == IF i # 0 THEN Xor(Low(MessageByte(p, i - 1)), s) ELSE s
           f1 == Xor(High(MessageByte(p, i)), s)
<1>1. High(MessageByte(p, i)) \in Nibble /\ Low(MessageByte(p, i)) \in Nibble
  BY MessageIsBytes, HalvesAreNibbles
<1>2. f0 \in Byte /\ f1 \in Byte
  BY XorIsByte
<1>3. /\ SendLen0(p, i, s) = 16 * f0 + High(MessageByte(p, i)) + LenBase
      /\ SendLen1(p, i, s) = 16 * f1 + Low(MessageByte(p, i)) + LenBase
  BY DEF SendLen0, SendLen1
<1> HIDE DEF f0, f1
<1>4. DataOf(SendLen0(p, i, s)) = High(MessageByte(p, i)) /\ FlagOf(SendLen0(p, i, s)) = f0
  BY <1>1, <1>2, <1>3, Packed
<1>5. DataOf(SendLen1(p, i, s)) = Low(MessageByte(p, i)) /\ FlagOf(SendLen1(p, i, s)) = f1
  BY <1>1, <1>2, <1>3, Packed
<1> QED BY <1>4, <1>5 DEF f0, f1

\* A byte is put together from its halves by |= (smartlinkrx.c:49 and :58).
LEMMA OrHalves ==
  ASSUME NEW h \in Nibble, NEW l \in Nibble
  PROVE  Or(0, 16 * h) = 16 * h /\ Or(16 * h, l) = 16 * h + l
<1> DEFINE Bit(a, w) == IF BitAt(a, w) = 0 THEN 0 ELSE w
<1>1. \A w \in {1, 2, 4, 8, 16, 32, 64, 128} : BitAt(0, w) = 0
  BY DEF BitAt
<1>2. \A w \in {1, 2, 4, 8} : BitAt(16 * h, w) = 0
  BY NibbleRange DEF BitAt
<1>3. Bit(l, 1) + Bit(l, 2) + Bit(l, 4) + Bit(l, 8) = l
  BY DEF BitAt, Nibble
<1>4. Bit(16 * h, 16) + Bit(16 * h, 32) + Bit(16 * h, 64) + Bit(16 * h, 128) = 16 * h
  BY DEF BitAt, Nibble
<1>5. \A a, w : Bit(a, w) \in {0, w}
  OBVIOUS
<1>6. \A w \in {1, 2, 4, 8} : OrBit(16 * h, l, w) = Bit(l, w) /\ OrBit(0, 16 * h, w) = 0
  BY <1>1, <1>2 DEF OrBit
<1>7. \A w \in {16, 32, 64, 128} :
        OrBit(16 * h, l, w) = Bit(16 * h, w) /\ OrBit(0, 16 * h, w) = Bit(16 * h, w)
  BY <1>1, NibbleBits DEF OrBit
<1> HIDE DEF Bit
<1>8. \A w \in {1, 2, 4, 8, 16, 32, 64, 128} : \A a : Bit(a, w) \in Int
  BY <1>5
<1> QED BY <1>3, <1>4, <1>6, <1>7, <1>8, NibbleRange DEF Or

LEMMA HalvesOfByte ==
  ASSUME NEW b \in Byte
  PROVE  16 * High(b) + Low(b) = b /\ High(16 * High(b)) = High(b)
<1>1. b \in Int /\ 0 <= b
  BY ByteRange
<1> QED BY <1>1 DEF High, Low
=============================================================================
