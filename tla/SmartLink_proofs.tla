-------------------------- MODULE SmartLink_proofs --------------------------
(***************************************************************************)
(* The whole transfer, for any payloads, any noise and any queue: whatever *)
(* is lost, repeated, inserted or started again, the receiver holds a      *)
(* prefix of the message, and what it hands over is the message.           *)
(*                                                                         *)
(* The argument: every frame in the queue is of the round or noise, and    *)
(* for a payload in Deliverable a frame under the flag that is expected    *)
(* carries the nibble that is expected.  So each nibble accepted is the    *)
(* right one, and |= puts it into zeros.                                   *)
(***************************************************************************)
EXTENDS SmartLink, SmartLinkRx_proofs, SequenceTheorems

\* What may be in the queue while p is sent.
AirFrames(p) == {OwnFrame(FrameLen(p, k)) : k \in Frames(p)} \cup Noise

\* What the receiver holds of p.  The byte whose low nibble is awaited has its
\* high one; START, after Resync, may have it already.
Holding(p) ==
  /\ \A i \in 0..(MessageLen(p) - 1) :
       i < u32Index => buffer[i] = IF i = Len(p) + 1 THEN 0 ELSE MessageByte(p, i)
  /\ u32Index < MessageLen(p) =>
       /\ callback = NoCall
       /\ ~ExpectsHigh => buffer[u32Index] = 16 * High(MessageByte(p, u32Index))
  /\ u32Index = 0 /\ ExpectsHigh => buffer[0] \in {0, 112}
  /\ ~(u32Index < MessageLen(p)) => callback # NoCall /\ callback.text = p

\* The transmitter is in a round of p, or between two.
InRound(p) == round = Idle \/ (round = p /\ next \in Nat)

TransferInv ==
  argv \in Deliverable =>
    /\ RxInv
    /\ InRound(argv)
    /\ queue \in Seq(AirFrames(argv))
    /\ Holding(argv)

-----------------------------------------------------------------------------
(***************************************************************************)
(* Payloads that can be transferred                                        *)
(***************************************************************************)
LEMMA DeliverableType ==
  ASSUME NEW p \in Deliverable
  PROVE  /\ p \in Seq(Byte) /\ p # Idle
         /\ Len(p) \in Int /\ 1 <= Len(p) /\ Len(p) <= 253
         /\ MessageLen(p) = Len(p) + 2 /\ FrameCount(p) = 2 * (Len(p) + 2)
         /\ Passed(p) = p
<1>1. p \in Payloads /\ Len(p) \in 1..253
  <2>1. p \in Payloads /\ PlainText(p)
    BY Zenon DEF Deliverable
  <2> QED BY <2>1 DEF PlainText
<1>2. p \in Seq(Byte) /\ p # Idle
  BY <1>1, PayloadsAssumption
<1> DEFINE n == Len(p)
<1>3. n \in Int /\ 1 <= n /\ n <= 253
  <2> HIDE DEF n
  <2>1. n \in 1..253 => n \in Int /\ 1 <= n /\ n <= 253
    OBVIOUS
  <2> QED BY <1>1, <2>1 DEF n
<1> HIDE DEF n
<1>4. (n + 2) % U8 = n + 2 /\ n % U8 = n
  BY <1>3, Fits8
<1>5. MessageLen(p) = n + 2 /\ FrameCount(p) = 2 * (n + 2)
  BY <1>4 DEF MessageLen, FrameCount, n
<1>6. Passed(p) = p
  BY <1>2, <1>4, SubSeqFull DEF Passed, n
<1> QED BY <1>2, <1>3, <1>5, <1>6 DEF n

\* The two frames of byte i, as the receiver sees them.
LEMMA FramesSeen ==
  ASSUME NEW p \in Deliverable, NEW i \in Nat, i < MessageLen(p), i <= 48
  PROVE  /\ 2 * i \in Frames(p) /\ 2 * i + 1 \in Frames(p)
         /\ DataOf(FrameLen(p, 2 * i)) = High(MessageByte(p, i))
         /\ DataOf(FrameLen(p, 2 * i + 1)) = Low(MessageByte(p, i))
         /\ FlagOf(FrameLen(p, 2 * i)) =
              IF i # 0 THEN Xor(Low(MessageByte(p, i - 1)), 2 * i) ELSE 2 * i
         /\ FlagOf(FrameLen(p, 2 * i + 1)) = Xor(High(MessageByte(p, i)), 2 * i + 1)
<1>1. /\ p \in Seq(Byte) /\ MessageLen(p) \in Int /\ FrameCount(p) = 2 * MessageLen(p)
  BY DeliverableType
<1>2. /\ (2 * i) % U8 = 2 * i /\ (2 * i + 1) % U8 = 2 * i + 1
      /\ 2 * i \in Byte /\ 2 * i + 1 \in Byte /\ i \in Byte
  BY Fits8
<1>3. 2 * i \in Frames(p) /\ 2 * i + 1 \in Frames(p)
  BY <1>1 DEF Frames
<1>4. FrameLen(p, 2 * i) = SendLen0(p, i, 2 * i) /\ FrameLen(p, 2 * i + 1) = SendLen1(p, i, 2 * i + 1)
  BY <1>2, FramesOfByte
<1> QED BY <1>1, <1>2, <1>3, <1>4, FrameParts

\* Every frame of a round has a length.
LEMMA LenIsInt ==
  ASSUME NEW p \in Deliverable, NEW k \in Frames(p)
  PROVE  FrameLen(p, k) \in Int
<1>1. p \in Seq(Byte) /\ MessageLen(p) \in Int /\ MessageLen(p) < 256 /\ FrameCount(p) = 2 * MessageLen(p)
  BY DeliverableType
<1>2. k \in Int /\ 0 <= k /\ k < 2 * MessageLen(p)
  BY <1>1 DEF Frames
<1>3. /\ k \div 2 \in Int /\ 0 <= k \div 2 /\ k \div 2 < MessageLen(p)
  BY <1>1, <1>2
<1>4. k % U8 \in Byte
  BY <1>2, ByteRange DEF U8
<1>5. k \div 2 \in Byte
  BY <1>1, <1>3, ByteRange
<1> QED BY <1>1, <1>3, <1>4, <1>5, LengthsOfByte DEF FrameLen

LEMMA AirFrameType ==
  ASSUME NEW p \in Deliverable
  PROVE  AirFrames(p) \subseteq Frame
BY LenIsInt, NoiseAssumption, TransmitterAssumption DEF AirFrames, OwnFrame, Frame

\* A frame under the flag of frame k carries the nibble of frame k.
LEMMA FlagTellsNibble ==
  ASSUME NEW p \in Deliverable, NEW f \in AirFrames(p), Captured(f.len) > 0,
         NEW k \in Frames(p), FlagOf(Captured(f.len)) = FlagOf(FrameLen(p, k))
  PROVE  DataOf(Captured(f.len)) = DataOf(FrameLen(p, k))
<1>1. Fits(p) /\ Unambiguous(p)
  BY Zenon DEF Deliverable
<1>2. CASE f \in Noise
  BY <1>1, <1>2 DEF Unambiguous, Agree
<1>3. ASSUME NEW j \in Frames(p), f = OwnFrame(FrameLen(p, j))
      PROVE  DataOf(Captured(f.len)) = DataOf(FrameLen(p, k))
  <2>1. FrameLen(p, j) <= MaxSendlen /\ FrameLen(p, j) \in Int /\ MaxSendlen \in Int
    BY <1>1, LenIsInt, RadiotapRange DEF Fits, MaxSendlen, PACKET_MAX, MacOverhead
  <2>2. Captured(f.len) = FrameLen(p, j)
    BY <1>3, <2>1 DEF Captured, OwnFrame
  <2> QED BY <1>1, <2>2 DEF Unambiguous, Agree
<1> QED BY <1>2, <1>3 DEF AirFrames

-----------------------------------------------------------------------------
(***************************************************************************)
(* The receiver                                                            *)
(***************************************************************************)
\* Where the receiver is when it accepts a nibble.
LEMMA Position ==
  ASSUME RxInv, NEW g \in Decoded, Matches(g.len)
  PROVE  /\ u32Index \in Int /\ 0 <= u32Index /\ u32Index <= 47 /\ u32Index \in BufferIndex
         /\ ExpectsHigh  => u32Sequence = 2 * u32Index
         /\ ~ExpectsHigh => u32Sequence = 2 * u32Index + 1
         /\ buffer \in [BufferIndex -> Byte]
<1>1. u32Index \in 0..47 /\ u32Sequence \in {2 * u32Index, 2 * u32Index + 1}
  BY AcceptedBelowLimit
<1>2. u32Index \in Int /\ 0 <= u32Index /\ u32Index <= 47 /\ u32Index \in BufferIndex
  BY <1>1 DEF BufferIndex, BUFFER_MAX
<1>3. (2 * u32Index) % 2 = 0 /\ (2 * u32Index + 1) % 2 = 1
  BY <1>2
<1> QED BY <1>1, <1>2, <1>3 DEF ExpectsHigh, RxInv, RxTypeOK

\* The frame the decoder waits for, unless the message is complete.
LEMMA Expected ==
  ASSUME RxInv, NEW p \in Deliverable, Holding(p), u32Index < MessageLen(p), u32Index <= 47
  PROVE  /\ u32Index \in Nat
         /\ ExpectsHigh  => ExpectedFlag = FlagOf(FrameLen(p, 2 * u32Index))
         /\ ~ExpectsHigh => ExpectedFlag = FlagOf(FrameLen(p, 2 * u32Index + 1))
<1>1. u32Index \in Nat /\ u32Sequence \in {2 * u32Index, 2 * u32Index + 1}
  BY ByteRange DEF RxInv, RxTypeOK, SequenceTracksIndex
<1>2. MessageLen(p) = Len(p) + 2 /\ Len(p) \in Int /\ MessageByte(p, u32Index) \in Byte
  BY <1>1, DeliverableType, MessageIsBytes, ByteRange
<1>3. CASE ExpectsHigh
  <2>1. u32Sequence = 2 * u32Index
    BY <1>1, <1>3 DEF ExpectsHigh
  <2>2. CASE u32Index = 0
    <3>1. Xor(0, 0) = 0
      BY DEF Xor, XorBit
    <3> QED BY <1>3, <2>1, <2>2, <3>1, FramesSeen DEF ExpectedFlag, ChainNibble
  <2>3. CASE u32Index # 0
    <3>1. buffer[u32Index - 1] = MessageByte(p, u32Index - 1)
      BY <1>1, <1>2, <2>3 DEF Holding
    <3> QED BY <1>1, <1>3, <2>1, <2>3, <3>1, FramesSeen DEF ExpectedFlag, ChainNibble
  <2> QED BY <1>1, <2>2, <2>3
<1>4. CASE ~ExpectsHigh
  <2>1. u32Sequence = 2 * u32Index + 1
    BY <1>1, <1>4 DEF ExpectsHigh
  <2>2. High(buffer[u32Index]) = High(MessageByte(p, u32Index))
    BY <1>2, <1>4, HalvesOfByte DEF Holding
  <2> QED BY <1>1, <1>4, <2>1, <2>2, FramesSeen DEF ExpectedFlag, ChainNibble
<1> QED BY <1>1, <1>3, <1>4

\* Accepting a high nibble takes the byte under construction nearer to p.
LEMMA HighHolds ==
  ASSUME RxInv, NEW p \in Deliverable, Holding(p), NEW f \in AirFrames(p), NEW g \in Decoded,
         g = [f EXCEPT !.len = Captured(f.len)], Captured(f.len) > 0, AcceptHigh(g)
  PROVE  Holding(p)'
<1> DEFINE i == u32Index
           h == High(MessageByte(p, u32Index))
<1>1. /\ i \in Int /\ 0 <= i /\ i <= 47 /\ u32Sequence = 2 * i /\ i \in BufferIndex
      /\ buffer \in [BufferIndex -> Byte]
  BY Position DEF AcceptHigh
<1>2. g.len = Captured(f.len)
  BY AirFrameType DEF Frame
<1>3. /\ u32Index' = i /\ u32Sequence' = 2 * i + 1 /\ ~ExpectsHigh' /\ callback' = callback
      /\ buffer' = [buffer EXCEPT ![i] = Or(@, 16 * DataOf(g.len))]
  <2>1. (2 * i + 1) % U8 = 2 * i + 1 /\ (2 * i + 1) % 2 = 1
    BY <1>1, Fits8
  <2> QED BY <1>1, <2>1 DEF AcceptHigh, NextSequence, ExpectsHigh
<1>4. ASSUME i < MessageLen(p)
      PROVE  buffer'[i] = 16 * h
  <2>1. i \in Nat /\ ExpectedFlag = FlagOf(FrameLen(p, 2 * i))
    BY <1>1, <1>4, Expected DEF AcceptHigh
  <2>2. 2 * i \in Frames(p) /\ DataOf(FrameLen(p, 2 * i)) = h
    BY <1>1, <1>4, <2>1, FramesSeen
  <2>3. DataOf(g.len) = h
    BY <1>2, <2>1, <2>2, FlagTellsNibble DEF AcceptHigh, Matches
  <2>4. buffer'[i] = Or(buffer[i], 16 * h)
    BY <1>1, <1>3, <2>3
  <2>5. h \in Nibble
    BY <2>3 DEF Decoded
  <2>6. CASE buffer[i] = 0
    BY <2>4, <2>5, <2>6, OrHalves, NibbleRange
  <2>7. CASE i = 0 /\ buffer[i] = 112
    <3>1. h = 7 /\ Or(112, 112) = 112
      BY <2>7 DEF MessageByte, START_FLAGS, High, Or, OrBit, BitAt
    <3> QED BY <2>4, <2>7, <3>1
  <2>8. buffer[i] = 0 \/ (i = 0 /\ buffer[i] = 112)
    <3>1. CASE i = 0
      BY <3>1 DEF AcceptHigh, Holding
    <3>2. CASE i > 0
      BY <3>2 DEF AcceptHigh, RxInv, AheadIsClear
    <3> QED BY <1>1, <3>1, <3>2
  <2> QED BY <2>6, <2>7, <2>8
<1>5. \A j \in 0..(MessageLen(p) - 1) : j < i => buffer'[j] = buffer[j]
  <2>1. \A j \in Int : 0 <= j /\ j < i => j \in BufferIndex /\ j # i
    BY <1>1 DEF BufferIndex, BUFFER_MAX
  <2> QED BY <1>3, <2>1
<1> HIDE DEF h
<1> QED BY <1>3, <1>4, <1>5 DEF Holding, h

\* The C string of a payload behind START is the payload.
LEMMA TextIsPayload ==
  ASSUME NEW p \in Deliverable, NEW c \in Buffers, Len(p) + 1 \in BufferIndex,
         c[Len(p) + 1] = 0, \A m \in 1..Len(p) : c[m] = p[m]
  PROVE  TextOf(c) = p
<1>1. p \in Seq(Byte) /\ Len(p) \in Int /\ 1 <= Len(p)
  BY DeliverableType
<1>2. \A m \in 1..Len(p) : p[m] # 0
  BY Zenon DEF Deliverable, PlainText
<1>3. /\ TextEnd(c) \in 1..(Len(p) + 1)
      /\ c[TextEnd(c)] = 0
  BY <1>1, TextEndIsFirst
<1>4. TextEnd(c) = Len(p) + 1
  BY <1>1, <1>2, <1>3
<1>5. TextOf(c) = [m \in 1..Len(p) |-> p[m]]
  BY <1>1, <1>4 DEF TextOf
<1> QED BY <1>1, <1>5

\* A call with arguments of the right types is not the absence of one.
LEMMA CallIsNotNoCall ==
  ASSUME NEW mac \in Stations, NEW text \in Seq(Byte), NEW len \in Byte
  PROVE  Call(mac, text, len) # NoCall /\ Call(mac, text, len).text = text
BY NoCallAssumption DEF Call, Calls

\* So does a low nibble; the last one completes p, and calls the user back.
LEMMA LowHolds ==
  ASSUME RxInv, NEW p \in Deliverable, Holding(p), NEW f \in AirFrames(p), NEW g \in Decoded,
         g = [f EXCEPT !.len = Captured(f.len)], Captured(f.len) > 0, AcceptLow(g)
  PROVE  /\ Holding(p)'
         /\ u32Index + 1 = MessageLen(p) => callback' = Call(g.src, p, u32Index + 1)
         /\ u32Index + 1 = MessageLen(p) => FlagOf(g.len) = FlagOf(FrameLen(p, FrameCount(p) - 1))
<1> DEFINE i == u32Index
           b == MessageByte(p, u32Index)
           byte  == Or(buffer[u32Index], DataOf(g.len))
           ended == IsEnd(u32Index + 1, byte)
<1>1. /\ i \in Int /\ 0 <= i /\ i <= 47 /\ u32Sequence = 2 * i + 1 /\ i \in BufferIndex
      /\ buffer \in [BufferIndex -> Byte]
  BY Position DEF AcceptLow
<1>2. g.len = Captured(f.len)
  BY AirFrameType DEF Frame
<1>3. (i + 1) % U8 = i + 1 /\ (2 * i + 2) % U8 = 2 * i + 2 /\ (2 * i + 2) % 2 = 0
  BY <1>1, Fits8
<1>4. /\ u32Index' = i + 1 /\ u32Sequence' = 2 * i + 2 /\ ExpectsHigh'
      /\ buffer' = [buffer EXCEPT ![i] = Stored(ended, byte)]
      /\ sourceAddr' = SourceAddr(i + 1, g)
      /\ callback' = IF ended THEN Call(sourceAddr', TextOf(buffer'), i + 1) ELSE callback
  <2>1. 2 * i + 1 + 1 = 2 * i + 2
    BY <1>1
  <2>2. u32Index' = i + 1 /\ u32Sequence' = 2 * i + 2 /\ ExpectsHigh'
    <3>1. u32Index' = i + 1
      BY <1>3 DEF AcceptLow
    <3>2. u32Sequence' = 2 * i + 2
      BY <1>1, <1>3, <2>1 DEF AcceptLow, NextSequence
    <3> QED BY <1>3, <3>1, <3>2 DEF ExpectsHigh
  <2>3. buffer' = [buffer EXCEPT ![i] = Stored(ended, byte)]
    BY <1>3 DEF AcceptLow
  <2>4. sourceAddr' = SourceAddr(i + 1, g)
    BY <1>3 DEF AcceptLow
  <2>5. callback' = IF ended THEN Call(sourceAddr', TextOf(buffer'), i + 1) ELSE callback
    <3>1. /\ ended  => callback' = Call(sourceAddr', TextOf(buffer'), i + 1)
          /\ ~ended => callback' = callback
      BY <1>3 DEF AcceptLow, CallLen, IsEnd
    <3> QED BY <3>1
  <2> QED BY <2>2, <2>3, <2>4, <2>5
<1>5. i < MessageLen(p) =>
        /\ b \in Byte /\ High(b) \in Nibble /\ Low(b) \in Nibble
        /\ MessageLen(p) = Len(p) + 2 /\ Len(p) \in Int /\ 1 <= Len(p)
  BY <1>1, DeliverableType, MessageIsBytes, HalvesAreNibbles, ByteRange
<1>6. i < MessageLen(p) => byte = b
  <2> SUFFICES ASSUME i < MessageLen(p) PROVE byte = b
    OBVIOUS
  <2>1. i \in Nat /\ ExpectedFlag = FlagOf(FrameLen(p, 2 * i + 1))
    BY <1>1, Expected DEF AcceptLow
  <2>2. 2 * i + 1 \in Frames(p) /\ DataOf(FrameLen(p, 2 * i + 1)) = Low(b)
    BY <1>1, <2>1, FramesSeen
  <2>3. DataOf(g.len) = Low(b)
    BY <1>2, <2>1, <2>2, FlagTellsNibble DEF AcceptLow, Matches
  <2>4. buffer[i] = 16 * High(b)
    BY DEF AcceptLow, Holding
  <2> HIDE DEF b
  <2> QED BY <1>5, <2>3, <2>4, OrHalves, HalvesOfByte
<1>7. i < MessageLen(p) => (ended <=> i = Len(p) + 1)
  <2> SUFFICES ASSUME i < MessageLen(p) PROVE ended <=> i = Len(p) + 1
    OBVIOUS
  <2>1. \A m \in 2..Len(p) : p[m] # END_FLAGS
    BY Zenon DEF Deliverable, PlainText
  <2>2. i > 1 /\ i # Len(p) + 1 => b # END_FLAGS
    BY <1>1, <1>5, <2>1 DEF MessageByte
  <2>3. i = Len(p) + 1 => b = END_FLAGS
    BY <1>5 DEF MessageByte
  <2>4. ended <=> i > 1 /\ b = END_FLAGS
    BY <1>1, <1>6 DEF ended, IsEnd
  <2> QED BY <1>1, <1>5, <2>2, <2>3, <2>4
<1>8. \A j \in Int : 0 <= j /\ j < i => buffer'[j] = buffer[j]
  <2>1. \A j \in Int : 0 <= j /\ j < i => j \in BufferIndex /\ j # i
    BY <1>1 DEF BufferIndex, BUFFER_MAX
  <2> QED BY <1>1, <1>4, <2>1
<1>9. buffer'[i] = IF ended THEN 0 ELSE byte
  BY <1>1, <1>4 DEF Stored
<1> HIDE DEF byte, ended, b
<1>10. \A j \in 0..(MessageLen(p) - 1) : j \in Int /\ 0 <= j
  BY DeliverableType
<1>11. buffer' \in Buffers
  BY LowStep DEF RxInv, RxTypeOK, Buffers
<1>12. Call(g.src, p, i + 1) # NoCall /\ Call(g.src, p, i + 1).text = p
  <2>1. g.src \in Stations /\ p \in Seq(Byte) /\ i + 1 \in Byte
    <3>1. g.src \in Stations
      BY DEF Decoded
    <3>2. i + 1 \in Byte
      BY <1>1, Fits8
    <3> QED BY <3>1, <3>2, DeliverableType
  <2> DEFINE src == g.src
             len == i + 1
  <2> HIDE DEF src, len
  <2>2. src \in Stations /\ len \in Byte
    BY <2>1 DEF src, len
  <2>3. Call(src, p, len) # NoCall /\ Call(src, p, len).text = p
    BY <2>1, <2>2, CallIsNotNoCall
  <2> QED BY <2>3 DEF src, len
<1>13. CASE i < Len(p) + 1
  <2>1. ~ended /\ i < MessageLen(p) /\ i + 1 < MessageLen(p) /\ i + 1 # MessageLen(p)
    BY <1>1, <1>13, <1>7, DeliverableType
  <2>2. callback = NoCall /\ callback' = NoCall
    BY <1>4, <2>1 DEF Holding
  <2>3. buffer'[i] = b
    BY <1>6, <1>9, <2>1
  <2>4. \A j \in 0..(MessageLen(p) - 1) :
          j < i + 1 => buffer'[j] = IF j = Len(p) + 1 THEN 0 ELSE MessageByte(p, j)
    <3> TAKE j \in 0..(MessageLen(p) - 1)
    <3>1. j \in Int /\ 0 <= j
      BY <1>10
    <3>2. CASE j = i
      BY <1>1, <1>13, <2>3, <3>2, DeliverableType DEF b
    <3>3. CASE j < i
      BY <1>8, <3>1, <3>3 DEF Holding
    <3> QED BY <1>1, <3>1, <3>2, <3>3
  <2> QED BY <1>1, <1>4, <2>1, <2>2, <2>4 DEF Holding
<1>14. CASE i = Len(p) + 1
  <2>1. ended /\ i < MessageLen(p) /\ i + 1 = MessageLen(p) /\ ~ (i + 1 < MessageLen(p))
    BY <1>1, <1>14, <1>7, DeliverableType
  <2>2. buffer'[i] = 0
    BY <1>9, <2>1
  <2>3. \A j \in 0..(MessageLen(p) - 1) :
          j < i + 1 => buffer'[j] = IF j = Len(p) + 1 THEN 0 ELSE MessageByte(p, j)
    <3> TAKE j \in 0..(MessageLen(p) - 1)
    <3>1. j \in Int /\ 0 <= j
      BY <1>10
    <3>2. CASE j = i
      BY <1>14, <2>2, <3>2
    <3>3. CASE j < i
      BY <1>8, <3>1, <3>3 DEF Holding
    <3> QED BY <1>1, <3>1, <3>2, <3>3
  <2>4. TextOf(buffer') = p
    <3>1. \A m \in 1..Len(p) : buffer'[m] = p[m]
      <4> TAKE m \in 1..Len(p)
      <4>1. m \in Int /\ 1 <= m /\ m < i /\ m \in 0..(MessageLen(p) - 1)
        BY <1>14, DeliverableType
      <4>2. buffer'[m] = buffer[m] /\ buffer[m] = MessageByte(p, m)
        BY <1>8, <1>14, <4>1 DEF Holding
      <4> QED BY <1>14, <4>1, <4>2 DEF MessageByte
    <3> QED BY <1>1, <1>14, <1>11, <2>2, <3>1, TextIsPayload
  <2>5. sourceAddr' = g.src /\ callback' = Call(g.src, p, i + 1)
    BY <1>1, <1>4, <1>14, <2>1, <2>4, DeliverableType DEF SourceAddr
  <2>6. callback' # NoCall /\ callback'.text = p
    BY <1>12, <2>5
  <2>7. FlagOf(g.len) = FlagOf(FrameLen(p, FrameCount(p) - 1))
    <3>1. FlagOf(g.len) = FlagOf(FrameLen(p, 2 * i + 1))
      BY <1>1, <2>1, Expected DEF AcceptLow, Matches
    <3>2. FrameCount(p) - 1 = 2 * i + 1
      BY <1>14, DeliverableType
    <3> QED BY <3>1, <3>2
  <2>8. Holding(p)'
    <3>1. u32Index' = i + 1 /\ i + 1 # 0 /\ callback' # NoCall /\ callback'.text = p
      BY <1>1, <1>4, <2>6
    <3> QED BY <3>1, <2>1, <2>3 DEF Holding
  <2> QED
    BY <2>5, <2>7, <2>8
<1>15. CASE i > Len(p) + 1
  <2>1. /\ ~ (i < MessageLen(p)) /\ ~ (i + 1 < MessageLen(p)) /\ i + 1 # MessageLen(p)
        /\ i > 1 /\ i + 1 # 0
    BY <1>1, <1>15, DeliverableType
  <2>2. callback # NoCall /\ callback.text = p
    BY <2>1 DEF Holding
  <2>3. TextOf(buffer') = p
    <3>1. PICK n \in BufferIndex \ {0} : n < u32Index /\ buffer[n] = 0 /\ callback.text = TextOf(buffer)
      BY <2>2 DEF RxInv, TextIsBehind
    <3> QED BY <2>2, <3>1, LowKeepsText
  <2>4. sourceAddr' = g.src
    BY <1>1, <1>4, <2>1 DEF SourceAddr
  <2>5. callback' # NoCall /\ callback'.text = p
    BY <1>4, <1>12, <2>2, <2>3, <2>4
  <2>6. \A j \in 0..(MessageLen(p) - 1) :
          j < i + 1 => buffer'[j] = IF j = Len(p) + 1 THEN 0 ELSE MessageByte(p, j)
    <3> TAKE j \in 0..(MessageLen(p) - 1)
    <3>1. j \in Int /\ 0 <= j /\ j < i
      BY <1>1, <1>10, <1>15, DeliverableType
    <3> QED BY <1>8, <3>1 DEF Holding
  <2> QED BY <1>4, <2>1, <2>5, <2>6 DEF Holding
<1> QED BY <1>1, <1>13, <1>14, <1>15, DeliverableType

\* Starting over leaves START's high nibble in the buffer, or nothing.
LEMMA ResyncHolds ==
  ASSUME RxInv, NEW p \in Deliverable, Holding(p), NEW g \in Decoded, Resync(g)
  PROVE  Holding(p)'
<1>1. /\ u32Index = 0 /\ u32Index' = 0 /\ u32Sequence' = 0 /\ ~ExpectsHigh /\ ExpectsHigh'
      /\ buffer' = buffer /\ callback' = callback
  BY DEF Resync, ExpectsHigh
<1>2. 0 < MessageLen(p) /\ MessageLen(p) \in Int
  BY DeliverableType
<1>3. buffer[0] = 16 * High(MessageByte(p, 0)) /\ callback = NoCall
  BY <1>1, <1>2 DEF Holding
<1>4. buffer[0] = 112
  BY <1>3 DEF MessageByte, START_FLAGS, High
<1>5. \A i \in 0..(MessageLen(p) - 1) : ~ (i < 0)
  BY <1>2
<1> QED BY <1>1, <1>2, <1>3, <1>4, <1>5 DEF Holding

\* Nothing else disturbs what it holds.
LEMMA HoldingKept ==
  ASSUME NEW p \in Deliverable, Holding(p), UNCHANGED rxVars
  PROVE  Holding(p)'
<1>1. u32Index' = u32Index /\ u32Sequence' = u32Sequence /\ buffer' = buffer /\ callback' = callback
  BY DEF rxVars
<1>2. ExpectsHigh' = ExpectsHigh
  BY <1>1 DEF ExpectsHigh
<1> QED BY <1>1, <1>2 DEF Holding

\* One turn of the receiving thread keeps what it holds of p in order.
LEMMA ProcessHolds ==
  ASSUME RxInv, NEW p \in Deliverable, Holding(p), NEW f \in AirFrames(p), RxProcess(f)
  PROVE  RxInv' /\ Holding(p)'
<1>1. f \in Frame
  BY AirFrameType
<1>2. RxInv'
  BY <1>1, ProcessInv
<1>3. UNCHANGED rxVars => Holding(p)'
  BY HoldingKept
<1>4. ASSUME NEW g \in Decoded, g = [f EXCEPT !.len = Captured(f.len)], Captured(f.len) > 0,
             AcceptHigh(g) \/ AcceptLow(g) \/ Resync(g)
      PROVE  Holding(p)'
  BY <1>4, HighHolds, LowHolds, ResyncHolds
<1> QED BY <1>1, <1>2, <1>3, <1>4, ProcessCases

\* A context fresh from calloc holds nothing.
LEMMA InitHolds ==
  ASSUME NEW p \in Deliverable, RxInit
  PROVE  Holding(p)
<1>1. 0 < MessageLen(p) /\ MessageLen(p) \in Int
  BY DeliverableType
<1>2. u32Index = 0 /\ u32Sequence = 0 /\ ExpectsHigh /\ buffer[0] = 0 /\ callback = NoCall
  BY DEF RxInit, ExpectsHigh, BufferIndex, BUFFER_MAX
<1>3. \A i \in 0..(MessageLen(p) - 1) : ~ (i < 0)
  BY <1>1
<1> QED BY <1>1, <1>2, <1>3 DEF Holding

-----------------------------------------------------------------------------
(***************************************************************************)
(* The invariant is inductive                                              *)
(***************************************************************************)
LEMMA TransferInit == Init => TransferInv
<1> SUFFICES ASSUME Init, argv \in Deliverable
             PROVE  TransferInv
  BY DEF TransferInv
<1>1. RxInv /\ Holding(argv)
  BY InitInv, InitHolds DEF Init
<1>2. InRound(argv) /\ queue \in Seq(AirFrames(argv))
  BY DEF Init, SourceInit, InRound
<1> QED BY <1>1, <1>2 DEF TransferInv

\* A frame of the round, once or twice, is a frame that may be heard.
LEMMA AirAppends ==
  ASSUME NEW p \in Deliverable, queue \in Seq(AirFrames(p)), NEW k \in Frames(p), Air(FrameLen(p, k))
  PROVE  queue' \in Seq(AirFrames(p))
<1>1. OwnFrame(FrameLen(p, k)) \in AirFrames(p)
  BY DEF AirFrames
<1> DEFINE o == OwnFrame(FrameLen(p, k))
           A == AirFrames(p)
<1>2. o \in A /\ queue \in Seq(A)
  BY <1>1
<1>3. PICK heard \in {<<>>, <<o>>, <<o, o>>} : queue' = queue \o heard
  BY DEF Air
<1> HIDE DEF o, A
<1>4. heard \in Seq(A)
  <2>1. <<>> \in Seq(A) /\ <<o>> \in Seq(A) /\ <<o, o>> \in Seq(A)
    BY <1>2
  <2> QED BY <2>1
<1>5. queue' \in Seq(A)
  BY <1>2, <1>3, <1>4, ConcatProperties
<1> QED BY <1>5 DEF A

LEMMA TransferStep == TransferInv /\ [Next]_vars => TransferInv'
<1> SUFFICES ASSUME TransferInv, [Next]_vars, argv' \in Deliverable
             PROVE  TransferInv'
  BY DEF TransferInv
<1>1. argv' = argv
  BY DEF Next, vars, Transmit, BeginSend, SendFrame, EndSend, OtherStation, AirClears, Receive,
         Restarts, TransmitterRestarts, ReceiverRestarts
<1>2. PICK p \in Deliverable : argv = p /\ argv' = p
  BY <1>1
<1>3. /\ p # Idle /\ Passed(p) = p
      /\ RxInv /\ InRound(p) /\ queue \in Seq(AirFrames(p)) /\ Holding(p)
  BY <1>2, DeliverableType DEF TransferInv
<1> SUFFICES RxInv' /\ InRound(p)' /\ queue' \in Seq(AirFrames(p)) /\ Holding(p)'
  BY <1>2 DEF TransferInv, InRound, Holding
<1>4. ASSUME UNCHANGED rxVars
      PROVE  RxInv' /\ Holding(p)'
  BY <1>3, <1>4, StutterStep, HoldingKept
<1>5. ASSUME UNCHANGED sourceVars
      PROVE  InRound(p)'
  BY <1>3, <1>5 DEF sourceVars, InRound
<1>6. CASE BeginSend
  BY <1>2, <1>3, <1>4, <1>6 DEF BeginSend, Begin, InRound
<1>7. CASE SendFrame
  <2>1. round = p /\ next \in Nat /\ next \in Frames(p)
    BY <1>3, <1>7, DeliverableType DEF SendFrame, Broadcast, InRound, Frames
  <2>2. queue' \in Seq(AirFrames(p))
    BY <1>3, <1>7, <2>1, AirAppends DEF SendFrame
  <2>3. InRound(p)'
    BY <1>7, <2>1 DEF SendFrame, Broadcast, InRound
  <2> QED BY <1>4, <1>7, <2>2, <2>3 DEF SendFrame
<1>8. CASE EndSend
  BY <1>3, <1>4, <1>8 DEF EndSend, EndRound, InRound
<1>9. CASE OtherStation
  <2>1. PICK f \in Noise : queue' = Append(queue, f)
    BY <1>9 DEF OtherStation
  <2>2. f \in AirFrames(p)
    BY DEF AirFrames
  <2>3. queue' \in Seq(AirFrames(p))
    <3> DEFINE A == AirFrames(p)
    <3> HIDE DEF A
    <3>1. queue \in Seq(A) /\ f \in A
      BY <1>3, <2>2 DEF A
    <3>2. queue' \in Seq(A)
      BY <2>1, <3>1
    <3> QED BY <3>2 DEF A
  <2> QED BY <1>4, <1>5, <1>9, <2>3 DEF OtherStation
<1>10. CASE AirClears
  BY <1>3, <1>4, <1>5, <1>10 DEF AirClears
<1>11. CASE Receive
  <2>1. Head(queue) \in AirFrames(p) /\ Tail(queue) \in Seq(AirFrames(p))
    <3> DEFINE A == AirFrames(p)
    <3> HIDE DEF A
    <3>1. queue \in Seq(A) /\ queue # <<>>
      BY <1>3, <1>11 DEF A, Receive
    <3>2. Head(queue) \in A /\ Tail(queue) \in Seq(A)
      BY <3>1
    <3> QED BY <3>2 DEF A
  <2>2. RxProcess(Head(queue)) /\ queue' = Tail(queue) /\ UNCHANGED sourceVars
    BY <1>11 DEF Receive
  <2>3. RxInv' /\ Holding(p)'
    BY <1>3, <2>1, <2>2, ProcessHolds
  <2> QED BY <1>5, <2>1, <2>2, <2>3
<1>12. CASE TransmitterRestarts
  BY <1>3, <1>4, <1>12 DEF TransmitterRestarts, InRound
<1>13. CASE ReceiverRestarts
  <2>1. RxInit' /\ queue' = <<>> /\ UNCHANGED sourceVars
    BY <1>13 DEF ReceiverRestarts, RxInit
  <2>2. RxInit' => RxInv'
    BY InitInv, PTL
  <2>3. Holding(p)'
    <3>1. 0 < MessageLen(p) /\ MessageLen(p) \in Int
      BY DeliverableType
    <3>2. u32Index' = 0 /\ u32Sequence' = 0 /\ ExpectsHigh' /\ buffer'[0] = 0 /\ callback' = NoCall
      BY <2>1 DEF RxInit, ExpectsHigh, BufferIndex, BUFFER_MAX
    <3>3. \A i \in 0..(MessageLen(p) - 1) : ~ (i < 0)
      BY <3>1
    <3> QED BY <3>1, <3>2, <3>3 DEF Holding
  <2> QED BY <1>5, <2>1, <2>2, <2>3
<1>14. CASE UNCHANGED vars
  BY <1>3, <1>4, <1>5, <1>14 DEF vars
<1> QED BY <1>6, <1>7, <1>8, <1>9, <1>10, <1>11, <1>12, <1>13, <1>14 DEF Next, Transmit, Restarts

LEMMA TransferInvariance == Spec => []TransferInv
BY TransferInit, TransferStep, PTL DEF Spec

-----------------------------------------------------------------------------
(***************************************************************************)
(* Theorems                                                                *)
(***************************************************************************)
\* Whatever is lost, repeated, inserted or started again, what the receiver
\* holds is a prefix of the message, and the high nibble after it.
THEOREM PrefixHeld == Spec => []HoldsPrefix
<1>1. TransferInv => HoldsPrefix
  <2> SUFFICES ASSUME TransferInv, argv \in Deliverable
               PROVE  HoldsPrefix
    BY DEF HoldsPrefix
  <2>1. Holding(argv) /\ u32Index \in Nat
    BY ByteRange DEF TransferInv, RxInv, RxTypeOK
  <2>2. ASSUME ~ExpectsHigh, u32Index < MessageLen(argv)
        PROVE  High(buffer[u32Index]) = High(MessageByte(argv, u32Index))
    <3>1. MessageByte(argv, u32Index) \in Byte
      BY <2>1, <2>2, DeliverableType, MessageIsBytes, ByteRange
    <3> QED BY <2>1, <2>2, <3>1, HalvesOfByte DEF Holding
  <2> QED BY <2>1, <2>2 DEF HoldsPrefix, Holding
<1> QED BY <1>1, TransferInvariance, PTL

\* The text the user is called back with is the argument of smartlinktx_demo,
\* if that can be delivered at all.
THEOREM DeliveryCorrect == Spec => []CorrectDelivery
<1>1. TransferInv => CorrectDelivery
  BY DEF TransferInv, Holding, CorrectDelivery
<1> QED BY <1>1, TransferInvariance, PTL

\* What a turn of the receiving thread is made of.
LEMMA ReceiveCases ==
  ASSUME TransferInv, argv \in Deliverable, Receive
  PROVE  \/ UNCHANGED rxVars
         \/ \E f \in AirFrames(argv), g \in Decoded :
              /\ g = [f EXCEPT !.len = Captured(f.len)] /\ Captured(f.len) > 0
              /\ AcceptHigh(g) \/ AcceptLow(g) \/ Resync(g)
<1> DEFINE f == Head(queue)
           A == AirFrames(argv)
<1>1. f \in A
  <2> HIDE DEF A
  <2>1. queue \in Seq(A) /\ queue # <<>>
    BY DEF A, TransferInv, Receive
  <2> QED BY <2>1
<1>2. RxProcess(f)
  BY DEF Receive
<1>3. f \in Frame
  BY <1>1, AirFrameType
<1> HIDE DEF f
<1> QED BY <1>1, <1>2, <1>3, ProcessCases

\* The frame that completes START, p and END is the last of a round, and its
\* address the one handed over.
LEMMA LastFrame ==
  ASSUME TransferInv, argv \in Deliverable, NEW f \in AirFrames(argv), NEW g \in Decoded,
         g = [f EXCEPT !.len = Captured(f.len)], Captured(f.len) > 0, AcceptLow(g),
         callback = NoCall, callback' # NoCall
  PROVE  /\ u32Index + 1 = MessageLen(argv)
         /\ callback' = Call(f.src, argv, u32Index + 1)
         /\ FlagOf(Captured(f.len)) = FlagOf(FrameLen(argv, FrameCount(argv) - 1))
<1> PICK p \in Deliverable : p = argv
  OBVIOUS
<1>1. RxInv /\ Holding(p) /\ Matches(g.len)
  BY DEF TransferInv, AcceptLow
<1>2. Holding(p)' /\ (u32Index + 1 = MessageLen(p) =>
                        /\ callback' = Call(g.src, p, u32Index + 1)
                        /\ FlagOf(g.len) = FlagOf(FrameLen(p, FrameCount(p) - 1)))
  BY <1>1, LowHolds
<1>3. u32Index \in Int /\ 0 <= u32Index /\ u32Index <= 47 /\ MessageLen(p) \in Int
  <2>1. u32Index \in Int /\ 0 <= u32Index /\ u32Index <= 47
    BY <1>1, Position
  <2> QED BY <2>1, DeliverableType
<1>4. u32Index' = u32Index + 1
  BY <1>3, Fits8 DEF AcceptLow
<1>5. u32Index < MessageLen(p)
  BY <1>1 DEF Holding
<1>6. ~ (u32Index' < MessageLen(p))
  BY <1>2 DEF Holding
<1>7. u32Index + 1 = MessageLen(p)
  BY <1>3, <1>4, <1>5, <1>6
<1>8. g.len = Captured(f.len) /\ g.src = f.src
  BY AirFrameType DEF Frame
<1> QED BY <1>2, <1>7, <1>8

\* The address of the first callback is the transmitter's, if nobody else uses
\* the flag of the last frame.
THEOREM AddressCorrect == Spec => MacIsTransmitter
<1>1. TransferInv /\ [Next]_vars
        => [callback = NoCall /\ callback' # NoCall /\ argv \in Deliverable \cap Apart
              => callback'.mac = Transmitter]_vars
  <2> SUFFICES ASSUME TransferInv, Next, callback = NoCall, callback' # NoCall,
                      argv \in Deliverable, argv \in Apart
               PROVE  callback'.mac = Transmitter
    OBVIOUS
  <2>1. Receive
    BY DEF Next, rxVars, Transmit, BeginSend, SendFrame, EndSend, OtherStation, AirClears,
           Restarts, TransmitterRestarts, ReceiverRestarts
  <2>2. PICK f \in AirFrames(argv), g \in Decoded :
          /\ g = [f EXCEPT !.len = Captured(f.len)] /\ Captured(f.len) > 0
          /\ AcceptLow(g)
    BY <2>1, ReceiveCases DEF rxVars, AcceptHigh, Resync
  <2>3. /\ callback' = Call(f.src, argv, u32Index + 1)
        /\ FlagOf(Captured(f.len)) = FlagOf(FrameLen(argv, FrameCount(argv) - 1))
    BY <2>2, LastFrame
  <2>4. f \notin Noise
    BY <2>2, <2>3 DEF Apart
  <2>5. f.src = Transmitter
    BY <2>4 DEF AirFrames, OwnFrame
  <2> QED BY <2>3, <2>5 DEF Call
<1> QED BY <1>1, TransferInvariance, PTL DEF Spec, MacIsTransmitter

-----------------------------------------------------------------------------
(***************************************************************************)
(* The abstract transfer                                                   *)
(***************************************************************************)
\* The number of nibbles held, and the text handed over.
Held(p) == IF u32Sequence < FrameCount(p) THEN u32Sequence ELSE FrameCount(p)
Shown   == IF callback = NoCall THEN NoCall ELSE callback.text

\* While START, p and END are incomplete nothing was handed over; then p was.
HeldIs(p) ==
  /\ u32Sequence \in Int /\ u32Index \in Int /\ 0 <= u32Index
  /\ u32Sequence \in {2 * u32Index, 2 * u32Index + 1}
  /\ u32Index < MessageLen(p) => Held(p) = u32Sequence /\ Shown = NoCall
  /\ ~(u32Index < MessageLen(p)) => Held(p) = FrameCount(p) /\ Shown = p

HoldingMeans == \A p \in Deliverable : RxInv /\ Holding(p) => HeldIs(p)

LEMMA HeldAndShown == HoldingMeans
<1> SUFFICES ASSUME NEW p \in Deliverable, RxInv, Holding(p)
             PROVE  HeldIs(p)
  BY DEF HoldingMeans
<1>1. /\ u32Sequence \in Int /\ u32Index \in Int /\ 0 <= u32Index
      /\ u32Sequence \in {2 * u32Index, 2 * u32Index + 1}
  BY ByteRange DEF RxInv, RxTypeOK, SequenceTracksIndex
<1>2. /\ FrameCount(p) = 2 * (Len(p) + 2) /\ MessageLen(p) = Len(p) + 2
      /\ Len(p) \in Int /\ 1 <= Len(p)
  BY DeliverableType
<1>3. u32Index < MessageLen(p) => Held(p) = u32Sequence /\ Shown = NoCall
  BY <1>1, <1>2 DEF Held, Shown, Holding
<1>4. ~(u32Index < MessageLen(p)) => Held(p) = FrameCount(p) /\ Shown = p
  BY <1>1, <1>2 DEF Held, Shown, Holding
<1> QED BY <1>1, <1>3, <1>4 DEF HeldIs

\* A turn of the receiving thread extends the prefix by a nibble, hands the
\* message over, gives up a prefix of one nibble, or does nothing.
LEMMA ReceiveImplements ==
  ASSUME TransferInv, TransferInv', NEW p \in Deliverable, argv = p, argv' = p, Receive
  PROVE  \/ UNCHANGED <<Held(p), Shown>>
         \/ Held(p) < FrameCount(p) - 1 /\ Held(p)' = Held(p) + 1 /\ UNCHANGED Shown
         \/ Held(p) = 1 /\ Held(p)' = 0 /\ UNCHANGED Shown
         \/ Held(p) = FrameCount(p) - 1 /\ Held(p)' = FrameCount(p) /\ Shown' = p
<1>1. HeldIs(p)
  BY HeldAndShown DEF HoldingMeans, TransferInv
<1>2. HeldIs(p)'
  <2>1. HoldingMeans'
    BY HeldAndShown, PTL
  <2>2. RxInv' /\ Holding(p)'
    BY DEF TransferInv, Holding
  <2> QED BY <2>1, <2>2 DEF HoldingMeans
<1> DEFINE h == Held(p)
           t == Shown
           n == FrameCount(p)
<1>3. n = 2 * (Len(p) + 2) /\ MessageLen(p) = Len(p) + 2 /\ Len(p) \in Int /\ 1 <= Len(p)
  BY DeliverableType
<1>4. /\ u32Sequence \in Int /\ u32Index \in Int /\ 0 <= u32Index
      /\ u32Sequence \in {2 * u32Index, 2 * u32Index + 1}
      /\ u32Index < MessageLen(p) => h = u32Sequence /\ t = NoCall
      /\ ~(u32Index < MessageLen(p)) => h = n /\ t = p
  BY <1>1 DEF HeldIs
<1>5. /\ u32Index' < MessageLen(p) => h' = u32Sequence' /\ t' = NoCall
      /\ ~(u32Index' < MessageLen(p)) => h' = n /\ t' = p
  BY <1>2 DEF HeldIs
<1>6. CASE UNCHANGED rxVars
  BY <1>6 DEF rxVars, Held, Shown
<1>7. ASSUME NEW g \in Decoded, AcceptHigh(g) \/ AcceptLow(g)
      PROVE  u32Sequence' = u32Sequence + 1 /\ u32Index' \in {u32Index, u32Index + 1}
             /\ u32Sequence' \in {2 * u32Index', 2 * u32Index' + 1}
  <2>1. RxInv /\ Matches(g.len)
    BY <1>7 DEF TransferInv, AcceptHigh, AcceptLow
  <2>2. u32Index \in Int /\ 0 <= u32Index /\ u32Index <= 47
    BY <2>1, Position
  <2>3. (u32Index + 1) % U8 = u32Index + 1 /\ (u32Sequence + 1) % U8 = u32Sequence + 1
    BY <1>4, <2>2, Fits8
  <2> QED BY <1>2, <1>7, <2>3 DEF AcceptHigh, AcceptLow, NextSequence, HeldIs
<1> HIDE DEF h, t, n
<1>8. ASSUME NEW g \in Decoded, AcceptHigh(g) \/ AcceptLow(g)
      PROVE  \/ UNCHANGED <<h, t>>
             \/ h < n - 1 /\ h' = h + 1 /\ UNCHANGED t
             \/ h = n - 1 /\ h' = n /\ t' = p
  BY <1>3, <1>4, <1>5, <1>7, <1>8
<1>9. ASSUME NEW g \in Decoded, Resync(g)
      PROVE  h = 1 /\ h' = 0 /\ UNCHANGED t
  BY <1>3, <1>4, <1>5, <1>9 DEF Resync, ExpectsHigh
<1> QED BY <1>6, <1>8, <1>9, ReceiveCases DEF h, t, n

\* No program changes its argument.
LEMMA SameArgument == Spec => [](argv \in Payloads)
<1>1. Init => argv \in Payloads
  BY DEF Init
<1>2. argv \in Payloads /\ [Next]_vars => (argv \in Payloads)'
  BY DEF Next, vars, Transmit, BeginSend, SendFrame, EndSend, OtherStation, AirClears, Receive,
         Restarts, TransmitterRestarts, ReceiverRestarts
<1> QED BY <1>1, <1>2, PTL DEF Spec

\* If every payload can be delivered, the two programs together do what
\* NibbleTransfer promises: the nibbles arrive one by one, in order, and the
\* message is handed over when the last one has.
THEOREM IsTransfer ==
  ASSUME Payloads \subseteq Deliverable
  PROVE  Spec => ImplementsTransfer
<1>1. Init => Transfer!TransferInit
  <2> SUFFICES ASSUME Init PROVE Transfer!TransferInit
    OBVIOUS
  <2>1. u32Sequence = 0 /\ callback = NoCall /\ argv \in Deliverable
    BY DEF Init, RxInit
  <2>2. FrameCount(argv) \in Int /\ 0 < FrameCount(argv)
    BY <2>1, DeliverableType
  <2> QED BY <2>1, <2>2 DEF Transfer!TransferInit
<1>2. TransferInv /\ TransferInv' /\ argv \in Payloads /\ [Next]_vars
        => [Transfer!TransferNext]_<<argv, Held(argv), Shown>>
  <2> SUFFICES ASSUME TransferInv, TransferInv', argv \in Payloads, [Next]_vars
               PROVE  [Transfer!TransferNext]_<<argv, Held(argv), Shown>>
    OBVIOUS
  <2>1. argv' = argv
    BY DEF Next, vars, Transmit, BeginSend, SendFrame, EndSend, OtherStation, AirClears, Receive,
           Restarts, TransmitterRestarts, ReceiverRestarts
  <2>2. PICK p \in Deliverable : argv = p /\ argv' = p
    BY <2>1
  <2>3. CASE Receive
    <3>1. \/ UNCHANGED <<Held(p), Shown>>
          \/ Held(p) < FrameCount(p) - 1 /\ Held(p)' = Held(p) + 1 /\ UNCHANGED Shown
          \/ Held(p) = 1 /\ Held(p)' = 0 /\ UNCHANGED Shown
          \/ Held(p) = FrameCount(p) - 1 /\ Held(p)' = FrameCount(p) /\ Shown' = p
      BY <2>2, <2>3, ReceiveImplements
    <3>2. FrameCount(p) = Transfer!Total
      BY <2>2, DeliverableType DEF Transfer!Total
    <3>3. ASSUME Held(p) < FrameCount(p) - 1, Held(p)' = Held(p) + 1, UNCHANGED Shown
          PROVE  Transfer!Extend
      BY <2>2, <3>2, <3>3 DEF Transfer!Extend, Held, Shown
    <3>4. ASSUME Held(p) = 1, Held(p)' = 0, UNCHANGED Shown
          PROVE  Transfer!Restart
      BY <2>2, <3>4 DEF Transfer!Restart, Held, Shown
    <3>5. ASSUME Held(p) = FrameCount(p) - 1, Held(p)' = FrameCount(p), Shown' = p
          PROVE  Transfer!HandOver
      BY <2>2, <3>2, <3>5 DEF Transfer!HandOver, Held, Shown
    <3>6. UNCHANGED <<Held(p), Shown>> => UNCHANGED <<argv, Held(argv), Shown>>
      BY <2>2 DEF Held
    <3> QED BY <3>1, <3>3, <3>4, <3>5, <3>6 DEF Transfer!TransferNext
  <2>4. CASE ReceiverRestarts
    <3>1. u32Sequence' = 0 /\ callback' = NoCall
      BY <2>4 DEF ReceiverRestarts
    <3>2. FrameCount(p) \in Int /\ 0 < FrameCount(p)
      BY DeliverableType
    <3>3. Transfer!Anew
      BY <2>2, <3>1, <3>2 DEF Transfer!Anew
    <3> QED BY <3>3 DEF Transfer!TransferNext
  <2>5. CASE UNCHANGED rxVars
    BY <2>1, <2>5 DEF rxVars, Held, Shown
  <2> QED BY <2>3, <2>4, <2>5 DEF Next, vars, Transmit, BeginSend, SendFrame, EndSend, OtherStation,
             AirClears, Restarts, TransmitterRestarts
<1> QED BY <1>1, <1>2, SameArgument, TransferInvariance, PTL
        DEF Spec, ImplementsTransfer, Transfer!TransferSpec, Held, Shown
=============================================================================
