------------------------- MODULE SmartLinkRx_proofs -------------------------
(***************************************************************************)
(* Proofs about the receiver of SmartLinkRx, for every set of frames that  *)
(* may be heard and every radiotap header.                                 *)
(***************************************************************************)
EXTENDS SmartLinkRx, SmartLinkCodec_proofs, WellFoundedInduction

\* Every nonempty set of naturals has a least element.
LEMMA LeastNatural ==
  ASSUME NEW S \in SUBSET Nat, S # {}
  PROVE  \E n \in S : \A m \in S : n <= m
<1> DEFINE R == {ss \in Nat \X Nat : ss[1] < ss[2]}
<1>1. IsWellFoundedOn(R, Nat)
  <2>1. OpToRel(<, Nat) = R
    BY Zenon DEF OpToRel
  <2> QED BY <2>1, NatLessThanWellFounded, Zenon
<1>2. \E n \in S : \A m \in S : ~ (<<m, n>> \in R)
  <2> HIDE DEF R
  <2> QED BY <1>1, WFMin, Zenon
<1>3. \A m, n \in Nat : <<m, n>> \in R <=> m < n
  OBVIOUS
<1>4. PICK n \in S : \A m \in S : ~ (<<m, n>> \in R)
  BY <1>2
<1>5. \A m \in S : n <= m
  <2> HIDE DEF R
  <2> TAKE m \in S
  <2>1. m \in Nat /\ n \in Nat
    OBVIOUS
  <2>2. ~ (m < n)
    BY <1>3, <1>4, <2>1
  <2> QED BY <2>1, <2>2
<1> QED BY <1>5

-----------------------------------------------------------------------------
(***************************************************************************)
(* The C string in a buffer                                                *)
(***************************************************************************)
Buffers == [BufferIndex -> Byte]

\* The string ends at the first NUL.
LEMMA TextEndIsFirst ==
  ASSUME NEW b \in Buffers, NEW n \in BufferIndex \ {0}, b[n] = 0
  PROVE  /\ TextEnd(b) \in 1..n
         /\ b[TextEnd(b)] = 0
         /\ \A m \in 1..(TextEnd(b) - 1) : b[m] # 0
<1> DEFINE S == {m \in 1..n : b[m] = 0}
<1>1. PICK k \in S : \A m \in S : k <= m
  <2>1. S \in SUBSET Nat /\ S # {}
    BY DEF BufferIndex, BUFFER_MAX
  <2> HIDE DEF S
  <2> QED BY <2>1, LeastNatural
<1>2. /\ k \in BufferIndex \ {0}
      /\ b[k] = 0
      /\ \A m \in 1..(k - 1) : b[m] # 0
  BY <1>1 DEF BufferIndex, BUFFER_MAX
<1>3. /\ TextEnd(b) \in BufferIndex \ {0}
      /\ b[TextEnd(b)] = 0
      /\ \A m \in 1..(TextEnd(b) - 1) : b[m] # 0
  BY <1>2, Zenon DEF TextEnd
<1>4. TextEnd(b) <= n
  BY <1>3 DEF BufferIndex, BUFFER_MAX
<1> QED BY <1>3, <1>4 DEF BufferIndex, BUFFER_MAX

\* It is a sequence of bytes.
LEMMA TextType ==
  ASSUME NEW b \in Buffers, NEW n \in BufferIndex \ {0}, b[n] = 0
  PROVE  TextOf(b) \in Seq(Byte) /\ Len(TextOf(b)) <= n - 1
<1>1. TextEnd(b) \in 1..n
  BY TextEndIsFirst
<1> DEFINE l == TextEnd(b) - 1
<1>2. n \in 1..511
  BY DEF BufferIndex, BUFFER_MAX
<1>3. l \in 0..(n - 1)
  BY <1>1, <1>2
<1> HIDE DEF l
<1>4. \A i \in 1..l : i \in BufferIndex
  BY <1>2, <1>3 DEF BufferIndex, BUFFER_MAX
<1>5. \A i \in 1..l : b[i] \in Byte
  BY <1>4 DEF Buffers
<1>6. TextOf(b) = [i \in 1..l |-> b[i]]
  BY DEF TextOf, l
<1> QED BY <1>2, <1>3, <1>5, <1>6

\* What lies behind a NUL does not matter.
LEMMA TextStable ==
  ASSUME NEW b \in Buffers, NEW c \in Buffers, NEW n \in BufferIndex \ {0},
         b[n] = 0, \A m \in 1..n : c[m] = b[m]
  PROVE  TextOf(c) = TextOf(b)
<1>1. c[n] = 0
  BY DEF BufferIndex, BUFFER_MAX
<1>2. /\ TextEnd(b) \in 1..n
      /\ b[TextEnd(b)] = 0
      /\ \A m \in 1..(TextEnd(b) - 1) : b[m] # 0
  BY TextEndIsFirst
<1>3. /\ TextEnd(c) \in 1..n
      /\ c[TextEnd(c)] = 0
      /\ \A m \in 1..(TextEnd(c) - 1) : c[m] # 0
  BY <1>1, TextEndIsFirst
<1>4. TextEnd(c) = TextEnd(b)
  BY <1>2, <1>3 DEF BufferIndex, BUFFER_MAX
<1> QED BY <1>2, <1>4 DEF TextOf, BufferIndex, BUFFER_MAX

-----------------------------------------------------------------------------
(***************************************************************************)
(* The inductive invariant                                                 *)
(***************************************************************************)
\* Behind the callback stands the string it was shown, closed by a NUL that
\* later frames do not reach: they write at u32Index or above.
TextIsBehind ==
  callback # NoCall =>
    \E n \in BufferIndex \ {0} :
      /\ n < u32Index
      /\ buffer[n] = 0
      /\ callback.text = TextOf(buffer)

RxInv ==
  /\ RxTypeOK
  /\ SequenceTracksIndex
  /\ NoLongMessage
  /\ AheadIsClear
  /\ LenCoversText
  /\ TextIsBehind

\* A frame as the decoder gets it from socketRevcRawpacket.
Decoded == {f \in [len : Int, src : Stations] :
              FlagOf(f.len) \in FlagsHeard /\ DataOf(f.len) \in Nibble}

Frame == [len : Int, src : Stations]

\* A frame that reaches the decoder has a nibble and one of the flags heard.
LEMMA DecodedType ==
  ASSUME NEW f \in Frame, Captured(f.len) > 0
  PROVE  [f EXCEPT !.len = Captured(f.len)] \in Decoded
BY CapturedFlag DEF Decoded, Frame

\* A context fresh from calloc satisfies the invariant.
LEMMA InitInv == RxInit => RxInv
<1> SUFFICES ASSUME RxInit PROVE RxInv
  OBVIOUS
<1>1. RxTypeOK
  BY DEF RxInit, RxTypeOK, Byte
<1> QED BY <1>1 DEF RxInit, RxInv, SequenceTracksIndex, MaxIndex, NoLongMessage, AheadIsClear,
                    LenCoversText, TextIsBehind

\* The positions and sequence numbers within reach are bytes and in the buffer.
LEMMA SmallNumbers ==
  /\ \A i \in 0..48 : i \in Byte /\ i \in BufferIndex
  /\ \A i \in 0..48 : i # 0 => i - 1 \in BufferIndex
  /\ \A s \in 0..96 : s \in Byte
  /\ 0 \in Nibble
BY DEF Byte, Nibble, BufferIndex, BUFFER_MAX

\* Nothing is accepted at sequence number 96, where the index is 48.
LEMMA AcceptedBelowLimit ==
  ASSUME RxInv, NEW f \in Decoded, Matches(f.len)
  PROVE  /\ u32Index \in 0..47
         /\ u32Sequence \in 0..95
         /\ u32Sequence \in {2 * u32Index, 2 * u32Index + 1}
         /\ ChainNibble \in Nibble
<1>1. u32Index \in 0..48 /\ u32Sequence \in 0..96
  BY DEF RxInv, RxTypeOK, SequenceTracksIndex, MaxIndex, Byte
<1>2. ChainNibble \in Nibble
  <2>1. \A i \in BufferIndex : High(buffer[i]) \in Nibble /\ Low(buffer[i]) \in Nibble
    BY HalvesAreNibbles DEF RxInv, RxTypeOK
  <2> QED BY <1>1, <2>1, SmallNumbers DEF ChainNibble
<1>3. u32Sequence # 96
  BY <1>2, LastSequence DEF Matches, ExpectedFlag, Decoded
<1> QED BY <1>1, <1>2, <1>3 DEF RxInv, SequenceTracksIndex

\* Accepting a high nibble (smartlinkrx.c:49) preserves the invariant.
LEMMA HighStep ==
  ASSUME RxInv, NEW f \in Decoded, AcceptHigh(f)
  PROVE  RxInv'
<1>1. /\ u32Index \in 0..47 /\ u32Index' = u32Index
      /\ u32Sequence = 2 * u32Index /\ u32Sequence' = 2 * u32Index + 1
      /\ u32Index \in BufferIndex /\ u32Sequence' \in Byte
  BY AcceptedBelowLimit, SmallNumbers DEF AcceptHigh, ExpectsHigh, NextSequence, U8
<1>2. /\ buffer \in Buffers /\ buffer' \in Buffers
      /\ \A i \in BufferIndex : i # u32Index => buffer'[i] = buffer[i]
  BY <1>1, OrIsByte DEF AcceptHigh, RxInv, RxTypeOK, Buffers
<1>3. callback' = callback /\ sourceAddr' = sourceAddr
  BY DEF AcceptHigh
<1>4. RxTypeOK'
  BY <1>1, <1>2, <1>3 DEF RxInv, RxTypeOK, Buffers
<1>5. SequenceTracksIndex' /\ NoLongMessage' /\ LenCoversText'
  BY <1>1, <1>3 DEF RxInv, SequenceTracksIndex, MaxIndex, NoLongMessage, LenCoversText
<1>6. AheadIsClear'
  BY <1>1, <1>2 DEF RxInv, AheadIsClear, ExpectsHigh
<1>7. TextIsBehind'
  <2> SUFFICES ASSUME callback # NoCall PROVE TextIsBehind'
    BY <1>3 DEF TextIsBehind
  <2>1. PICK n \in BufferIndex \ {0} :
          n < u32Index /\ buffer[n] = 0 /\ callback.text = TextOf(buffer)
    BY DEF RxInv, TextIsBehind
  <2>2. TextOf(buffer') = TextOf(buffer)
    <3>1. \A m \in 1..n : m \in BufferIndex /\ m # u32Index
      <4>1. n \in 1..511
        BY DEF BufferIndex, BUFFER_MAX
      <4>2. n \in 1..47 /\ \A m \in 1..n : m \in 0..48 /\ m # u32Index
        BY <1>1, <2>1, <4>1
      <4> QED BY <4>2, SmallNumbers
    <3>2. \A m \in 1..n : buffer'[m] = buffer[m]
      BY <1>2, <3>1
    <3> QED BY <1>2, <2>1, <3>2, TextStable
  <2>3. buffer'[n] = 0
    BY <1>1, <1>2, <2>1
  <2> QED BY <1>1, <1>3, <2>1, <2>2, <2>3 DEF TextIsBehind
<1> QED BY <1>4, <1>5, <1>6, <1>7 DEF RxInv

\* The low nibble that completes END has a sequence number below 89.
LEMMA EndBelowLimit ==
  ASSUME RxInv, NEW f \in Decoded, Matches(f.len), ~ExpectsHigh,
         Or(buffer[u32Index], DataOf(f.len)) = END_FLAGS
  PROVE  u32Index + 1 <= MaxCallLen
<1>1. u32Index \in 0..47 /\ u32Sequence = 2 * u32Index + 1
  BY AcceptedBelowLimit DEF ExpectsHigh
<1>2. High(buffer[u32Index]) = 7
  <2>1. buffer[u32Index] \in Byte /\ DataOf(f.len) \in Nibble
    BY <1>1, SmallNumbers DEF RxInv, RxTypeOK, Decoded
  <2> QED BY <2>1, EndHasHighNibble7
<1>3. Xor(7, u32Sequence) \in FlagsHeard
  BY <1>2 DEF Matches, ExpectedFlag, ChainNibble, Decoded
<1>4. u32Sequence \notin {89, 91, 93, 95}
  BY <1>3, LastEnd
<1> QED BY <1>1, <1>4 DEF MaxCallLen

\* Completing a byte does not change a string that ended before it.
LEMMA LowKeepsText ==
  ASSUME RxInv, NEW f \in Decoded, AcceptLow(f),
         NEW n \in BufferIndex \ {0}, n < u32Index, buffer[n] = 0
  PROVE  buffer'[n] = 0 /\ TextOf(buffer') = TextOf(buffer)
<1>1. u32Index \in 0..47 /\ u32Index \in BufferIndex
  BY AcceptedBelowLimit, SmallNumbers DEF AcceptLow
<1>2. \A i \in BufferIndex : i # u32Index => buffer'[i] = buffer[i]
  BY DEF AcceptLow, RxInv, RxTypeOK
<1>3. buffer \in Buffers /\ buffer' \in Buffers
  <2> DEFINE byte == Or(buffer[u32Index], DataOf(f.len))
  <2>1. PICK e : buffer' = [buffer EXCEPT ![u32Index] = Stored(e, byte)]
    BY DEF AcceptLow
  <2>2. Stored(e, byte) \in Byte
    <3>1. byte \in Byte /\ 0 \in Byte
      BY OrIsByte DEF Byte
    <3> HIDE DEF byte
    <3> QED BY <3>1 DEF Stored
  <2> HIDE DEF byte
  <2> QED BY <1>1, <2>1, <2>2 DEF RxInv, RxTypeOK, Buffers
<1>4. \A m \in 1..n : buffer'[m] = buffer[m]
  <2>1. n \in 1..511
    BY DEF BufferIndex, BUFFER_MAX
  <2>2. \A m \in 1..n : m \in 0..48 /\ m # u32Index
    BY <1>1, <2>1
  <2> QED BY <1>2, <2>2, SmallNumbers
<1>5. TextOf(buffer') = TextOf(buffer)
  BY <1>3, <1>4, TextStable
<1>6. buffer'[n] = 0
  BY <1>4 DEF BufferIndex, BUFFER_MAX
<1> QED BY <1>5, <1>6

\* Accepting a low nibble, completing a byte and perhaps calling the user back
\* (smartlinkrx.c:57-73), preserves the invariant.
LEMMA LowStep ==
  ASSUME RxInv, NEW f \in Decoded, AcceptLow(f)
  PROVE  RxInv'
<1> DEFINE byte  == Or(buffer[u32Index], DataOf(f.len))
           ended == IsEnd(u32Index + 1, byte)
           src   == SourceAddr(u32Index + 1, f)
<1>1. /\ u32Index \in 0..47 /\ u32Index' = u32Index + 1 /\ (u32Index + 1) % U8 = u32Index + 1
      /\ u32Sequence = 2 * u32Index + 1 /\ u32Sequence' = 2 * u32Index + 2
      /\ u32Index \in BufferIndex /\ u32Index' \in Byte /\ u32Sequence' \in Byte
  BY AcceptedBelowLimit, SmallNumbers DEF AcceptLow, ExpectsHigh, NextSequence, U8
<1>2. byte \in Byte
  BY OrIsByte
<1>3. /\ buffer' = [buffer EXCEPT ![u32Index] = Stored(ended, byte)]
      /\ sourceAddr' = src
      /\ ended \in BOOLEAN
      /\ ended  => callback' = Call(sourceAddr', TextOf(buffer'), u32Index + 1)
      /\ ~ended => callback' = callback
  BY <1>1 DEF AcceptLow, CallLen, IsEnd
<1>4. /\ buffer \in Buffers /\ buffer' \in Buffers
      /\ \A i \in BufferIndex : i # u32Index => buffer'[i] = buffer[i]
  BY <1>1, <1>2, <1>3 DEF Stored, RxInv, RxTypeOK, Buffers, Byte
<1>5. ended => buffer'[u32Index] = 0
  BY <1>1, <1>3 DEF Stored, RxInv, RxTypeOK
<1>6. sourceAddr' \in Stations \cup {ZeroMac} /\ (ended => sourceAddr' \in Stations)
  BY <1>3 DEF SourceAddr, IsEnd, RxInv, RxTypeOK, Decoded
<1>7. ended => /\ u32Index \in BufferIndex \ {0}
               /\ u32Index + 1 <= MaxCallLen
  BY <1>1, EndBelowLimit DEF IsEnd, AcceptLow
<1>8. ended => /\ TextOf(buffer') \in Seq(Byte)
               /\ Len(TextOf(buffer')) <= u32Index - 1
  BY <1>4, <1>5, <1>7, TextType
<1> HIDE DEF byte, ended, src
<1>9. RxTypeOK'
  <2>1. CASE ended
    <3>1. callback' \in Calls
      BY <1>1, <1>3, <1>6, <1>8, <2>1 DEF Call, Calls
    <3> QED BY <1>1, <1>4, <1>6, <3>1 DEF RxTypeOK, Buffers
  <2>2. CASE ~ended
    BY <1>1, <1>3, <1>4, <1>6, <2>2 DEF RxInv, RxTypeOK, Buffers
  <2> QED BY <1>3, <2>1, <2>2
<1>10. SequenceTracksIndex' /\ AheadIsClear'
  <2>1. SequenceTracksIndex'
    BY <1>1 DEF SequenceTracksIndex, MaxIndex
  <2>2. ASSUME NEW i \in BufferIndex, i > u32Index
        PROVE  buffer'[i] = 0
    <3>1. i # u32Index
      BY <1>1, <2>2 DEF BufferIndex, BUFFER_MAX
    <3>2. buffer[i] = 0
      BY <2>2 DEF RxInv, AheadIsClear
    <3> QED BY <1>4, <3>1, <3>2
  <2>3. /\ u32Index + 1 \in BufferIndex /\ u32Index + 1 > u32Index
        /\ \A i \in BufferIndex : i > u32Index + 1 => i > u32Index
    BY <1>1 DEF BufferIndex, BUFFER_MAX
  <2>4. buffer'[u32Index + 1] = 0
    BY <2>2, <2>3
  <2>5. \A i \in BufferIndex : i > u32Index + 1 => buffer'[i] = 0
    BY <2>2, <2>3
  <2>6. u32Index' = u32Index + 1
    BY <1>1
  <2> QED BY <2>1, <2>4, <2>5, <2>6, Zenon DEF AheadIsClear
<1>11. NoLongMessage'
  BY <1>1, <1>3, <1>7 DEF RxInv, NoLongMessage, Call
<1>12. LenCoversText'
  BY <1>1, <1>3, <1>8 DEF RxInv, LenCoversText, Call
<1>13. TextIsBehind'
  <2>1. CASE ended
    <3>1. u32Index < u32Index' /\ u32Index \in BufferIndex \ {0}
      BY <1>1, <1>7, <2>1
    <3>2. callback'.text = TextOf(buffer')
      BY <1>3, <2>1 DEF Call
    <3> QED BY <1>5, <2>1, <3>1, <3>2 DEF TextIsBehind
  <2>2. CASE ~ended /\ callback # NoCall
    <3>1. PICK n \in BufferIndex \ {0} :
            n < u32Index /\ buffer[n] = 0 /\ callback.text = TextOf(buffer)
      BY <2>2 DEF RxInv, TextIsBehind
    <3>2. buffer'[n] = 0 /\ TextOf(buffer') = TextOf(buffer)
      BY <3>1, LowKeepsText
    <3> QED BY <1>1, <1>3, <2>2, <3>1, <3>2 DEF TextIsBehind
  <2>3. CASE ~ended /\ callback = NoCall
    BY <1>3, <2>3 DEF TextIsBehind
  <2> QED BY <2>1, <2>2, <2>3
<1> QED BY <1>9, <1>10, <1>11, <1>12, <1>13 DEF RxInv

\* Starting over in byte 0 (smartlinkrx.c:53) preserves the invariant.
LEMMA ResyncStep ==
  ASSUME RxInv, NEW f \in Decoded, Resync(f)
  PROVE  RxInv'
<1>1. /\ u32Index = 0 /\ u32Index' = 0 /\ u32Sequence' = 0
      /\ buffer' = buffer /\ sourceAddr' = sourceAddr /\ callback' = callback
  BY DEF Resync
<1> QED BY <1>1 DEF RxInv, RxTypeOK, Byte, SequenceTracksIndex, MaxIndex, NoLongMessage,
                    AheadIsClear, LenCoversText, TextIsBehind

\* So does ignoring a frame.
LEMMA StutterStep ==
  ASSUME RxInv, UNCHANGED rxVars
  PROVE  RxInv'
BY DEF rxVars, RxInv, RxTypeOK, SequenceTracksIndex, NoLongMessage, AheadIsClear, ExpectsHigh,
       LenCoversText, TextIsBehind

\* One turn of the receiving thread: the frame is decoded, or nothing changes.
LEMMA ProcessCases ==
  ASSUME NEW f \in Frame, RxProcess(f)
  PROVE  \/ UNCHANGED rxVars
         \/ \E g \in Decoded : /\ g = [f EXCEPT !.len = Captured(f.len)] /\ Captured(f.len) > 0
                               /\ AcceptHigh(g) \/ AcceptLow(g) \/ Resync(g)
<1>1. Captured(f.len) \in Int
  BY RadiotapAssumption DEF Captured, MaxSendlen, PACKET_MAX, MacOverhead, Frame
<1>2. CASE Captured(f.len) <= 0
  BY <1>2 DEF RxProcess
<1>3. CASE Captured(f.len) > 0
  <2> DEFINE g == [f EXCEPT !.len = Captured(f.len)]
  <2>1. g \in Decoded
    BY <1>3, DecodedType
  <2>2. ~ (Captured(f.len) <= 0)
    BY <1>1, <1>3
  <2>3. RxDecode(g)
    BY <2>2 DEF RxProcess
  <2>4. AcceptHigh(g) \/ AcceptLow(g) \/ Resync(g) \/ UNCHANGED rxVars
    <3> HIDE DEF g
    <3> QED BY <2>3 DEF RxDecode, Ignore
  <2> QED BY <1>3, <2>1, <2>4
<1> QED BY <1>1, <1>2, <1>3

\* The invariant is inductive: every turn of the receiving thread preserves it.
LEMMA ProcessInv ==
  ASSUME RxInv, NEW f \in Frame, RxProcess(f)
  PROVE  RxInv'
BY ProcessCases, HighStep, LowStep, ResyncStep, StutterStep

LEMMA StepInv == RxInv /\ [RxNext]_rxVars => RxInv'
BY ProcessInv, StutterStep, HeardAssumption DEF RxNext, Frame

-----------------------------------------------------------------------------
(***************************************************************************)
(* Theorems                                                                *)
(***************************************************************************)
\* The invariant holds in every state, whatever frames are heard.
LEMMA Invariance == RxSpec => []RxInv
<1>1. RxInit => RxInv
  BY InitInv
<1>2. RxInv /\ [RxNext]_rxVars => RxInv'
  BY StepInv
<1> QED BY <1>1, <1>2, PTL DEF RxSpec

\* Whatever is heard, the fields of SmartLinkRx_t keep their types and the
\* decoder stays inside its buffer; the text of a callback is a C string of
\* bytes inside the buffer.
THEOREM RxTypeCorrect == RxSpec => []RxTypeOK
<1>1. RxInv => RxTypeOK
  BY DEF RxInv
<1> QED BY <1>1, Invariance, PTL

\* Whatever is heard, index and sequence number keep in step and neither
\* uint8_t wraps: recvfrom's buffer of PACKET_MAX bytes stops them at 48, 96.
THEOREM IndexBounded == RxSpec => []SequenceTracksIndex
<1>1. RxInv => SequenceTracksIndex
  BY DEF RxInv
<1> QED BY <1>1, Invariance, PTL

\* Whatever is heard, no message of more than 44 bytes is reported.
THEOREM LongMessagesLost == RxSpec => []NoLongMessage
<1>1. RxInv => NoLongMessage
  BY DEF RxInv
<1> QED BY <1>1, Invariance, PTL

\* Whatever is heard, |= meets a zero everywhere but in byte 0.
THEOREM OrAssigns == RxSpec => []AheadIsClear
<1>1. RxInv => AheadIsClear
  BY DEF RxInv
<1> QED BY <1>1, Invariance, PTL

\* Whatever is heard, len is at least two more than the length of the string.
THEOREM LenOverstates == RxSpec => []LenCoversText
<1>1. RxInv => LenCoversText
  BY DEF RxInv
<1> QED BY <1>1, Invariance, PTL

\* Whatever is heard after the first callback, the user is never shown another
\* text.
THEOREM OneText == RxSpec => RepeatedCallsShowSameText
<1>1. RxInv /\ RxInv' /\ [RxNext]_rxVars
        => [callback # NoCall => callback'.text = callback.text]_rxVars
  <2> SUFFICES ASSUME RxInv, RxNext, callback # NoCall
               PROVE  callback'.text = callback.text
    OBVIOUS
  <2>1. PICK f \in Frame : RxProcess(f)
    BY HeardAssumption DEF RxNext, Frame
  <2>2. CASE UNCHANGED callback
    BY <2>2
  <2>3. ASSUME NEW g \in Decoded, AcceptLow(g), ~ UNCHANGED callback
        PROVE  callback'.text = callback.text
    <3>1. PICK n \in BufferIndex \ {0} :
            n < u32Index /\ buffer[n] = 0 /\ callback.text = TextOf(buffer)
      BY DEF RxInv, TextIsBehind
    <3>2. TextOf(buffer') = TextOf(buffer)
      BY <2>3, <3>1, LowKeepsText
    <3> QED BY <2>3, <3>1, <3>2 DEF AcceptLow, Call
  <2> QED BY <2>1, <2>2, <2>3, ProcessCases DEF rxVars, AcceptHigh, Resync
<1> QED BY <1>1, Invariance, PTL DEF RxSpec, RepeatedCallsShowSameText
=============================================================================
