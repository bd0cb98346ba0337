------------------------- MODULE SmartLinkTx_proofs -------------------------
(***************************************************************************)
(* The transmitter, for any number of senders and any payloads: mutual     *)
(* exclusion keeps the shared sequence number in step with the index each  *)
(* sender counts for itself, hence every length sent is the one FrameSource *)
(* wants next.                                                             *)
(***************************************************************************)
EXTENDS SmartLinkTx, SmartLinkCodec_proofs

InLoop    == {"send0", "send1", "delay"}
InRound   == {"loop"} \cup InLoop
CallState ==
  [at      : {"out", "lock", "stray"} \cup InRound,
   input   : Payloads \cup {<<>>},
   u8Index : Byte,
   sendlen : Int \X Int]

\* What is true of the call c of thread t, seq being the sequence number and h
\* the holder of the mutex.  Locals are fresh until the loop is entered.  In the
\* loop the thread has the mutex, the sequence number is in step with the index,
\* and the lengths computed are the ones of the byte the index stands at.
CallOK(t, c, seq, h) ==
  /\ c.at = "out"  => c = Out
  /\ c.at # "out"  => c.input \in Payloads
  /\ c.at = "lock" => c.u8Index = 0 /\ c.sendlen = <<0, 0>>
  /\ c.at \in InRound =>
       /\ h = t
       /\ c.u8Index <= MessageLen(c.input)
       /\ seq = (2 * c.u8Index + (IF c.at = "loop" THEN 0 ELSE 2)) % U8
  /\ c.at \in InLoop =>
       /\ c.u8Index < MessageLen(c.input)
       /\ c.sendlen = <<FrameLen(c.input, 2 * c.u8Index), FrameLen(c.input, 2 * c.u8Index + 1)>>

CallsInv ==
  /\ call \in [Senders -> CallState]
  /\ \A t \in Senders : CallOK(t, call[t], u32Sequence, holder)

\* The fields keep their types, a descriptor in the context is open, and no
\* other descriptor is, but for 0.
FieldsInv ==
  /\ context \in {"none", "live", "freed", "undefined"}
  /\ sockfd \in Fds \cup {INVALID_SOCKET} /\ (Valid(sockfd) => sockfd \in openFds)
  /\ u32Sequence \in Byte
  /\ holder \in Senders \cup {Owner, Nobody}
  /\ openFds \subseteq Fds \cap {0, sockfd}
  /\ owner \in {"out", "lock", "unlock", "free"}

\* The owner holds the mutex until it has given it back; from then on the
\* socket is closed.
OwnerCloses ==
  /\ owner = "unlock" => holder = Owner
  /\ owner \in {"unlock", "free"} \/ context = "freed" => ~Valid(sockfd)

\* Without a context there is nothing to use.
NothingBefore ==
  context = "none" =>
    /\ sockfd = INVALID_SOCKET /\ holder = Nobody /\ owner = "out"
    /\ \A t \in Senders : call[t].at = "out"

TxInv ==
  /\ FieldsInv
  /\ CallsInv
  /\ OwnerCloses
  /\ NothingBefore

-----------------------------------------------------------------------------
(***************************************************************************)
(* The invariant holds in the beginning.                                   *)
(***************************************************************************)
LEMMA OutIsCall == Out \in CallState
<1>1. <<0, 0>> \in Int \X Int
  OBVIOUS
<1>2. 0 \in Byte
  BY ByteRange
<1> QED BY <1>1, <1>2 DEF Out, CallState

LEMMA TxInvInit == TxInit => TxInv
<1> SUFFICES ASSUME TxInit PROVE TxInv
  OBVIOUS
<1>1. 0 \in Byte
  BY ByteRange
<1>2. FieldsInv
  <2>1. ~ (-1 > 0)
    OBVIOUS
  <2> QED BY <1>1, <2>1 DEF TxInit, FieldsInv, Valid, INVALID_SOCKET
<1>3. call \in [Senders -> CallState] /\ \A t \in Senders : call[t] = Out
  BY OutIsCall DEF TxInit
<1>4. Out.at = "out"
  BY DEF Out
<1>5. CallsInv
  BY <1>3, <1>4 DEF CallsInv, CallOK, InRound, InLoop
<1>6. OwnerCloses /\ NothingBefore
  BY <1>3, <1>4 DEF TxInit, OwnerCloses, NothingBefore, Valid, INVALID_SOCKET
<1> QED BY <1>2, <1>5, <1>6 DEF TxInv

-----------------------------------------------------------------------------
(***************************************************************************)
(* Steps of smartlinktTxInit and of the owner leave the calls alone.       *)
(***************************************************************************)
LEMMA CallsUnchanged ==
  ASSUME CallsInv, UNCHANGED <<call, u32Sequence>>,
         UNCHANGED holder \/ holder \notin Senders
  PROVE  CallsInv'
BY DEF CallsInv, CallOK, InRound, InLoop

\* smartlinktTxInit (smartlinktx.c:37-72).
LEMMA InitStep ==
  ASSUME TxInv, NEW fd \in Fds, InitSucceeds(fd) \/ InitFails(fd)
  PROVE  TxInv'
<1>1. CallsInv'
  BY CallsUnchanged DEF TxInv, InitSucceeds, InitFails
<1>2. /\ sockfd = INVALID_SOCKET /\ holder = Nobody /\ owner = "out"
      /\ \A t \in Senders : call[t].at = "out"
  BY DEF TxInv, NothingBefore, InitSucceeds, InitFails
<1> USE DEF TxInv, FieldsInv, Valid, OwnerCloses, NothingBefore, INVALID_SOCKET
<1>3. CASE InitSucceeds(fd)
  BY <1>1, <1>2, <1>3, FdsAssumption DEF InitSucceeds, Created
<1>4. CASE InitFails(fd)
  BY <1>1, <1>2, <1>4, FdsAssumption DEF InitFails, Created, StillOpen
<1> QED BY <1>3, <1>4

\* smartlinkTxDeInt (smartlinktx.c:73-81).
LEMMA OwnerStepInv ==
  ASSUME TxInv, DeInt \/ OwnerStep
  PROVE  TxInv'
<1>1. CallsInv'
  BY CallsUnchanged, TxAssumption
     DEF TxInv, OwnerCloses, DeInt, OwnerStep, OwnerGoes, Close, UnlockClosed, Free, Acquire, Release
<1> USE DEF TxInv, FieldsInv, Valid, OwnerCloses, NothingBefore, INVALID_SOCKET, OwnerGoes
<1>2. CASE DeInt
  BY <1>1, <1>2 DEF DeInt
<1>3. CASE Close
  BY <1>1, <1>3, TxAssumption, FdsAssumption DEF Close, Acquire, Closed, StillOpen
<1>4. CASE UnlockClosed
  BY <1>1, <1>4, TxAssumption DEF UnlockClosed, Release
<1>5. CASE Free
  BY <1>1, <1>5 DEF Free
<1> QED BY <1>2, <1>3, <1>4, <1>5 DEF OwnerStep

-----------------------------------------------------------------------------
(***************************************************************************)
(* smartlinkTxSend (smartlinktx.c:85-124)                                  *)
(***************************************************************************)
\* A step of thread t on a live context, from its call c to its call d, keeps
\* the invariant if d is as it should be and if the mutex and the sequence
\* number are nobody else's.
LEMMA SenderMoves ==
  ASSUME TxInv, NEW t \in Senders, NEW d \in CallState,
         context = "live", UNCHANGED <<context, sockfd, openFds, owner>>,
         call' = [call EXCEPT ![t] = d],
         d.at # "stray",
         UNCHANGED <<u32Sequence, holder>> \/ holder \in {t, Nobody},
         u32Sequence' \in Byte, holder' \in {t, Nobody, holder},
         CallOK(t, d, u32Sequence', holder')
  PROVE  TxInv'
<1>1. /\ call' \in [Senders -> CallState] /\ call'[t] = d
      /\ \A s \in Senders : s # t => call'[s] = call[s]
  BY DEF TxInv, CallsInv
<1>2. ASSUME NEW s \in Senders
      PROVE  CallOK(s, call'[s], u32Sequence', holder')
  <2>1. CASE s = t
    BY <2>1, <1>1
  <2>2. CASE s # t
    <3>1. CallOK(s, call[s], u32Sequence, holder) /\ call'[s] = call[s]
      BY <2>2, <1>1 DEF TxInv, CallsInv
    <3>2. CASE UNCHANGED <<u32Sequence, holder>>
      BY <3>1, <3>2
    <3>3. CASE holder \in {t, Nobody}
      <4>1. call[s].at \notin InRound
        BY <3>1, <3>3, <2>2, TxAssumption DEF CallOK
      <4> QED BY <3>1, <4>1 DEF CallOK, InRound
    <3> QED BY <3>2, <3>3
  <2> QED BY <2>1, <2>2
<1>3. CallsInv'
  BY <1>1, <1>2 DEF CallsInv
<1>4. FieldsInv'
  BY DEF TxInv, FieldsInv, Valid
<1>5. OwnerCloses'
  BY TxAssumption DEF TxInv, OwnerCloses, Valid
<1>6. NothingBefore'
  BY <1>1 DEF TxInv, NothingBefore
<1> QED BY <1>3, <1>4, <1>5, <1>6 DEF TxInv

LEMMA CallStep ==
  ASSUME TxInv, NEW t \in Senders, NEW p \in Payloads, Call(t, p)
  PROVE  TxInv'
<1>1. call[t] = Out /\ context = "live"
  BY DEF Call, At, TxInv, CallsInv, CallOK
<1>2. PICK d : d = [Out EXCEPT !.at = "lock", !.input = p]
  OBVIOUS
<1>3. /\ d \in CallState /\ d.at = "lock" /\ d.u8Index = 0 /\ d.sendlen = <<0, 0>>
      /\ d.input \in Payloads
  BY <1>2, OutIsCall DEF Out, CallState
<1>4. call' = [call EXCEPT ![t] = d]
  BY <1>1, <1>2 DEF Call
<1>5. CallOK(t, d, u32Sequence', holder')
  BY <1>3 DEF CallOK, InRound, InLoop
<1>6. u32Sequence \in Byte
  BY DEF TxInv, FieldsInv
<1> QED BY <1>1, <1>3, <1>4, <1>5, <1>6, SenderMoves DEF Call

\* A payload is a sequence of bytes; its message is not longer than a uint8_t
\* can say.
LEMMA CallFields ==
  ASSUME NEW c \in CallState
  PROVE  /\ c.input \in Seq(Byte)
         /\ c.u8Index \in Byte /\ c.u8Index \in Int /\ 0 <= c.u8Index /\ c.u8Index < 256
         /\ MessageLen(c.input) \in Int /\ 0 <= MessageLen(c.input)
<1>1. c.input \in Payloads \cup {<<>>} /\ c.u8Index \in Byte
  BY DEF CallState
<1>2. <<>> \in Seq(Byte)
  OBVIOUS
<1>3. c.input \in Seq(Byte)
  BY <1>1, <1>2, TxAssumption, Zenon
<1>4. MessageLen(c.input) \in Byte
  BY <1>3, MessageIsBytes
<1> QED BY <1>1, <1>3, <1>4, ByteRange

\* MUTEX_LOCK: the sequence number starts at 0 together with the index.
LEMMA LockStep ==
  ASSUME TxInv, NEW t \in Senders, Lock(t)
  PROVE  TxInv'
<1>1. /\ context = "live" /\ call[t].at = "lock" /\ holder = Nobody
      /\ holder' = t /\ u32Sequence' = 0
  BY DEF Lock, At, Acquire
<1>2. call[t] \in CallState /\ call[t].u8Index = 0 /\ call[t].input \in Payloads
  BY <1>1 DEF TxInv, CallsInv, CallOK
<1>3. PICK d : d = [call[t] EXCEPT !.at = "loop"]
  OBVIOUS
<1>4. d \in CallState /\ d.at = "loop" /\ d.u8Index = 0 /\ d.input = call[t].input
  BY <1>2, <1>3 DEF CallState, InRound
<1>5. call' = [call EXCEPT ![t] = d]
  BY <1>2, <1>3 DEF Lock, GoTo, TxInv, CallsInv
<1>6. CallOK(t, d, u32Sequence', holder')
  <2>1. 0 <= MessageLen(d.input)
    BY <1>4, CallFields
  <2> QED BY <1>1, <1>2, <1>4, <2>1 DEF CallOK, InRound, InLoop, U8
<1>7. 0 \in Byte
  BY ByteRange DEF TxInv, FieldsInv
<1> QED BY <1>1, <1>4, <1>5, <1>6, <1>7, SenderMoves DEF Lock

\* u32Sequence++ on uint8_t.
LEMMA CountsOn ==
  ASSUME NEW n \in Int, 0 <= n
  PROVE  /\ (((2 * n) % U8) + 1) % U8 = (2 * n + 1) % U8
         /\ (((2 * n) % U8) + 2) % U8 = (2 * n + 2) % U8
BY DEF U8

\* One round of the loop: both lengths are computed and the sequence number is
\* incremented twice.
LEMMA EncodeStep ==
  ASSUME TxInv, NEW t \in Senders, Encode(t)
  PROVE  TxInv'
<1> DEFINE c == call[t]
           s == u32Sequence
<1>1. /\ context = "live" /\ c.at = "loop" /\ c.u8Index < MessageLen(c.input)
      /\ UNCHANGED holder
  BY DEF Encode, At, More
<1>2. c \in CallState /\ c.input \in Payloads /\ holder = t /\ s = (2 * c.u8Index) % U8
  <2>1. c \in CallState /\ CallOK(t, c, s, holder)
    BY DEF TxInv, CallsInv
  <2>2. c.u8Index \in Int
    BY <2>1, CallFields
  <2> HIDE DEF c
  <2> QED BY <1>1, <2>1, <2>2 DEF CallOK, InRound
<1>3. PICK d : d = [c EXCEPT !.at = "send0",
                             !.sendlen = <<SendLen0(c.input, c.u8Index, s),
                                           SendLen1(c.input, c.u8Index, (s + 1) % U8)>>]
  OBVIOUS
<1> HIDE DEF c, s
<1>4. /\ c.input \in Seq(Byte) /\ c.u8Index \in Byte /\ s \in Byte /\ (s + 1) % U8 \in Byte
      /\ c.u8Index \in Int /\ 0 <= c.u8Index
  <2>1. s \in Byte
    BY DEF s, TxInv, FieldsInv
  <2>2. (s + 1) % U8 \in Byte
    BY <2>1, ByteRange DEF U8
  <2> QED BY <2>1, <2>2, <1>2, CallFields
<1>5. <<SendLen0(c.input, c.u8Index, s), SendLen1(c.input, c.u8Index, (s + 1) % U8)>> \in Int \X Int
  BY <1>1, <1>4, LengthsOfByte
<1>6. /\ d \in CallState /\ d.at = "send0" /\ d.u8Index = c.u8Index /\ d.input = c.input
      /\ d.sendlen = <<SendLen0(c.input, c.u8Index, s), SendLen1(c.input, c.u8Index, (s + 1) % U8)>>
  BY <1>2, <1>3, <1>5 DEF CallState, InRound, InLoop
<1>7. call' = [call EXCEPT ![t] = d]
  BY <1>2, <1>3 DEF Encode, TxInv, CallsInv, c, s
<1>8. u32Sequence' = (2 * c.u8Index + 2) % U8 /\ u32Sequence' \in Byte
  <2>1. u32Sequence' = (s + 2) % U8
    BY DEF Encode, s
  <2>2. (s + 2) % U8 = (2 * c.u8Index + 2) % U8
    BY <1>2, <1>4, CountsOn
  <2>3. (2 * c.u8Index + 2) % U8 \in Byte
    BY <1>4, ByteRange DEF U8
  <2> QED BY <2>1, <2>2, <2>3
<1>9. (s + 1) % U8 = (2 * c.u8Index + 1) % U8
  BY <1>2, <1>4, CountsOn
<1>10. CallOK(t, d, u32Sequence', holder')
  <2>1. d.sendlen = <<FrameLen(d.input, 2 * d.u8Index), FrameLen(d.input, 2 * d.u8Index + 1)>>
    BY <1>2, <1>4, <1>6, <1>9, FramesOfByte
  <2>2. holder' = t /\ d.u8Index <= MessageLen(d.input) /\ d.u8Index < MessageLen(d.input)
    BY <1>1, <1>2, <1>4, <1>6, CallFields
  <2> QED BY <1>2, <1>6, <1>8, <2>1, <2>2 DEF CallOK, InRound, InLoop
<1> QED BY <1>1, <1>2, <1>6, <1>7, <1>8, <1>10, SenderMoves DEF Encode, c

\* Both sendto calls.
LEMMA SendStep ==
  ASSUME TxInv, NEW t \in Senders, Send0(t) \/ Send1(t)
  PROVE  TxInv'
<1>1. PICK l \in {"send1", "delay"} : GoTo(t, l)
  BY DEF Send0, Send1
<1>2. /\ context = "live" /\ call[t].at \in {"send0", "send1"}
      /\ UNCHANGED <<context, sockfd, u32Sequence, holder, openFds, owner>>
  BY DEF Send0, Send1, At
<1>3. call[t] \in CallState /\ CallOK(t, call[t], u32Sequence, holder)
  BY DEF TxInv, CallsInv
<1>4. PICK d : d = [call[t] EXCEPT !.at = l]
  OBVIOUS
<1>5. /\ d \in CallState /\ d.at = l /\ d.u8Index = call[t].u8Index
      /\ d.input = call[t].input /\ d.sendlen = call[t].sendlen
  BY <1>3, <1>4 DEF CallState, InRound, InLoop
<1>6. call' = [call EXCEPT ![t] = d]
  BY <1>1, <1>3, <1>4 DEF GoTo, TxInv, CallsInv
<1>7. CallOK(t, d, u32Sequence', holder')
  BY <1>2, <1>3, <1>5 DEF CallOK, InRound, InLoop
<1>8. u32Sequence \in Byte
  BY DEF TxInv, FieldsInv
<1> QED BY <1>2, <1>5, <1>6, <1>7, <1>8, SenderMoves

\* usleep, and u8Index++.
LEMMA DelayStep ==
  ASSUME TxInv, NEW t \in Senders, Delay(t)
  PROVE  TxInv'
<1> DEFINE c == call[t]
<1>1. context = "live" /\ c.at = "delay"
  BY DEF Delay, At
<1>2. c \in CallState /\ CallOK(t, c, u32Sequence, holder)
  BY DEF TxInv, CallsInv
<1>3. PICK d : d = [c EXCEPT !.at = "loop", !.u8Index = (@ + 1) % U8]
  OBVIOUS
<1>4. call' = [call EXCEPT ![t] = d]
  BY <1>2, <1>3 DEF Delay, TxInv, CallsInv
<1>5. u32Sequence \in Byte
  BY DEF TxInv, FieldsInv
<1> HIDE DEF c
<1>7. /\ holder = t /\ c.u8Index \in Int /\ 0 <= c.u8Index /\ c.u8Index < MessageLen(c.input)
      /\ MessageLen(c.input) \in Int /\ MessageLen(c.input) < 256
      /\ u32Sequence = (2 * c.u8Index + 2) % U8 /\ c.input \in Payloads
  <2>1. /\ c.u8Index \in Int /\ 0 <= c.u8Index /\ MessageLen(c.input) \in Int
        /\ MessageLen(c.input) < 256
    BY <1>2, CallFields, MessageIsBytes, ByteRange
  <2>2. c.input \in Payloads
    BY <1>1, <1>2 DEF CallOK
  <2> QED BY <1>1, <1>2, <2>1, <2>2 DEF CallOK, InRound, InLoop
<1>8. (c.u8Index + 1) % U8 = c.u8Index + 1 /\ c.u8Index + 1 \in Byte
  BY <1>7, Fits8
<1>9. d \in CallState /\ d.at = "loop" /\ d.u8Index = c.u8Index + 1 /\ d.input = c.input
  BY <1>2, <1>3, <1>8 DEF CallState, InRound
<1>10. CallOK(t, d, u32Sequence', holder')
  <2>1. holder' = t /\ u32Sequence' = u32Sequence
    BY <1>7 DEF Delay
  <2>2. c.u8Index + 1 <= MessageLen(c.input) /\ 2 * (c.u8Index + 1) + 0 = 2 * c.u8Index + 2
    BY <1>7
  <2> QED BY <1>7, <1>9, <2>1, <2>2 DEF CallOK, InRound, InLoop
<1> QED BY <1>1, <1>4, <1>5, <1>9, <1>10, SenderMoves DEF Delay

\* MUTEX_UNLOCK, after the whole message.
LEMMA UnlockStep ==
  ASSUME TxInv, NEW t \in Senders, Unlock(t)
  PROVE  TxInv'
<1>1. /\ context = "live" /\ call[t].at = "loop" /\ holder' = Nobody
      /\ call' = [call EXCEPT ![t] = Out]
  BY DEF Unlock, At, Release
<1>2. holder = t
  BY <1>1 DEF TxInv, CallsInv, CallOK, InRound
<1>3. Out.at = "out"
  BY DEF Out
<1>4. CallOK(t, Out, u32Sequence', holder')
  BY <1>3 DEF CallOK, InRound, InLoop
<1>5. u32Sequence \in Byte
  BY DEF TxInv, FieldsInv
<1> QED BY <1>1, <1>2, <1>3, <1>4, <1>5, OutIsCall, SenderMoves DEF Unlock

\* A call after free.
LEMMA StrayStep ==
  ASSUME TxInv, NEW t \in Senders, Stray(t)
  PROVE  TxInv'
<1>1. context = "freed" /\ call[t].at # "out" /\ call[t] \in CallState
  BY DEF Stray, TxInv, CallsInv
<1>2. PICK d : d = [call[t] EXCEPT !.at = "stray"]
  OBVIOUS
<1>3. d \in CallState /\ d.at = "stray" /\ d.input \in Payloads
  BY <1>1, <1>2 DEF CallState, TxInv, CallsInv, CallOK
<1>4. /\ call' \in [Senders -> CallState] /\ call'[t] = d
      /\ \A s \in Senders : s # t => call'[s] = call[s]
  BY <1>1, <1>2, <1>3 DEF Stray, GoTo, TxInv, CallsInv
<1>5. CallOK(t, d, u32Sequence, holder)
  BY <1>3 DEF CallOK, InRound, InLoop
<1>6. CallsInv'
  BY <1>4, <1>5 DEF Stray, TxInv, CallsInv
<1> QED BY <1>1, <1>6 DEF Stray, TxInv, FieldsInv, Valid, OwnerCloses, NothingBefore

\* A heap overrun: the context is undefined from then on, and stays so.
LEMMA OverrunStep ==
  ASSUME TxInv, NEW t \in Senders, NEW p \in Payloads, Overrun(t, p)
  PROVE  TxInv'
<1>1. CallsInv'
  BY CallsUnchanged DEF TxInv, Overrun
<1> QED BY <1>1 DEF Overrun, TxInv, FieldsInv, Valid, OwnerCloses, NothingBefore

-----------------------------------------------------------------------------
(***************************************************************************)
(* Every step preserves the invariant.                                     *)
(***************************************************************************)
LEMMA TxInvNext == TxInv /\ [TxNext]_txVars => TxInv'
<1> SUFFICES ASSUME TxInv, [TxNext]_txVars PROVE TxInv'
  OBVIOUS
<1>1. ASSUME NEW fd \in Fds, InitSucceeds(fd) \/ InitFails(fd) PROVE TxInv'
  BY <1>1, InitStep
<1>2. ASSUME NEW t \in Senders, NEW p \in Payloads, Call(t, p) \/ Overrun(t, p) PROVE TxInv'
  BY <1>2, CallStep, OverrunStep
<1>3. ASSUME NEW t \in Senders, SenderStep(t) PROVE TxInv'
  BY <1>3, LockStep, EncodeStep, SendStep, DelayStep, UnlockStep, StrayStep DEF SenderStep
<1>4. CASE DeInt \/ OwnerStep
  BY <1>4, OwnerStepInv
<1>5. CASE UNCHANGED txVars
  <2>1. CallsInv'
    BY <1>5, CallsUnchanged DEF TxInv, txVars
  <2> QED BY <1>5, <2>1 DEF txVars, TxInv, FieldsInv, Valid, OwnerCloses, NothingBefore
<1> QED BY <1>1, <1>2, <1>3, <1>4, <1>5 DEF TxNext

LEMMA TxInvariant == TxSpec => []TxInv
BY TxInvInit, TxInvNext, PTL DEF TxSpec

-----------------------------------------------------------------------------
(***************************************************************************)
(* What the invariant gives.                                               *)
(***************************************************************************)
\* The fields of the context keep their types, its socket is open, and only the
\* holder of the mutex is inside the loop of smartlinkTxSend.
THEOREM TypeCorrect == TxSpec => []TxTypeOK
<1>1. TxInv => TxTypeOK
  <2> SUFFICES ASSUME TxInv PROVE TxTypeOK
    OBVIOUS
  <2>1. ASSUME NEW t \in Senders
        PROVE  /\ call[t].at \in {"out", "lock", "loop", "send0", "send1", "delay", "stray"}
               /\ call[t].u8Index \in Byte
               /\ Inside(t) => holder = t
    BY DEF TxInv, CallsInv, CallState, CallOK, InRound, InLoop, Inside
  <2> QED BY <2>1 DEF TxInv, FieldsInv, TxTypeOK
<1> QED BY <1>1, TxInvariant, PTL

\* Whatever the other senders do, the sequence number they all share is the one
\* that belongs to the index of the sender inside the loop (smartlinktx.c:106-121).
THEOREM SequenceInStep == TxSpec => []SequenceFollowsIndex
<1>1. TxInv => SequenceFollowsIndex
  BY DEF TxInv, CallsInv, CallOK, InRound, InLoop, Inside, SequenceFollowsIndex
<1> QED BY <1>1, TxInvariant, PTL

\* Whichever steps of smartlinktTxInit fail, no descriptor stays open but the
\* one in the context, and 0, which CLOSE_SOCKET takes for no descriptor.
THEOREM NothingElseOpen == TxSpec => []OnlyZeroLeaks
<1>1. TxInv => OnlyZeroLeaks
  BY DEF TxInv, FieldsInv, OnlyZeroLeaks
<1> QED BY <1>1, TxInvariant, PTL

\* Once smartlinkTxDeInt has closed the socket nothing is broadcast any more,
\* and it never closes it under a round: it waits for the mutex as a sender does.
THEOREM ClosedIsSilent == TxSpec => SilentAfterClose
<1> DEFINE A == /\ sent' \notin {sent, Silence} => owner \in {"out", "lock"}
                /\ Sending => sockfd' = sockfd
<1>1. TxInv /\ [TxNext]_txVars => [A]_txVars
  <2> SUFFICES ASSUME TxInv, TxNext PROVE A
    BY DEF txVars
  <2>1. Valid(sockfd) => owner \in {"out", "lock"}
    BY DEF TxInv, FieldsInv, OwnerCloses
  <2>2. holder = Nobody => ~Sending
    BY TxAssumption DEF Sending
  <2>3. ASSUME NEW fd \in Fds, InitSucceeds(fd) \/ InitFails(fd) PROVE A
    BY <2>2, <2>3 DEF InitSucceeds, InitFails, TxInv, NothingBefore
  <2>4. ASSUME NEW t \in Senders, NEW p \in Payloads, Call(t, p) \/ Overrun(t, p) PROVE A
    BY <2>4 DEF Call, Overrun
  <2>5. ASSUME NEW t \in Senders, SenderStep(t) PROVE A
    BY <2>1, <2>5 DEF SenderStep, Lock, Encode, Send0, Send1, SendTo, Delay, Unlock, Stray
  <2>6. CASE DeInt \/ OwnerStep
    BY <2>2, <2>6 DEF DeInt, OwnerStep, Close, Acquire, UnlockClosed, Free
  <2> QED BY <2>3, <2>4, <2>5, <2>6 DEF TxNext
<1> QED BY <1>1, TxInvariant, PTL DEF TxSpec, SilentAfterClose

\* With a radiotap header of at most 120 bytes, the lengths of a round of at most
\* SafeLen bytes fit the array packet of smartlinktx.c:28 and arrive uncut.  The
\* bound is the best: a flag of 79 and a nibble of 15 give 1303 bytes.
THEOREM PacketsHold ==
  ASSUME RadiotapLen <= 120
  PROVE  TxSpec => []PacketHolds
<1> DEFINE Fits(l) == l <= PACKET_MAX /\ Captured(l) = l
           Holds(c) == Len(c.input) <= SafeLen => Fits(c.sendlen[1]) /\ Fits(c.sendlen[2])
<1>1. ASSUME NEW l \in Int, l <= 1303 PROVE Fits(l)
  <2>1. MaxSendlen \in Int /\ 1303 <= MaxSendlen
    BY RadiotapRange DEF MaxSendlen, PACKET_MAX, MacOverhead
  <2> QED BY <1>1, <2>1 DEF Captured, PACKET_MAX
<1>2. PacketHolds <=> \A t \in Senders : Holds(call[t])
  BY DEF PacketHolds
<1> HIDE DEF Fits
<1>3. ASSUME NEW c, c.sendlen = <<0, 0>> PROVE Holds(c)
  BY <1>1, <1>3
<1>4. TxInit => PacketHolds
  BY <1>2, <1>3 DEF TxInit, Out
<1>5. TxInv /\ PacketHolds /\ [TxNext]_txVars => PacketHolds'
  <2> SUFFICES ASSUME TxInv, PacketHolds, [TxNext]_txVars, NEW t \in Senders
               PROVE  Holds(call'[t])
    BY DEF PacketHolds, Fits
  <2>1. Holds(call[t]) /\ call[t] \in CallState /\ CallOK(t, call[t], u32Sequence, holder)
        /\ call \in [Senders -> CallState]
    BY <1>2 DEF TxInv, CallsInv
  <2>2. CASE call'[t].input = call[t].input /\ call'[t].sendlen = call[t].sendlen
    BY <2>1, <2>2
  <2>3. CASE call'[t].sendlen = <<0, 0>>
    BY <1>3, <2>3
  <2>4. CASE Encode(t)
    <3> DEFINE c == call[t]
               s == u32Sequence
               l0 == SendLen0(c.input, c.u8Index, s)
               l1 == SendLen1(c.input, c.u8Index, (s + 1) % U8)
    <3>1. call'[t].input = c.input /\ call'[t].sendlen = <<l0, l1>>
      BY <2>1, <2>4 DEF Encode, CallState
    <3>2. c.at = "loop" /\ c.u8Index < MessageLen(c.input)
      BY <2>4 DEF Encode, At, More
    <3>3. c.input \in Seq(Byte) /\ c.u8Index \in Byte /\ c.u8Index \in Int /\ 0 <= c.u8Index
          /\ MessageLen(c.input) \in Int
      BY <2>1, CallFields
    <3>4. s = (2 * c.u8Index) % U8 /\ s \in Byte
      BY <2>1, <3>2, <3>3 DEF CallOK, InRound, TxInv, FieldsInv
    <3> HIDE DEF c, s
    <3>5. ASSUME Len(c.input) <= SafeLen PROVE l0 \in Int /\ l1 \in Int /\ l0 <= 1303 /\ l1 <= 1303
      <4>1. Len(c.input) \in Int /\ MessageLen(c.input) <= Len(c.input) + 2
        BY <3>3, MessageIsBytes
      <4>2. c.u8Index <= 39
        BY <3>2, <3>3, <3>5, <4>1 DEF SafeLen
      <4>3. s = 2 * c.u8Index /\ (s + 1) % U8 = s + 1
        BY <3>3, <3>4, <4>2, Fits8
      <4>4. s < 80 /\ s + 1 < 80 /\ s + 1 \in Byte
        BY <3>3, <4>2, <4>3, ByteRange
      <4>5. s \in Byte /\ s < 80 /\ (s + 1) % U8 \in Byte /\ (s + 1) % U8 < 80
        BY <3>4, <4>3, <4>4
      <4>6. l0 \in Int /\ l0 <= 1303
        BY <3>2, <3>3, <4>5, LengthsOfByte
      <4>7. l1 \in Int /\ l1 <= 1303
        BY <3>2, <3>3, <4>5, LengthsOfByte
      <4> QED BY <4>6, <4>7
    <3> QED BY <1>1, <3>1, <3>5
  <2>5. \/ call'[t].input = call[t].input /\ call'[t].sendlen = call[t].sendlen
        \/ call'[t].sendlen = <<0, 0>>
        \/ Encode(t)
    <3>1. CASE UNCHANGED call
      BY <3>1
    <3>2. ASSUME NEW u \in Senders, NEW p \in Payloads, Call(u, p)
          PROVE  call'[t].sendlen = <<0, 0>> \/ call'[t] = call[t]
      <4>1. u = t => call[t].sendlen = <<0, 0>>
        BY <2>1, <3>2 DEF CallOK, Call, At, Out
      <4> QED BY <2>1, <3>2, <4>1 DEF Call, CallState
    <3>3. ASSUME NEW u \in Senders, SenderStep(u), ~Encode(t)
          PROVE  \/ call'[t].input = call[t].input /\ call'[t].sendlen = call[t].sendlen
                 \/ call'[t].sendlen = <<0, 0>>
      <4>1. CASE u # t
        BY <2>1, <3>3, <4>1
           DEF SenderStep, Lock, Encode, Send0, Send1, Delay, Unlock, Stray, GoTo
      <4>2. CASE u = t /\ Unlock(t)
        BY <2>1, <4>2 DEF Unlock, Out
      <4>3. CASE u = t /\ ~Unlock(t)
        BY <2>1, <3>3, <4>3
           DEF SenderStep, Lock, Send0, Send1, Delay, Stray, GoTo, CallState
      <4> QED BY <4>1, <4>2, <4>3
    <3> QED BY <3>1, <3>2, <3>3 DEF TxNext, txVars, InitSucceeds, InitFails, Overrun, DeInt,
                                   OwnerStep, Close, UnlockClosed, Free
  <2> QED BY <2>2, <2>3, <2>4, <2>5
<1> QED BY <1>4, <1>5, TxInvariant, PTL DEF TxSpec

-----------------------------------------------------------------------------
(***************************************************************************)
(* Refinement: what the socket emits is a FrameSource.                     *)
(***************************************************************************)
\* Both sides speak of the same frames.
LEMMA SameFrames ==
  ASSUME NEW p, NEW k
  PROVE  Source!FrameLen(p, k) = FrameLen(p, k) /\ Source!FrameCount(p) = FrameCount(p)
<1>1. \A a, w : Source!BitAt(a, w) = BitAt(a, w)
  BY DEF Source!BitAt, BitAt
<1>2. \A a, b, w : Source!XorBit(a, b, w) = XorBit(a, b, w)
  BY <1>1 DEF Source!XorBit, XorBit
<1>3. \A a, b : Source!Xor(a, b) = Xor(a, b)
  BY <1>2 DEF Source!Xor, Xor
<1>4. \A i : Source!MessageByte(p, i) = MessageByte(p, i)
  BY DEF Source!MessageByte, MessageByte, Source!START_FLAGS, START_FLAGS, Source!END_FLAGS, END_FLAGS
<1>5. \A b : Source!High(b) = High(b) /\ Source!Low(b) = Low(b)
  BY DEF Source!High, High, Source!Low, Low
<1>6. \A i, seq : Source!SendLen0(p, i, seq) = SendLen0(p, i, seq)
  BY <1>3, <1>4, <1>5 DEF Source!SendLen0, SendLen0, Source!LenBase, LenBase
<1>7. \A i, seq : Source!SendLen1(p, i, seq) = SendLen1(p, i, seq)
  BY <1>3, <1>4, <1>5 DEF Source!SendLen1, SendLen1, Source!LenBase, LenBase
<1>8. Source!FrameLen(p, k) = FrameLen(p, k)
  BY <1>6, <1>7 DEF Source!FrameLen, FrameLen, Source!U8, U8
<1>9. Source!FrameCount(p) = FrameCount(p)
  BY DEF Source!FrameCount, FrameCount, Source!MessageLen, MessageLen, Source!U8, U8
<1> QED BY <1>8, <1>9

\* A step that neither enters, leaves nor advances a round is a stutter.
LEMMA NoFrame ==
  ASSUME ~Sending, ~Sending', sent' = sent
  PROVE  UNCHANGED Source!sourceVars
BY DEF Source!sourceVars

LEMMA SameFrame ==
  ASSUME Sending, Sending', holder' = holder, sent' = sent,
         call'[holder].input = call[holder].input,
         FramesDone(call'[holder]) = FramesDone(call[holder])
  PROVE  UNCHANGED Source!sourceVars
BY DEF Source!sourceVars

\* A step that leaves the mutex, the socket and the holder's call alone.
LEMMA Elsewhere ==
  ASSUME UNCHANGED <<holder, sockfd, sent>>,
         call'[holder] = call[holder] \/ (~Inside(holder) /\ ~Inside(holder)')
  PROVE  UNCHANGED Source!sourceVars
<1>1. CASE Sending
  BY <1>1, SameFrame DEF Sending, Inside
<1>2. CASE ~Sending
  BY <1>2, NoFrame DEF Sending, Inside
<1> QED BY <1>1, <1>2

\* sendto of frame k of the round under way, where it is k's turn.
LEMMA FrameSent ==
  ASSUME TxInv, NEW t \in Senders, holder = t, UNCHANGED <<holder, sockfd>>,
         Inside(t), Inside(t)', call'[t].input = call[t].input,
         NEW k \in Nat, k < FrameCount(call[t].input),
         FramesDone(call[t]) = k, FramesDone(call'[t]) = k + 1,
         SendTo(FrameLen(call[t].input, k))
  PROVE  [Source!SourceNext]_Source!sourceVars
<1> DEFINE p == call[t].input
<1>1. CASE ~Valid(sockfd)
  BY <1>1, NoFrame DEF SendTo, Sending
<1>2. CASE Valid(sockfd)
  <2>1. /\ Sending /\ Sending' /\ holder' = t /\ FramesDone(call[holder]) = k
        /\ FramesDone(call'[holder']) = k + 1 /\ call[holder].input = p
        /\ call'[holder'].input = p
    BY <1>2 DEF Sending, Inside, Valid
  <2>2. p \in Payloads /\ p # Idle
    BY TxAssumption DEF TxInv, CallsInv, CallOK, Inside
  <2>3. sent' \in {FrameLen(p, k), Silence}
    BY <1>2 DEF SendTo
  <2>4. Source!FrameLen(p, k) = FrameLen(p, k) /\ Source!FrameCount(p) = FrameCount(p)
    BY SameFrames
  <2> HIDE DEF p
  <2>5. CASE sent' = FrameLen(p, k)
    <3>1. Source!Broadcast(Source!FrameLen(p, k))
      BY <2>1, <2>2, <2>4, <2>5 DEF Source!Broadcast, p
    <3> QED BY <2>1, <2>2, <3>1 DEF Source!SourceNext, p
  <2>6. CASE sent' = Silence
    BY <2>1, <2>2, <2>4, <2>6 DEF Source!SourceNext, Source!Omit, p
  <2> QED BY <2>3, <2>5, <2>6
<1> QED BY <1>1, <1>2

\* The number of the frame whose turn it is.
LEMMA FramesAt ==
  ASSUME NEW c \in CallState
  PROVE  /\ c.at \in {"loop", "send0"} => FramesDone(c) = 2 * c.u8Index
         /\ c.at = "send1" => FramesDone(c) = 2 * c.u8Index + 1
         /\ c.at = "delay" => FramesDone(c) = 2 * c.u8Index + 2
         /\ FrameCount(c.input) = 2 * MessageLen(c.input)
<1>1. 2 * c.u8Index + 0 = 2 * c.u8Index
  BY CallFields
<1> QED BY <1>1 DEF FramesDone, FrameCount

LEMMA SendEmits ==
  ASSUME TxInv, NEW t \in Senders, Send0(t) \/ Send1(t)
  PROVE  [Source!SourceNext]_Source!sourceVars
<1> DEFINE c == call[t]
           d == call'[t]
<1>1. /\ c \in CallState /\ CallOK(t, c, u32Sequence, holder)
      /\ call \in [Senders -> CallState]
  BY DEF TxInv, CallsInv
<1>2. c.at \in InLoop /\ UNCHANGED <<holder, sockfd>>
  BY DEF Send0, Send1, At, InLoop
<1>3. /\ Send0(t) => c.at = "send0" /\ d.at = "send1" /\ SendTo(c.sendlen[1])
      /\ Send1(t) => c.at = "send1" /\ d.at = "delay" /\ SendTo(c.sendlen[2])
      /\ d.u8Index = c.u8Index /\ d.input = c.input /\ d \in CallState
  <2>1. PICK l \in {"send1", "delay"} :
         GoTo(t, l) /\ (Send0(t) => l = "send1") /\ (Send1(t) => l = "delay")
    BY DEF Send0, Send1, At
  <2>2. PICK e : e = [c EXCEPT !.at = l]
    OBVIOUS
  <2>3. e \in CallState /\ e.at = l /\ e.u8Index = c.u8Index /\ e.input = c.input
    BY <1>1, <2>2 DEF CallState, InRound, InLoop
  <2>4. d = e
    <3>1. call' = [call EXCEPT ![t] = e]
      BY <1>1, <2>1, <2>2 DEF GoTo
    <3> QED BY <1>1, <3>1
  <2>5. /\ Send0(t) => c.at = "send0" /\ SendTo(c.sendlen[1])
        /\ Send1(t) => c.at = "send1" /\ SendTo(c.sendlen[2])
    BY DEF Send0, Send1, At
  <2> HIDE DEF c, d
  <2> QED BY <2>1, <2>3, <2>4, <2>5
<1>4. holder = t /\ Inside(t) /\ Inside(t)'
  BY <1>1, <1>2, <1>3 DEF CallOK, InRound, InLoop, Inside
<1> HIDE DEF d
<1>5. c.u8Index < MessageLen(c.input)
      /\ c.sendlen = <<FrameLen(c.input, 2 * c.u8Index), FrameLen(c.input, 2 * c.u8Index + 1)>>
  BY <1>1, <1>2 DEF CallOK
<1>6. c.u8Index \in Int /\ 0 <= c.u8Index /\ MessageLen(c.input) \in Int
  BY <1>1, CallFields
<1>7. FrameCount(c.input) = 2 * MessageLen(c.input)
  BY <1>1, FramesAt
<1>8. CASE Send0(t)
  <2>1. FramesDone(c) = 2 * c.u8Index /\ FramesDone(d) = 2 * c.u8Index + 1
    BY <1>1, <1>3, <1>8, FramesAt
  <2>2. SendTo(FrameLen(c.input, 2 * c.u8Index))
    BY <1>3, <1>5, <1>8
  <2>3. 2 * c.u8Index \in Nat /\ 2 * c.u8Index < FrameCount(c.input)
    <3> HIDE DEF c
    <3> QED BY <1>5, <1>6, <1>7
  <2> QED BY <1>2, <1>3, <1>4, <2>1, <2>2, <2>3, FrameSent DEF d
<1>9. CASE Send1(t)
  <2>1. FramesDone(c) = 2 * c.u8Index + 1 /\ FramesDone(d) = 2 * c.u8Index + 2
    BY <1>1, <1>3, <1>9, FramesAt
  <2>2. SendTo(FrameLen(c.input, 2 * c.u8Index + 1))
    BY <1>3, <1>5, <1>9
  <2>3. /\ 2 * c.u8Index + 1 \in Nat /\ 2 * c.u8Index + 1 < FrameCount(c.input)
        /\ 2 * c.u8Index + 2 = (2 * c.u8Index + 1) + 1
    <3> HIDE DEF c
    <3> QED BY <1>5, <1>6, <1>7
  <2> QED BY <1>2, <1>3, <1>4, <2>1, <2>2, <2>3, FrameSent DEF d
<1> QED BY <1>8, <1>9

\* The mutex taken is a round begun, and given back it is a round ended.
LEMMA LockBegins ==
  ASSUME TxInv, NEW t \in Senders, Lock(t)
  PROVE  [Source!SourceNext]_Source!sourceVars
<1> DEFINE c == call[t]
           d == call'[t]
<1>1. /\ holder = Nobody /\ holder' = t /\ c.at = "lock" /\ UNCHANGED <<sockfd, sent>>
      /\ ~Sending
  BY TxAssumption DEF Lock, At, Acquire, Sending
<1>2. /\ c \in CallState /\ c.u8Index = 0 /\ c.input \in Payloads
      /\ d.at = "loop" /\ d.u8Index = 0 /\ d.input = c.input
  BY <1>1 DEF Lock, GoTo, TxInv, CallsInv, CallOK, CallState
<1>3. CASE ~Valid(sockfd)
  BY <1>1, <1>3, NoFrame DEF Sending, Valid
<1>4. CASE Valid(sockfd)
  <2>1. Sending' /\ FramesDone(d) = 0
    BY <1>1, <1>2, <1>4 DEF Sending, Inside, Valid, FramesDone
  <2>2. Source!Begin(c.input)
    BY <1>1, <1>2, <2>1 DEF Source!Begin
  <2> QED BY <1>2, <2>2 DEF Source!SourceNext
<1> QED BY <1>3, <1>4

LEMMA UnlockEnds ==
  ASSUME TxInv, NEW t \in Senders, Unlock(t)
  PROVE  [Source!SourceNext]_Source!sourceVars
<1> DEFINE c == call[t]
<1>1. /\ holder' = Nobody /\ c.at = "loop" /\ UNCHANGED <<sockfd, sent>> /\ ~Sending'
      /\ ~(c.u8Index < MessageLen(c.input))
  BY TxAssumption DEF Unlock, At, Release, More, Sending
<1>2. /\ c \in CallState /\ holder = t /\ c.u8Index <= MessageLen(c.input)
      /\ c.input \in Payloads /\ Inside(t)
  BY <1>1 DEF TxInv, CallsInv, CallOK, InRound, InLoop, Inside
<1>3. CASE ~Valid(sockfd)
  BY <1>1, <1>3, NoFrame DEF Sending, Valid
<1>4. CASE Valid(sockfd)
  <2>1. FramesDone(c) = FrameCount(c.input)
    <3>1. c.u8Index \in Int /\ MessageLen(c.input) \in Int
      BY <1>2, CallFields
    <3>2. c.u8Index = MessageLen(c.input)
      <4> HIDE DEF c
      <4> QED BY <1>1, <1>2, <3>1
    <3> QED BY <1>1, <1>2, <3>2, FramesAt
  <2>2. Sending /\ c.input # Idle
    BY <1>2, <1>4, TxAssumption DEF Sending
  <2>3. Source!EndRound
    BY <1>1, <1>2, <2>1, <2>2, SameFrames DEF Source!EndRound
  <2> QED BY <2>3 DEF Source!SourceNext
<1> QED BY <1>3, <1>4

\* Everything else is not seen from outside.
LEMMA SilentSenderStep ==
  ASSUME TxInv, NEW t \in Senders, Encode(t) \/ Delay(t) \/ Stray(t)
  PROVE  UNCHANGED Source!sourceVars
<1> DEFINE c == call[t]
           d == call'[t]
<1>1. /\ c \in CallState /\ CallOK(t, c, u32Sequence, holder)
      /\ call \in [Senders -> CallState] /\ UNCHANGED <<holder, sockfd, sent>>
  BY DEF TxInv, CallsInv, Encode, Delay, Stray
<1>2. CASE Stray(t)
  <2>1. ~Sending /\ ~Sending'
    BY <1>2 DEF Stray, TxInv, OwnerCloses, Sending, Valid
  <2> QED BY <1>1, <2>1, NoFrame
<1>3. CASE Encode(t)
  <2>1. /\ c.at = "loop" /\ d.at = "send0" /\ d.u8Index = c.u8Index /\ d.input = c.input
    BY <1>1, <1>3 DEF Encode, At, CallState
  <2>2. FramesDone(d) = FramesDone(c)
    BY <2>1 DEF FramesDone
  <2>3. holder = t /\ Inside(t) /\ Inside(t)'
    BY <1>1, <2>1 DEF CallOK, InRound, Inside
  <2> QED BY <1>1, <2>1, <2>2, <2>3, SameFrame, NoFrame DEF Sending
<1>4. CASE Delay(t)
  <2>1. /\ c.at = "delay" /\ d.at = "loop" /\ d.u8Index = (c.u8Index + 1) % U8 /\ d.input = c.input
    BY <1>1, <1>4 DEF Delay, At, CallState
  <2>2. FramesDone(d) = FramesDone(c)
    <3>1. /\ c.u8Index \in Int /\ 0 <= c.u8Index /\ MessageLen(c.input) \in Int
          /\ MessageLen(c.input) < 256 /\ c.u8Index < MessageLen(c.input)
      BY <1>1, <2>1, CallFields, MessageIsBytes, ByteRange DEF CallOK, InLoop
    <3> HIDE DEF c, d
    <3>2. c.u8Index + 1 < 256 /\ 2 * (c.u8Index + 1) + 0 = 2 * c.u8Index + 2
      BY <3>1
    <3>3. d.u8Index = c.u8Index + 1
      BY <2>1, <3>1, <3>2, Fits8
    <3> QED BY <2>1, <3>2, <3>3 DEF FramesDone
  <2>3. holder = t /\ Inside(t) /\ Inside(t)'
    BY <1>1, <2>1 DEF CallOK, InRound, InLoop, Inside
  <2> QED BY <1>1, <2>1, <2>2, <2>3, SameFrame, NoFrame DEF Sending
<1> QED BY <1>2, <1>3, <1>4

LEMMA OtherSteps ==
  ASSUME TxInv,
         \/ \E fd \in Fds : InitSucceeds(fd) \/ InitFails(fd)
         \/ \E t \in Senders, p \in Payloads : Call(t, p) \/ Overrun(t, p)
         \/ DeInt \/ OwnerStep \/ UNCHANGED txVars
  PROVE  UNCHANGED Source!sourceVars
<1>1. CASE \E fd \in Fds : InitSucceeds(fd) \/ InitFails(fd)
  BY <1>1, TxAssumption, NoFrame DEF InitSucceeds, InitFails, TxInv, NothingBefore, Sending
<1>2. ASSUME NEW t \in Senders, NEW p \in Payloads, Call(t, p)
      PROVE  UNCHANGED Source!sourceVars
  <2>1. /\ UNCHANGED <<holder, sockfd, sent>> /\ call[t].at = "out" /\ call'[t].at = "lock"
        /\ \A s \in Senders : s # t => call'[s] = call[s]
    BY <1>2 DEF Call, At, TxInv, CallsInv, CallState
  <2>2. CASE holder = t
    BY <2>1, <2>2, Elsewhere DEF Inside
  <2>3. CASE holder \in Senders /\ holder # t
    BY <2>1, <2>3, Elsewhere
  <2>4. CASE holder \notin Senders
    BY <2>1, <2>4, NoFrame DEF Sending
  <2> QED BY <2>2, <2>3, <2>4
<1>3. CASE \E t \in Senders, p \in Payloads : Overrun(t, p)
  BY <1>3, Elsewhere DEF Overrun
<1>4. CASE DeInt \/ Free \/ UNCHANGED txVars
  BY <1>4, Elsewhere DEF DeInt, Free, txVars
<1>5. CASE Close \/ UnlockClosed
  <2>1. ~Sending /\ ~Sending' /\ sent' = sent
    BY <1>5, TxAssumption DEF Close, UnlockClosed, Acquire, Release, OwnerGoes, TxInv, OwnerCloses, Sending
  <2> QED BY <2>1, NoFrame
<1> QED BY <1>1, <1>2, <1>3, <1>4, <1>5 DEF OwnerStep

\* Threads, mutex and locals taken away, the transmitter is a FrameSource: every
\* round is one payload's, its frames in order, each at most once.
THEOREM IsFrameSource == TxSpec => ImplementsFrameSource
<1>1. TxInit => Source!SourceInit
  BY TxAssumption DEF TxInit, Sending, Source!SourceInit
<1>2. TxInv /\ [TxNext]_txVars => [Source!SourceNext]_Source!sourceVars
  <2> SUFFICES ASSUME TxInv, [TxNext]_txVars PROVE [Source!SourceNext]_Source!sourceVars
    OBVIOUS
  <2>1. ASSUME NEW t \in Senders, SenderStep(t)
        PROVE  [Source!SourceNext]_Source!sourceVars
    BY <2>1, LockBegins, SendEmits, UnlockEnds, SilentSenderStep DEF SenderStep
  <2>2. CASE ~ \E t \in Senders : SenderStep(t)
    BY <2>2, OtherSteps DEF TxNext
  <2> QED BY <2>1, <2>2
<1> QED BY <1>1, <1>2, TxInvariant, PTL DEF TxSpec, ImplementsFrameSource, Source!SourceSpec
=============================================================================
