----------------------------- MODULE SmartLink ------------------------------
(***************************************************************************)
(* The whole transfer: smartlinktx_demo broadcasts its argument round      *)
(* after round, smartlinkrx_demo listens.  Between them is the air, which  *)
(* loses frames, repeats them (the access point relays what a station      *)
(* broadcasts, so that a monitor may hear a frame twice) and carries the   *)
(* frames of other stations, and the socket queue of the receiver, which   *)
(* drops what does not fit.                                                *)
(*                                                                         *)
(* Either program may be killed and started again at any moment.           *)
(*                                                                         *)
(* The air may clear at some moment, and then brings every frame exactly   *)
(* once and no other, and both programs run on: what must be delivered is  *)
(* asked for after that only.                                              *)
(***************************************************************************)
EXTENDS SmartLinkRx, FrameSource

CONSTANTS
  Transmitter,  \* address of the station running smartlinktx_demo
  Noise,        \* frames of other stations
  QueueMax      \* frames the receiver's socket holds (SO_RCVBUF, scaled down)

ASSUME TransmitterAssumption == Transmitter \in Stations
ASSUME NoiseAssumption == Noise \subseteq [len : Int, src : Stations]
ASSUME QueueMaxAssumption == QueueMax \in Nat \ {0}

VARIABLES
  argv,      \* the argument of smartlinktx_demo
  queue,     \* captured frames the receiver has not read
  clear      \* the air is clear from now on, and nobody starts again

vars == <<rxVars, sourceVars, argv, queue, clear>>

OwnFrame(len) == [len |-> len, src |-> Transmitter]

Init ==
  /\ RxInit
  /\ SourceInit
  /\ argv \in Payloads
  /\ queue = <<>>
  /\ clear = FALSE

-----------------------------------------------------------------------------
(***************************************************************************)
(* Transmitter: while (!gThreadExit) smartlinkTxSend(handle, argv[1], ...).*)
(***************************************************************************)
\* strlen(argv[1]) is passed on as a uint8_t.
Passed(arg) == SubSeq(arg, 1, Len(arg) % U8)

BeginSend ==
  /\ Begin(Passed(argv))
  /\ UNCHANGED <<rxVars, argv, queue, clear>>

\* A frame reaches the queue never, once or twice; on clear air exactly once,
\* the receiver being much faster than one byte in interval_ms.
Air(len) ==
  \E heard \in {<<>>, <<OwnFrame(len)>>, <<OwnFrame(len), OwnFrame(len)>>} :
    /\ Len(queue) + Len(heard) <= QueueMax
    /\ clear => Len(heard) = 1
    /\ queue' = queue \o heard

SendFrame ==
  LET len == FrameLen(round, next)
  IN  /\ Broadcast(len)
      /\ Air(len)
      /\ UNCHANGED <<rxVars, argv, clear>>

EndSend ==
  /\ EndRound
  /\ UNCHANGED <<rxVars, argv, queue, clear>>

Transmit == BeginSend \/ SendFrame \/ EndSend

(***************************************************************************)
(* The air                                                                 *)
(***************************************************************************)
OtherStation ==
  /\ ~clear
  /\ Len(queue) < QueueMax
  /\ \E f \in Noise : queue' = Append(queue, f)
  /\ UNCHANGED <<rxVars, sourceVars, argv, clear>>

AirClears ==
  /\ ~clear
  /\ clear' = TRUE
  /\ UNCHANGED <<rxVars, sourceVars, argv, queue>>

(***************************************************************************)
(* The receiving thread                                                    *)
(***************************************************************************)
Receive ==
  /\ queue # <<>>
  /\ RxProcess(Head(queue))
  /\ queue' = Tail(queue)
  /\ UNCHANGED <<sourceVars, argv, clear>>

-----------------------------------------------------------------------------
(***************************************************************************)
(* The programs are started again, each with the arguments it had.  None   *)
(* of them keeps anything: the transmitter begins with START wherever it   *)
(* was, the receiver with an empty buffer and an empty queue.              *)
(***************************************************************************)
TransmitterRestarts ==
  /\ ~clear /\ round # Idle
  /\ round' = Idle
  /\ next'  = 0
  /\ sent'  = Silence
  /\ UNCHANGED <<rxVars, argv, queue, clear>>

\* Mutant: the index starts anew, the expected sequence number does not.
ReceiverRestartsHalf ==
  /\ ~clear
  /\ u32Index' = 0
  /\ queue' = <<>>
  /\ UNCHANGED <<u32Sequence, buffer, sourceAddr, callback, sourceVars, argv, clear>>

ReceiverRestarts ==
  /\ ~clear
  /\ u32Index'    = 0
  /\ u32Sequence' = 0
  /\ buffer'      = [i \in BufferIndex |-> 0]
  /\ sourceAddr'  = ZeroMac
  /\ callback'    = NoCall
  /\ queue' = <<>>
  /\ UNCHANGED <<sourceVars, argv, clear>>

Restarts == TransmitterRestarts \/ ReceiverRestarts

Next == Transmit \/ OtherStation \/ AirClears \/ Receive \/ Restarts

\* Both loops run for ever; nothing makes the air clear or anybody start again.
Fairness == WF_vars(Transmit) /\ WF_vars(Receive)

Spec     == Init /\ [][Next]_vars
FairSpec == Spec /\ Fairness

-----------------------------------------------------------------------------
(***************************************************************************)
(* Which payloads can be transferred at all.                               *)
(***************************************************************************)
Frames(p) == 0..(FrameCount(p) - 1)

\* Every frame survives recvfrom's buffer.
Fits(p) == \A k \in Frames(p) : FrameLen(p, k) <= MaxSendlen

\* No byte ends the C string early, or looks like END where END is looked for.
PlainText(p) ==
  /\ Len(p) \in 1..253
  /\ \A i \in 1..Len(p) : p[i] # 0
  /\ \A i \in 2..Len(p) : p[i] # END_FLAGS

\* Whatever may be heard under the flag of an expected frame carries the
\* nibble of that frame.
Agree(len, expected) ==
  FlagOf(len) = FlagOf(expected) => DataOf(len) = DataOf(expected)

Unambiguous(p) ==
  \A k \in Frames(p) :
    /\ \A j \in Frames(p) : Agree(FrameLen(p, j), FrameLen(p, k))
    /\ \A f \in Noise : Captured(f.len) > 0 => Agree(Captured(f.len), FrameLen(p, k))

Deliverable == {p \in Payloads : Fits(p) /\ PlainText(p) /\ Unambiguous(p)}

\* No other station uses the flag of the last frame.
Apart == {p \in Payloads : \A f \in Noise :
  Captured(f.len) > 0 =>
    FlagOf(Captured(f.len)) # FlagOf(FrameLen(p, FrameCount(p) - 1))}

-----------------------------------------------------------------------------
(***************************************************************************)
(* Properties                                                              *)
(***************************************************************************)
\* What the receiver holds is a prefix of the message, however many frames
\* were lost, repeated or inserted, and wherever a round broke off: byte for
\* byte up to the one under construction, whose high nibble is right once it is
\* there.  The END byte is a NUL after the callback.
HoldsPrefix ==
  argv \in Deliverable =>
    /\ \A i \in 0..(MessageLen(argv) - 1) :
         i < u32Index => buffer[i] = IF i = Len(argv) + 1 THEN 0 ELSE MessageByte(argv, i)
    /\ ~ExpectsHigh /\ u32Index < MessageLen(argv) =>
         High(buffer[u32Index]) = High(MessageByte(argv, u32Index))

\* The text the user is called back with is the argument of smartlinktx_demo.
CorrectDelivery ==
  argv \in Deliverable /\ callback # NoCall => callback.text = argv

\* The same of every payload, which README.md's own example does not satisfy.
DeliversArgument == callback # NoCall => callback.text = argv

\* The address of the first callback is the transmitter's, although
\* _smartlinkRxDecode takes frames from anybody and the address is copied anew
\* from every frame that completes a byte.
MacIsTransmitter ==
  [][callback = NoCall /\ callback' # NoCall /\ argv \in Deliverable \cap Apart
       => callback'.mac = Transmitter]_vars

\* The abstract transfer; SmartLink implements it when all Payloads can be
\* transferred.
Transfer == INSTANCE NibbleTransfer WITH
  message <- argv,
  held    <- IF u32Sequence < FrameCount(argv) THEN u32Sequence ELSE FrameCount(argv),
  text    <- IF callback = NoCall THEN NoCall ELSE callback.text,
  Nothing <- NoCall

ImplementsTransfer == Transfer!TransferSpec

\* Once the air is clear the user is called back, whatever was heard before
\* and whoever started again: no state the receiver was left in keeps it from
\* finishing.
EventuallyDelivered == argv \in Deliverable => (clear ~> callback # NoCall)
=============================================================================
