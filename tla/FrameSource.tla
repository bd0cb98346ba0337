---------------------------- MODULE FrameSource -----------------------------
(***************************************************************************)
(* What a transmitter promises to the air, whatever threads and locks it   *)
(* is made of: it broadcasts rounds, each round is the frames of ONE       *)
(* payload, from the first to the last, in order, each at most once.       *)
(* A frame may be missing, since smartlinkTxSend does not look at the      *)
(* result of sendto; it is never sent late or out of turn.                 *)
(* SmartLinkTx implements this specification, SmartLink listens to it.     *)
(***************************************************************************)
EXTENDS SmartLinkCodec

CONSTANTS
  Payloads,   \* what callers pass to smartlinkTxSend
  Idle,       \* no round is under way
  Silence     \* nothing was broadcast

ASSUME PayloadsAssumption == Payloads \subseteq Seq(Byte) /\ Idle \notin Payloads

VARIABLES
  round,      \* payload of the round under way, or Idle
  next,       \* number of the next frame of the round (u32Sequence, unwrapped)
  sent        \* length of the datagram broadcast last, or Silence if it was omitted

sourceVars == <<round, next, sent>>

SourceInit ==
  /\ round = Idle
  /\ next  = 0
  /\ sent  = Silence

Begin(p) ==
  /\ round = Idle
  /\ round' = p
  /\ next'  = 0
  /\ UNCHANGED sent

\* len is the length of the datagram whose turn it is.
Broadcast(len) ==
  /\ round # Idle
  /\ next < FrameCount(round)
  /\ len = FrameLen(round, next)
  /\ next' = next + 1
  /\ sent' = len
  /\ UNCHANGED round

Omit ==
  /\ round # Idle
  /\ next < FrameCount(round)
  /\ next' = next + 1
  /\ sent' = Silence
  /\ UNCHANGED round

EndRound ==
  /\ round # Idle
  /\ next = FrameCount(round)
  /\ round' = Idle
  /\ next'  = 0
  /\ UNCHANGED sent

SourceNext ==
  \/ \E p \in Payloads : Begin(p) \/ (round = p /\ Broadcast(FrameLen(p, next)))
  \/ Omit
  \/ EndRound

SourceSpec == SourceInit /\ [][SourceNext]_sourceVars
=============================================================================
