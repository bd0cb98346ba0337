\* Two senders, one owner, all interleavings.
SPECIFICATION TxFairSpec
CONSTANTS
  t1 = t1
  t2 = t2
  Senders <- MCSenders
  Payloads <- MCPayloads
  Fds <- MCFds
  BlockSize = 24
  Nobody = Nobody
  Idle = Idle
  Silence = Silence
  RadiotapLen = 8
INVARIANTS TxTypeOK SequenceFollowsIndex PacketHolds OnlyZeroLeaks
PROPERTIES ImplementsFrameSource SilentAfterClose RoundsEnd DeIntReturns
CHECK_DEADLOCK FALSE
