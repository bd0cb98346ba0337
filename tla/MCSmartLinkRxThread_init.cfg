\* What the caller of smartLinkRxInit is told of a failure.
SPECIFICATION RxtSpec
CONSTANTS
  Channels = {38}
  GarbageFreqs = {0, 9}
  RivalMax = 1
  Fds = {0, 3}
  MaxLives = 1
  CallbackDeInits = FALSE
INVARIANTS InitReturns
CHECK_DEADLOCK FALSE
