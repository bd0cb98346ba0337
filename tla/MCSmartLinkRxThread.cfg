\* A receiver from creation to end, with failures and a rival program.
SPECIFICATION RxtFairSpec
CONSTANTS
  Channels = {14, 38, 39}
  GarbageFreqs = {0, 9}
  RivalMax = 2
  Fds = {0, 3, 4}
  MaxLives = 2
  CallbackDeInits = TRUE
INVARIANTS RxtTypeOK ContextOutlivesThread ListensOnChannel FlagsKept
           DeInitReleases
PROPERTIES DeInitEnds
CHECK_DEADLOCK FALSE
