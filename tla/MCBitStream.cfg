\* All orders of reads and writes, into the end and past it.
SPECIFICATION BsSpec
CONSTANTS
  Memory <- MCMemory
  Widths = {1, 4}
  Counts <- MCCounts
  Values = {0, 6, 32767, 66000}
  BitMax = 10
INVARIANTS HoldsWhatWasWritten ReadsWhatIsHeld GolombRoundTrip
CHECK_DEADLOCK FALSE
