\* What the comment says of SIGSEGV.
SPECIFICATION DemoSpec
CONSTANTS
  Main = Main
  Receiver = Receiver
  Nobody = Nobody
  MaxSignals = 0
PROPERTIES FaultEndsProgram
CHECK_DEADLOCK FALSE
