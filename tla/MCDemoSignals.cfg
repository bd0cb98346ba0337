\* Both demos from their start to their end, three signals.
SPECIFICATION DemoSpec
CONSTANTS
  Main = Main
  Receiver = Receiver
  Nobody = Nobody
  MaxSignals = 3
INVARIANT ReturnsAlone
PROPERTIES SignalEndsProgram
CHECK_DEADLOCK FALSE
