\* What the comment says of a signal.
SPECIFICATION DemoSpec
CONSTANTS
  Main = Main
  Receiver = Receiver
  Nobody = Nobody
  MaxSignals = 1
PROPERTIES SignalSetsFlag
CHECK_DEADLOCK FALSE
