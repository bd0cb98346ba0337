\* Round after round over lossy, repeating air with another station's frames.
SPECIFICATION FairSpec
CONSTANTS
  s1 = s1
  s2 = s2
  Stations <- MCStations
  Transmitter = s1
  ZeroMac = ZeroMac
  NoCall = NoCall
  Idle = Idle
  Silence = Silence
  Heard = {}
  Payloads <- ShortPayloads
  Noise <- MCNoise
  QueueMax = 2
  RadiotapLen = 8
INVARIANTS HoldsPrefix CorrectDelivery
PROPERTIES ImplementsTransfer MacIsTransmitter EventuallyDelivered
CHECK_DEADLOCK FALSE
