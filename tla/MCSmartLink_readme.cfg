\* The example of README.md:9 over lossy air.
SPECIFICATION Spec
CONSTANTS
  s1 = s1
  s2 = s2
  Stations <- MCStations
  Transmitter = s1
  ZeroMac = ZeroMac
  NoCall = NoCall
  Idle = Idle
  Silence = Silence
  Heard = {}
  Payloads <- ReadmePayload
  Noise <- NoNoise
  QueueMax = 1
  RadiotapLen = 8
INVARIANTS DeliversArgument
CHECK_DEADLOCK FALSE
