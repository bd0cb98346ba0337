\* Receiver alone: all orders of confusable frames, up to the limit of PACKET_MAX.
SPECIFICATION RxSpec
CONSTANTS
  s1 = s1
  s2 = s2
  Stations <- MCStations
  ZeroMac = ZeroMac
  NoCall = NoCall
  Heard <- MCHeard
  RadiotapLen = 8
INVARIANTS RxTypeOK SequenceTracksIndex NoLongMessage AheadIsClear LenCoversText
PROPERTIES RepeatedCallsShowSameText
CHECK_DEADLOCK FALSE
