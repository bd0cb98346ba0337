\* The comment at smartlinkrx.c:49 says that the high nibble is assigned.
SPECIFICATION RxSpec
CONSTANTS
  s1 = s1
  s2 = s2
  Stations <- MCStations
  ZeroMac = ZeroMac
  NoCall = NoCall
  Heard <- MCHeard
  RadiotapLen = 8
PROPERTIES NibbleIsAssigned
CHECK_DEADLOCK FALSE
