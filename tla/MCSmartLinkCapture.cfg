\* Packets of all kinds, one after the other, from the socket to the callback.
SPECIFICATION CaptureSpec
CONSTANTS
  Stations <- MCStations
  ZeroMac <- MCZeroMac
  NoCall = NoCall
  Heard = {}
  Packets <- MCPackets
  RadiotapLen = 8
INVARIANTS WlanTypeOK AddressIsOfThisFrame
PROPERTIES ImplementsDecoder
CHECK_DEADLOCK FALSE
