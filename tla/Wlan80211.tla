----------------------------- MODULE Wlan80211 ------------------------------
(***************************************************************************)
(* What the receiving thread gets of a captured frame: recvfrom into a     *)
(* buffer of PACKET_MAX - 1 bytes (socketRevcRawpacket), then the parser   *)
(* of wlan80211.c, which reads the source address out of it and works out  *)
(* the length of the datagram.  One ieee80211_radiotap is used for all     *)
(* frames, so that what one frame left in it is there when the next comes. *)
(***************************************************************************)
EXTENDS SmartLinkCodec, BitStream

CONSTANT Packets     \* frames on the air, as captured: sequences of bytes

ASSUME PacketsAssumption == Packets \subseteq Seq(Byte)

SMART_FAIL == -1
DataFrame  == 8
MAC_LEN    == 6

VARIABLES
  radiotap,   \* [frame_type, saddr], local to the receiving thread
  sendlen,    \* what socketRevcRawpacket returned
  packet      \* history: the frame on the air

wlanVars == <<radiotap, sendlen, packet>>

WlanInit ==
  /\ radiotap = [frame_type |-> 0, saddr |-> [i \in 1..MAC_LEN |-> 0]]
  /\ sendlen  = 0
  /\ packet   = <<>>

-----------------------------------------------------------------------------
\* version, pad and the low byte of the header's length.
HeaderLength(bs) == ReadU8(SkipU(bs, 16)).r

\* The cursor at the 802.11 frame.
AtFrame(bs) ==
  LET read == ReadU8(SkipU(bs, 16)).b
  IN  SkipU(read, 8 * (HeaderLength(bs) - Pos(read)))

\* Mutant: the second address is taken for the source.
AtSourceSecond(bs) == SkipU(AtFrame(bs), 8 * (1 + 1 + 2 + MAC_LEN))

\* frame control's second byte, duration, daddr, wifiaddr; then saddr.
AtSource(bs) == SkipU(AtFrame(bs), 8 * (1 + 1 + 2 + 2 * MAC_LEN))

SourceAddress(bs) == [i \in 1..MAC_LEN |-> ReadU8(SkipU(AtSource(bs), 8 * (i - 1))).r]

RadiotapHeader(buffer) ==
  LET bs   == Bs(buffer)
      type == ReadU8(AtFrame(bs)).r
  IN  /\ radiotap' = [frame_type |-> type,
                      saddr |-> IF type = DataFrame THEN SourceAddress(bs) ELSE radiotap.saddr]
      /\ sendlen'  = IF type = DataFrame
                       THEN Len(buffer) - HeaderLength(bs) - MacOverhead ELSE SMART_FAIL

\* Mutant: the packet is parsed in its full length.
RevcRawpacketUncut(p) ==
  /\ packet' = p
  /\ RadiotapHeader(p)

RevcRawpacket(p) ==
  /\ packet' = p
  /\ RadiotapHeader(IF Len(p) < PACKET_MAX THEN p ELSE SubSeq(p, 1, PACKET_MAX - 1))

\* Nothing to read, or an empty frame: the result of recvfrom is returned.
RevcNothing ==
  /\ sendlen' \in {-1, 0}
  /\ packet' = <<>>
  /\ UNCHANGED radiotap

-----------------------------------------------------------------------------
(***************************************************************************)
(* Properties                                                              *)
(***************************************************************************)
\* The parser never subtracts more than was there to make a length positive.
WlanTypeOK ==
  /\ radiotap \in [frame_type : Byte, saddr : [1..MAC_LEN -> Byte]]
  /\ sendlen \in -(255 + MacOverhead)..(PACKET_MAX - 1 - MacOverhead)

\* A frame that reaches the decoder brings its own source address, all six
\* bytes of it: never the address of an earlier frame, nor the zeros that are
\* read behind the end of a short one.
AddressIsOfThisFrame ==
  sendlen > 0 =>
    LET at == IF packet[3] < 3 THEN 3 ELSE packet[3]
    IN  /\ at + 22 <= Len(packet)
        /\ \A i \in 1..MAC_LEN : radiotap.saddr[i] = packet[at + 16 + i]
=============================================================================
