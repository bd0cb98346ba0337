--------------------------- MODULE MCSmartLinkRx ----------------------------
(***************************************************************************)
(* The frames SmartLinkRx is fed in the runs.                              *)
(***************************************************************************)
EXTENDS SmartLinkRx

CONSTANTS s1, s2

MCStations == {s1, s2}

LenOf(flag, data) == 16 * flag + data + LenBase

\* All nibbles under the flags 0x00, 0x10, ... 0x50: at every sequence number
\* exactly one value of the nibble before is continued, so that the receiver
\* can be driven as far as PACKET_MAX allows with few states.  (From 0x60 on a
\* frame is cut to the same length as 4119 below.)
Chain == [len : {LenOf(16 * b, d) : b \in 0..5, d \in Nibble}, src : {s1}]

\* Another station's frames: the second half of START and what may follow it,
\* and two for sequence number 8, one that continues after END was overwritten
\* and one that would if it had not been.
Others == [len : {LenOf(6, 15), LenOf(13, 3), LenOf(8, 9), LenOf(7, 9)}, src : {s2}]

\* Not a data frame (-1), an empty one, one with a negative flag, and one that
\* recvfrom cuts.
Strange == [len : {-1, 0, 10, 4119}, src : {s1}]

MCHeard == Chain \cup Others \cup Strange
=============================================================================
