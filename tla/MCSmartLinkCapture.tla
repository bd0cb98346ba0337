------------------------ MODULE MCSmartLinkCapture -------------------------
(***************************************************************************)
(* Packets: the datagrams of a round for "!", and packets of the lengths   *)
(* at which the parser behaves differently, data frames and others, of two *)
(* stations, with radiotap headers of several lengths (0 and 2: malformed).*)
(***************************************************************************)
EXTENDS SmartLinkCapture

Mac(station) == [i \in 1..MAC_LEN |-> station]

MCStations == {Mac(17), Mac(34)}
MCZeroMac  == Mac(0)

Packet(size, header, type, station) ==
  LET at == IF header < 3 THEN 3 ELSE header
  IN  [i \in 1..size |-> CASE i = 3 -> header
                            [] i = at + 1 -> type
                            [] i \in (at + 17)..(at + 22) -> station
                            [] OTHER -> 200]

RoundPackets ==
  {Packet(RadiotapLen + MacOverhead + FrameLen(<<33>>, k), RadiotapLen, DataFrame, station) :
     k \in 0..(FrameCount(<<33>>) - 1), station \in {17, 34}}

OddPackets ==
  {Packet(size, header, type, 34) : size \in {1, 3, 12, 30, 84, 85, 86, 115},
                                    header \in {0, 2, 8, 9}, type \in {DataFrame, 128}}
  \cup {Packet(size, 8, DataFrame, 34) : size \in {1498, 1499, 1500, 1600}}

MCPackets == RoundPackets \cup OddPackets

\* The hypotheses of the theorems hold of these packets.
ASSUME HeaderHypothesis  == OneHeader
ASSUME StationHypothesis == SentByStations
=============================================================================
