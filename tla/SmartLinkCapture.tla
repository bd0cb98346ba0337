-------------------------- MODULE SmartLinkCapture --------------------------
(***************************************************************************)
(* The receiving thread from recvfrom to the callback: the bytes of a      *)
(* packet go through the parser of wlan80211.c, what that returns goes to  *)
(* the decoder of smartlinkrx.c.  SmartLinkRx, which hears frames of a     *)
(* length and a source, is what this amounts to.                           *)
(***************************************************************************)
EXTENDS Wlan80211, SmartLinkRx

captureVars == <<wlanVars, rxVars>>

CaptureInit == WlanInit /\ RxInit

\* Mutant: the result of the parser is not looked at.
DecodeAnyResult == RxDecode([len |-> sendlen', src |-> radiotap'.saddr])

\* The parser is done, its results are in sendlen' and radiotap'.
Decode ==
  IF sendlen' <= 0 THEN UNCHANGED rxVars
                   ELSE RxDecode([len |-> sendlen', src |-> radiotap'.saddr])

\* One turn of the loop.
Process ==
  \/ \E p \in Packets : Len(p) > 0 /\ RevcRawpacket(p) /\ Decode
  \/ RevcNothing /\ Decode

CaptureSpec == CaptureInit /\ [][Process]_captureVars

-----------------------------------------------------------------------------
(***************************************************************************)
(* What is on the air                                                      *)
(***************************************************************************)
\* The radiotap header is as long as it says, its three first bytes included.
HeaderOf(p) == IF p[3] < 3 THEN 3 ELSE p[3]

\* p is a whole data frame, with all headers, addresses and payload bytes.
Carries(p) ==
  /\ Len(p) > 2 /\ Len(p) > p[3] + MacOverhead
  /\ p[HeaderOf(p) + 1] = DataFrame

\* The datagram in p, however long it is, and who sent it.
AsFrame(p) ==
  IF Carries(p)
    THEN [len |-> Len(p) - p[3] - MacOverhead,
          src |-> [i \in 1..MAC_LEN |-> p[HeaderOf(p) + 16 + i]]]
    ELSE [len |-> SMART_FAIL, src |-> CHOOSE s \in Stations : TRUE]

\* Data frames that recvfrom's buffer may be too short for all come with the
\* radiotap header of the one driver that captures them.
OneHeader == \A p \in Packets : Carries(p) /\ Len(p) > PACKET_MAX - U8 => p[3] = RadiotapLen

\* Stations are the addresses data frames are sent from.
SentByStations == \A p \in Packets : Carries(p) => AsFrame(p).src \in Stations

\* Cutting a packet at the end of recvfrom's buffer, reading its headers bit by
\* bit and carrying length and address over to the decoder in a structure that
\* all frames share comes to the same as hearing the datagram itself: every turn
\* is the step SmartLinkRx takes for the frame of this very packet.
ImplementsDecoder ==
  RxInit /\ [][IF packet' = <<>> THEN UNCHANGED rxVars
                                 ELSE RxProcess(AsFrame(packet'))]_captureVars
=============================================================================
