--------------------------- MODULE SmartLinkCodec ---------------------------
(***************************************************************************)
(* The code that transmitter and receiver share: a message is carried one  *)
(* nibble per UDP broadcast, in the LENGTH of the datagram.  Whatever the  *)
(* station is allowed to read of an encrypted frame is its length, so      *)
(*                                                                         *)
(*     length = 16 * flag + data + 24                                      *)
(*                                                                         *)
(* where data is the nibble and flag = (nibble before it) XOR (sequence).  *)
(* smartlinktx.c builds these lengths and smartlinkrx.c takes them apart.  *)
(*                                                                         *)
(* Bytes are 0..255, nibbles 0..15.  The two halves of byte i are frames   *)
(* 2i (high nibble) and 2i+1 (low nibble).                                 *)
(***************************************************************************)
EXTENDS Integers, Sequences

CONSTANT RadiotapLen    \* radiotap header of the capturing driver, in bytes

ASSUME RadiotapAssumption == RadiotapLen \in 0..255

U8          == 256      \* values of a uint8_t
BUFFER_MAX  == 512
PACKET_MAX  == 1500
START_FLAGS == 127
END_FLAGS   == 127
LenBase     == 24       \* added to every length by the transmitter
MacOverhead == 76       \* 802.11, CCMP, LLC, IP and UDP bytes around a payload

Byte   == 0..255
Nibble == 0..15

High(b) == b \div 16
Low(b)  == b % 16

(***************************************************************************)
(* C's ^ and | on uint8_t, bit by bit.  w is the weight of the bit.        *)
(***************************************************************************)
BitAt(a, w)     == (a \div w) % 2
XorBit(a, b, w) == IF BitAt(a, w) = BitAt(b, w) THEN 0 ELSE w
OrBit(a, b, w)  == IF BitAt(a, w) = 0 /\ BitAt(b, w) = 0 THEN 0 ELSE w

Xor(a, b) == XorBit(a, b, 1)  + XorBit(a, b, 2)  + XorBit(a, b, 4)
           + XorBit(a, b, 8)  + XorBit(a, b, 16) + XorBit(a, b, 32)
           + XorBit(a, b, 64) + XorBit(a, b, 128)

Or(a, b) == OrBit(a, b, 1)  + OrBit(a, b, 2)  + OrBit(a, b, 4)
          + OrBit(a, b, 8)  + OrBit(a, b, 16) + OrBit(a, b, 32)
          + OrBit(a, b, 64) + OrBit(a, b, 128)

-----------------------------------------------------------------------------
(***************************************************************************)
(* Transmitter.  The message for payload p is START, the bytes of p, END;  *)
(* its length is kept in a uint8_t.                                        *)
(***************************************************************************)
MessageByte(p, i) ==
  IF i = 0 THEN START_FLAGS
           ELSE IF i = Len(p) + 1 THEN END_FLAGS ELSE p[i]

MessageLen(p) == (Len(p) + 2) % U8

FrameCount(p) == 2 * MessageLen(p)

\* sendlen0: the high nibble of byte i, chained to the low nibble before it.
SendLen0(p, i, seq) ==
  LET low0 == IF i # 0 THEN Xor(Low(MessageByte(p, i - 1)), seq) ELSE seq
  IN  16 * low0 + High(MessageByte(p, i)) + LenBase

\* sendlen1: the low nibble of byte i, chained to the high nibble before it.
SendLen1(p, i, seq) ==
  LET highs == Xor(High(MessageByte(p, i)), seq)
  IN  16 * highs + Low(MessageByte(p, i)) + LenBase

\* The length of frame number k of a round: u32Sequence starts at 0 in every
\* round and is incremented once per frame.
FrameLen(p, k) == IF k % 2 = 0 THEN SendLen0(p, k \div 2, k % U8)
                               ELSE SendLen1(p, k \div 2, k % U8)

-----------------------------------------------------------------------------
(***************************************************************************)
(* Receiver.  recvfrom cuts a captured packet at PACKET_MAX - 1 bytes, and *)
(* the parser subtracts the headers: no length above MaxSendlen is seen.   *)
(***************************************************************************)
MaxSendlen == PACKET_MAX - 1 - RadiotapLen - MacOverhead

Captured(len) == IF len > MaxSendlen THEN MaxSendlen ELSE len

DataOf(sendlen) == (sendlen - LenBase) % 16
FlagOf(sendlen) == ((sendlen - LenBase) \div 16) % U8
=============================================================================
