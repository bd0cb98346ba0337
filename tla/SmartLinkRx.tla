---------------------------- MODULE SmartLinkRx -----------------------------
(***************************************************************************)
(* The receiver of smartlinkrx.c: the context SmartLinkRx_t and what the   *)
(* receiving thread does with one captured frame.  The frames are whatever *)
(* the air brings (Heard), in any order: smartlinkrx.c filters neither by  *)
(* transmitter nor by destination.                                         *)
(***************************************************************************)
EXTENDS SmartLinkCodec

CONSTANTS
  Stations,   \* source addresses (addr3 of a data frame)
  ZeroMac,    \* the address in a context fresh from calloc
  NoCall,     \* the callback has not been called yet
  Heard       \* frames the socket may return: [len |-> .., src |-> ..]

ASSUME StationsAssumption == ZeroMac \notin Stations
ASSUME HeardAssumption == Heard \subseteq [len : Int, src : Stations]

VARIABLES
  u32Index,     \* byte under construction (a uint8_t, in spite of its name)
  u32Sequence,  \* next expected sequence number (a uint8_t)
  buffer,       \* the message so far, START flag included
  sourceAddr,   \* address last copied from an accepted frame
  callback      \* arguments of the last smartLinkRx call

rxVars == <<u32Index, u32Sequence, buffer, sourceAddr, callback>>

BufferIndex == 0..(BUFFER_MAX - 1)

\* What a callback reading buf as a C string sees: buf is buffer + 1.
TextEnd(b) == CHOOSE n \in BufferIndex \ {0} :
                /\ b[n] = 0
                /\ \A m \in 1..(n - 1) : b[m] # 0
TextOf(b)  == [i \in 1..(TextEnd(b) - 1) |-> b[i]]

Call(mac, text, len) == [mac |-> mac, text |-> text, len |-> len]
Calls == [mac : Stations, text : Seq(Byte), len : Byte]

ASSUME NoCallAssumption == NoCall \notin Calls

-----------------------------------------------------------------------------
RxInit ==
  /\ u32Index    = 0
  /\ u32Sequence = 0
  /\ buffer      = [i \in BufferIndex |-> 0]
  /\ sourceAddr  = ZeroMac
  /\ callback    = NoCall

ExpectsHigh == u32Sequence % 2 = 0

\* The nibble the next flag must be chained to.
ChainNibble ==
  IF ExpectsHigh
    THEN IF u32Index = 0 THEN 0 ELSE Low(buffer[u32Index - 1])
    ELSE High(buffer[u32Index])

ExpectedFlag == Xor(ChainNibble, u32Sequence)

Matches(sendlen) == FlagOf(sendlen) = ExpectedFlag

NextSequence == (u32Sequence + 1) % U8

\* Mutant: the nibble is added instead of or-ed.
AcceptHighAdds(f) ==
  /\ ExpectsHigh
  /\ Matches(f.len)
  /\ buffer' = [buffer EXCEPT ![u32Index] = @ + 16 * DataOf(f.len)]
  /\ u32Sequence' = NextSequence
  /\ UNCHANGED <<u32Index, sourceAddr, callback>>

AcceptHigh(f) ==
  /\ ExpectsHigh
  /\ Matches(f.len)
  /\ buffer' = [buffer EXCEPT ![u32Index] = Or(@, 16 * DataOf(f.len))]
  /\ u32Sequence' = NextSequence
  /\ UNCHANGED <<u32Index, sourceAddr, callback>>

\* Mutants: START, too, is taken for END; END is looked for one byte too late.
IsEndAnywhere(index, byte) == byte = END_FLAGS
IsEndLate(index, byte)     == index > 3 /\ byte = END_FLAGS

IsEnd(index, byte) == index > 2 /\ byte = END_FLAGS

\* Mutant: END is not overwritten.
StoredAsIs(ended, byte) == byte

Stored(ended, byte) == IF ended THEN 0 ELSE byte

\* Mutant: the first address is kept, not the last.
SourceAddrFirst(index, f) == IF sourceAddr = ZeroMac THEN f.src ELSE sourceAddr

SourceAddr(index, f) == IF index > 2 THEN f.src ELSE sourceAddr

\* Mutants: len is one too long; len is one shorter than the text.
CallLenLong(index)  == index + 1
CallLenShort(index) == index - 3

CallLen(index) == index

\* The byte is complete.  From the third byte on the source address is kept
\* and END calls the user back, after the END byte was overwritten with NUL.
AcceptLow(f) ==
  LET byte  == Or(buffer[u32Index], DataOf(f.len))
      index == (u32Index + 1) % U8
      ended == IsEnd(index, byte)
      buf   == [buffer EXCEPT ![u32Index] = Stored(ended, byte)]
      src   == SourceAddr(index, f)
  IN /\ ~ExpectsHigh
     /\ Matches(f.len)
     /\ u32Index'    = index
     /\ buffer'      = buf
     /\ sourceAddr'  = src
     /\ callback'    = IF ended THEN Call(src, TextOf(buf), CallLen(index)) ELSE callback
     /\ u32Sequence' = NextSequence

\* Mutants: any frame out of turn starts over, wherever the receiver is; the
\* index stays behind.
ResyncAnywhere(f) ==
  /\ ~ExpectsHigh
  /\ ~Matches(f.len)
  /\ DataOf(f.len) # 7
  /\ u32Sequence' = 0
  /\ u32Index' = 0
  /\ UNCHANGED <<buffer, sourceAddr, callback>>

ResyncForgetsIndex(f) ==
  /\ ~ExpectsHigh
  /\ ~Matches(f.len)
  /\ DataOf(f.len) # 7
  /\ u32Sequence' = 0
  /\ UNCHANGED <<u32Index, buffer, sourceAddr, callback>>

\* The second frame of START did not follow the first: start over.  The frame
\* is not START's first half again, which the data nibble 7 would betray.
Resync(f) ==
  /\ ~ExpectsHigh
  /\ ~Matches(f.len)
  /\ u32Index = 0
  /\ DataOf(f.len) # 7
  /\ u32Sequence' = 0
  /\ UNCHANGED <<u32Index, buffer, sourceAddr, callback>>

Ignore(f) ==
  /\ ~Matches(f.len)
  /\ ExpectsHigh \/ u32Index # 0 \/ DataOf(f.len) = 7
  /\ UNCHANGED rxVars

RxDecode(f) == AcceptHigh(f) \/ AcceptLow(f) \/ Resync(f) \/ Ignore(f)

\* One turn of the receiving thread: a result <= 0 (nothing to read, not a
\* data frame, shorter than its headers) never reaches the decoder.
RxProcess(f) ==
  LET sendlen == Captured(f.len)
  IN  IF sendlen <= 0 THEN UNCHANGED rxVars
                      ELSE RxDecode([f EXCEPT !.len = sendlen])

RxNext == \E f \in Heard : RxProcess(f)

RxSpec == RxInit /\ [][RxNext]_rxVars

-----------------------------------------------------------------------------
(***************************************************************************)
(* Properties                                                              *)
(***************************************************************************)
\* The fields keep the types of SmartLinkRx_t; the decoder indexes the buffer
\* inside its 512 bytes.
RxTypeOK ==
  /\ u32Index \in Byte
  /\ u32Sequence \in Byte
  /\ buffer \in [BufferIndex -> Byte]
  /\ sourceAddr \in Stations \cup {ZeroMac}
  /\ callback \in Calls \cup {NoCall}

MaxIndex == 48

\* The byte index and the sequence number never part, whatever is accepted,
\* ignored or resynchronised, and PACKET_MAX keeps them far below the point
\* where either uint8_t wraps: u32Index stops at 48, so that the debug read of
\* buffer[u32Index - 1] never underruns and the 512 bytes are never exhausted.
SequenceTracksIndex ==
  /\ u32Sequence \in {2 * u32Index, 2 * u32Index + 1}
  /\ u32Sequence <= 2 * MaxIndex

MaxCallLen == 44

\* No message of more than 44 bytes (START, 42 payload bytes, END) is ever
\* reported: the frames of a longer one do not fit into PACKET_MAX, although
\* smartlinkTxSend accepts up to 255 bytes.
NoLongMessage == callback # NoCall => callback.len <= MaxCallLen

\* Everything above the byte under construction is still zero, and so is that
\* byte while its high nibble is awaited.  This is what makes the |= of the
\* decoder an assignment; byte 0 is the exception, Resync leaves it dirty.
AheadIsClear ==
  /\ \A i \in BufferIndex : i > u32Index => buffer[i] = 0
  /\ ExpectsHigh /\ u32Index > 0 => buffer[u32Index] = 0

\* The receiver keeps decoding after END, and later frames may call the user
\* back again with a larger len: the C string it is shown is the same one.
RepeatedCallsShowSameText ==
  [][callback # NoCall => callback'.text = callback.text]_rxVars

\* len overstates the string: it counts START and the terminator, so that a
\* callback copying len bytes of buf reads one byte past the terminator.
LenCoversText == callback # NoCall => callback.len >= Len(callback.text) + 2

\* Comments at smartlinkrx.c:49 and :58: each accepted frame ASSIGNS its nibble.
NibbleIsAssigned ==
  [][\A f \in Heard : LET sendlen == Captured(f.len)
                     IN  AcceptHigh([f EXCEPT !.len = sendlen])
                           => High(buffer'[u32Index]) = DataOf(sendlen)]_rxVars
=============================================================================
