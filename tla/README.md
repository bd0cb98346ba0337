# SmartConfig in TLA+

A station that does not know the Wi-Fi password can still read one thing of every
encrypted frame in the air: its length. The programs of this repository use that
to hand over SSID and password. `smartlinktx_demo` broadcasts UDP datagrams whose
*lengths* carry a text, nibble by nibble, round after round; `smartlinkrx_demo`
puts its interface into monitor mode, measures the frames it captures and puts the
text together again.

This directory holds TLA+ modules of those programs, TLC runs that check them and
TLAPS proofs about every component. Paths like `smartlinkrx.c:46` are relative to
`src/src/`, `smartlinktx_demo.c` and `smartlinkrx_demo.c` to `src/example/`.

## 1 The system

| Component | State | Operations | Meets |
|---|---|---|---|
| Transmitter, `smartlinktx.c` | socket, `u32Sequence`, mutex; locals of each call | `smartlinktTxInit`, `smartlinkTxSend`, `smartlinkTxDeInt` | its callers share the context; the receiver, over the air |
| Receiver decoder, `smartlinkrx.c:37-87` | `u32Index`, `u32Sequence`, `buffer`, `sourceAddr` | `_smartlinkRxDecode`, the loop around it | frames of *all* stations; the user's callback |
| Receiver life cycle, `smartlinkrx.c:89-148` | `threadExit`, `thread`, `sockFd`, the context itself | `smartLinkRxInit`, `smartLinkRxDeInit` | two threads on one context; the callback may call back in |
| Interface, `iface.c` | flags, mode and frequency in the kernel | `ifaceSeMonitorMode`, `ifaceSetFreq` | other programs that configure the interface; whatever an earlier receiver left |
| Sockets, `sockets.c` | descriptors, socket queue | creation, options, `socketRevcRawpacket`, `socketSendtoBroadcast` | kernel |
| 802.11 parser, `wlan80211.c` | `ieee80211_radiotap`, reused for all frames | `ieee80211RadiotapHeader` | packets of any shape |
| Bit stream, `bitstream.h` | `p`, `bits_left`, the memory | construction, copies, reads, skips and writes of bits, bytes, Golomb codes | the parser |
| Demo programs, `example/` | `gThreadExit` | main loop, signal handler | signals in any thread, `localtime`'s lock in `LOG` and `ERR` |

**The code.** A message is START, the payload, END (both flags are 0x7F); its byte
`i` is sent as two datagrams of length `16 * flag + nibble + 24`, where the flag is
the nibble sent before XOR the frame's sequence number. The receiver accepts a
frame when its flag equals (last nibble held) XOR (expected sequence number), and
ignores every other. There is no acknowledgement, no checksum, and no identity of
transmitter or round: the chain of flags is all there is.

**What is hard about it.**

* *Loss, repetition, strangers.* Any frame may be missing or heard twice, any
  station's frame may carry a matching flag. The receiver must then never take one
  nibble for another, and must be able to catch up in a later round.
* *No reset.* Only byte 0 can be started over (`smartlinkrx.c:53`), and only its
  sequence number is reset; after END the decoder just goes on.
* *Small integers.* `u32Index` and `u32Sequence` are `uint8_t`, and so is
  `length = size + 2`; 512 bytes of buffer meet 1499 bytes of `recvfrom`.
* *Shared contexts.* Senders share sequence number and socket behind one mutex that
  lives in the memory `smartlinkTxDeInt` frees. The receiver's context is freed by
  one thread while another one runs on it.
* *Partial failure.* Eight configuration steps, each of which may fail half way, and
  nothing is undone: the next attempt starts from a half configured interface.
* *Kill and restart.* Both demos are ended by signals and started again by hand, in
  the middle of a round or between two ioctls. Neither keeps anything, but the
  interface and the other end of the air do.
* *Blocking.* `smartLinkRxDeInit` joins a thread that may have nothing to receive.
* *Signals.* The handler of the demos takes `localtime`'s lock, in whatever thread
  it happens to interrupt.

What makes each component correct is stated with its runs in section 4; all
hazards, with their lines and the properties aimed at them, are in `PROJECT.json`.

## 2 Modules

    SmartLinkCodec ---- lengths, flags, nibbles: shared by both ends
      |-- FrameSource           what a transmitter promises (abstract)
      |     |-- SmartLinkTx     threads, mutex, socket      implements FrameSource
      |-- SmartLinkRx           the decoder, fed anything
      |     |-- SmartLink       FrameSource + air + SmartLinkRx
      |     |                   implements NibbleTransfer (abstract)
      |     |-- SmartLinkCapture   + Wlan80211: from packets of bytes to the
      |                         callback           implements SmartLinkRx
      |-- Wlan80211             recvfrom and parser, over BitStream
    Sockets                     descriptors, for SmartLinkTx and SmartLinkRxThread
    Iface ---- SmartLinkRxThread    receivers, one after the other
    BitStream ---- BitStreamClient  copies, reads and writes in any order
    DemoSignals                     how the programs start and end

`MC*` modules give values to constants that a `.cfg` file cannot write. `M_proofs` holds
the theorems about module `M` (section 5); `SmartLink_proofs` and `SmartLinkCapture_proofs`
build on `SmartLinkRx_proofs`, and that and `SmartLinkTx_proofs` on `SmartLinkCodec_proofs`.
`Sockets`
holds what a descriptor is to this code (`ST_CHECK_SOCKET`, `CLOSE_SOCKET`, what
`socket` returns); the calls of `sockets.c` and the other macros of `common.h` are part
of the actions that make them.

Composition goes through abstractions. `SmartLinkTx` has threads, a mutex and a
failing `sendto`, and is shown to implement `FrameSource`: rounds of ONE payload,
frames in order, each at most once. `SmartLink` is built on `FrameSource` instead of
the transmitter's threads; that is what makes the composition small enough, and the
refinement is what makes it legitimate. (`FrameSource!Omit` is a `sendto` that failed;
in `SmartLink` a lost frame stands for it.)

In the same way `SmartLinkRx` hears frames, records of a length and a source, where the
program reads packets of bytes. `SmartLinkCapture` composes `Wlan80211` (recvfrom's
buffer, the parser, bit by bit, and the structure it leaves its results in) with the
decoder, and `ImplementsDecoder` says that every turn of the loop is the step
`SmartLinkRx` takes for the frame in that packet (`AsFrame`, which looks at the packet
alone and knows of no buffer, no parser and no earlier packet).

### From code to model

| Code | Model |
|---|---|
| `SmartLinkRx_t`: `u32Index`, `u32Sequence`, `buffer`, `sourceAddr` | variables of the same names in `SmartLinkRx`; `callback` holds the arguments of the last call of the user's function, with `buf` read as a C string, as `smartlinkrx_demo.c` does |
| `_smartlinkRxDecode`: accepted with even / odd sequence; start over; return | `AcceptHigh` / `AcceptLow` / `Resync` / `Ignore`; exactly one is enabled for a frame |
| `sendlen <= 0: continue` | first branch of `RxProcess` |
| `smartlinkTxSend`: malloc, lock, loop body, two sends, delay, unlock | `Call`, `Lock`, `Encode`, `Send0`, `Send1`, `Delay`, `Unlock` per sender |
| a message longer than the block `malloc(sizeof(length))` gives | `Overrun`: the context is `"undefined"` from then on |
| `smartlinkTxDeInt` | `DeInt`, `Close`, `UnlockClosed`, `Free`; a step that would touch the freed context leads to `"stray"`, where anything may follow |
| `smartLinkRxInit` and its gotos to `smartLinkRxDeInit` | `CreateSocket`, `BindIfcdev`, `ConfigureIface`, `SetNoblocking`, `SetRevcbuffer`, `CreateThread`, each with its failure; `DeInit`, `Join`, `Close`, `Free` |
| receiving thread, callback | `Test`, `RecvNothing` (only if `O_NONBLOCK` is set or the descriptor gone), `RecvFrame`, `Callback`, `CallbackCallsDeInit` |
| a second `smartLinkRxInit`, in the same process or after a kill | `InitAgain`, `Killed`: a new context, the interface as it is |
| `smartlinktx_demo` or `smartlinkrx_demo` killed and started again | `TransmitterRestarts`, `ReceiverRestarts` of `SmartLink` |
| `strlen(argv[1])` passed as `uint8_t` | `Passed` |
| ioctls of `iface.c` | one action each, `Fail(s)` for its failure, `Rival` for another program, `ConfigureAnew` for the next attempt |
| `signal_handler`, `LOG`, `ERR` | lists of instructions put in front of a thread's `todo`; `Start` is `smartlinktTxInit` or `smartLinkRxInit` |
| `bs_init`, `bs_clone` | `Bs`, `Clone` |

C's integers keep their widths (`% U8`), `^` and `|` are computed bit by bit
(`Xor`, `Or`), so that an `|=` over a dirty byte does in the model what it does in
the program.

## 3 Bounds

| Run | Instance | Why it is enough |
|---|---|---|
| `rx` | 105 frames of two stations, any order, unbounded repetition | All nibbles under the flags 0x00 to 0x50 drive the receiver to the last index PACKET_MAX admits (48) and to a second callback behind the first; the other station's frames complete START and overwrite its first half; the strange ones have lengths -1, 0, 10 (flag 255 by wrap) and 4119 (cut). |
| `smartlink` | payloads `!` and `k/P`, queue of 2, noise that passes for both halves of START, that recvfrom cuts, that is too short | a round of 10 frames has every kind of step; a queue of 2 loses frames and holds a repeated one; other queue lengths only delay. Restarts are unbounded until the air clears. |
| `tx` | two senders, owner, payloads of 0, 38, 39 and 254 bytes, descriptors 0 and 3, blocks of 24 bytes | two senders are the least that can interfere; 38 is the longest payload whose frames surely fit into PACKET_MAX, 39 the first that may not, and both overrun a block of 24 bytes; 254 is the size at which `length` wraps; 0 is the descriptor the code treats inconsistently. |
| `rxthread` | channels 14 (irregular), 38 (regular), 39 (not in the table), 2 changes by another program, 2 receivers in a row, descriptors 0, 3 and 4 | one change already defeats a read-modify-write, the second may take it back; the second receiver meets everything the first can leave behind; two descriptors above 0 let the second live while the first has leaked. Channels within the table differ in a sum only. |
| `bitstream` | memory of 1 and of 5 bytes, widths 1 and 4, byte counts -1..3, values 0, 6, 32767, 66000, start up to bit 10 | every alignment, both paths of `bs_read_u8`, codes of 1 to 35 bits (31 is the longest without an undefined shift), under both outcomes of such a shift; reads and writes before, across and behind the end. |
| `capture` | the datagrams of a round of `!` from two stations; packets of 1, 3, 12, 30, 84 to 86, 115 and 1498 to 1600 bytes, radiotap headers of 0, 2, 8, 9, data frames and others | the round takes the decoder to a callback; lengths around headers and payload boundary (84 = 8 + 76) and around PACKET_MAX; headers shorter than what was read. |
| `demo` | three signals | the second may interrupt the handler of the first, the third the other thread meanwhile. |

Named bounds of the models: `QueueMax`, `RivalMax`, `MaxLives`, `MaxSignals`, `BitMax`. The
decoder needs none: its state space is finite by itself (`SequenceTracksIndex`).
Deadlock checking is off (`CHECK_DEADLOCK FALSE`) where the programs stop (after
Free, after the last signal, at `BitMax`) and in the receiver runs, where `Ignore`
is a stuttering step.

## 4 What the runs show

**`rx`** - the decoder against arbitrary frames.
`RxTypeOK`; `SequenceTracksIndex`: index and sequence never part, and both stay far
from the wrap of their `uint8_t`, *because* PACKET_MAX cuts the frames that would
carry on; `NoLongMessage`: nothing longer than 44 bytes (42 of payload) is ever
reported, although the API takes 255; `AheadIsClear`: what lies ahead of the decoder
is zero, which is why `|=` assigns; `LenCoversText`: the `len` of the callback is at
least two more than the string; `RepeatedCallsShowSameText`: later frames may call
the user back again, with the same string.

**`smartlink`** - the transfer over bad air, either program killed and started again at
any moment before the air clears. For payloads that can be transferred
(below): `HoldsPrefix`, the buffer is a prefix of the message after every loss,
repetition and broken round; `CorrectDelivery`; `ImplementsTransfer`, the whole composition implements
`NibbleTransfer`; `MacIsTransmitter`, the address of the first callback is the
transmitter's; `EventuallyDelivered`, once the air is clear the callback comes, from
*every* state bad air can have left the receiver in.

*Which payloads.* `Deliverable` = fits into PACKET_MAX (`Fits`), holds no NUL and no
0x7F where END is looked for (`PlainText`), and no two frames of the round, nor a
frame of another station, carry different nibbles under the same flag
(`Unambiguous`). Of `!`, `k/P`, `*i#S8` all are; of `a`, `ab`, `abc` none is. For an
ambiguous payload a lost frame can let a later one of the round pass for it: the
receiver then delivers another text or waits for ever in a byte it cannot give up.
**`readme`** shows the former for `wuminghui,8888888`, the example of `README.md:9`.

**`tx`** - `TxTypeOK` (the descriptor of a live context is open, only the holder of the mutex is
in the loop), `SequenceFollowsIndex` (the shared sequence number stays in step with
the caller's own index), `PacketHolds` (what is sent of a payload of at most
`SafeLen` = 38 bytes stays within the array `packet` and within the other end's buffer; it
needs the sequence number of the flags, not only the payload), `ImplementsFrameSource`, `SilentAfterClose` (no broadcast
after `smartlinkTxDeInt`, no socket closed in mid-round), `OnlyZeroLeaks`, `RoundsEnd`, `DeIntReturns` (only when callers stop
calling, since the mutex is not fair). All of it up to an `Overrun`: of a payload of 23
bytes or more, what `malloc` leaves behind its block decides whether anything goes on.

**`rxthread`** - `RxtTypeOK`, `ContextOutlivesThread` (the thread never finds its context freed or
its socket closed, unless the callback called `smartLinkRxDeInit`),
`ListensOnChannel` (a handle means monitor mode, up, right frequency, however an earlier
attempt failed or was killed), `FlagsKept` (by then every other flag of the interface is
what others want it to be, unless they changed it inside one of the windows between a
`SIOCGIFFLAGS` and the `SIOCSIFFLAGS` that follows), `DeInitReleases`, `DeInitEnds`
(`smartLinkRxDeInit` returns though no frame ever comes: the socket does not block). **`rxthread_init`**: a failing
`smartLinkRxInit` joins the handle `calloc` zeroed.

**`bitstream`** - `HoldsWhatWasWritten` and `ReadsWhatIsHeld` compare the stream, and
copies made of it in mid-byte, with the plain sequence of its bits, at all alignments
and across the end; `GolombRoundTrip` reads back what was written. A code of 33 bits
or more, which `bs_write_ue` makes for numbers from 65535 on, is another matter: `bs_write_u` shifts a
`uint32_t` by 32 and more for its first bits (`bitstream.h:232`), which C leaves
undefined. On 32-bit ARM, the target of the Makefile, where the shift leaves 0, the code is
right. On x86 and AArch64 the count is taken modulo 32, the bits in front are the last
ones of the number once more, and the number cannot be read back. `Shift` has both outcomes,
`Code` says what is written in each, and `Legible` which numbers are read back.

**`capture`** - `WlanTypeOK`, `AddressIsOfThisFrame` (a frame that reaches the decoder
brings all six bytes of its own address, however malformed; the structure is reused
and keeps old ones), `ImplementsDecoder` (section 2).

**`demo`** - `ReturnsAlone`, `SignalEndsProgram`: a signal ends the
program whichever thread it hits and however far it has come, unless it hit one inside
`localtime` or the program is caught in a fault (a failing `smartLinkRxInit` among them);
a program that has started ends only by its flag, with its threads joined.

**Disagreements between code and comments**, each a run that ends in a
counterexample: `rx_assign` (a nibble is or-ed, the comment says assigned; byte 0
keeps an abandoned START's nibble), `readme`, `rxthread_init`, `demo_flag` (a signal
inside `localtime` never sets the flag), `demo_fault` (the handler of SIGSEGV returns
to the fault). Not run: the comment of `bs_read_ru` (`bitstream.h`) speaks of n bytes,
the code reads n bits, as `ReadRu` has it; and `bs_write_ue` has branches for
numbers of 17 to 32 bits (`bitstream.h:287-294`), whose codes `bs_write_u` cannot write on
every processor, as said under `bitstream`.

### Fairness

* `SmartLink!FairSpec`: weak fairness of the transmitter's loop and of the receiving
  thread; both are loops of a running thread. Nothing makes the air clear:
  `EventuallyDelivered` says what happens if it does. On clear air a frame is heard
  once and finds room in the queue, because the receiver spins on a non-blocking
  socket while the transmitter sleeps `interval_ms` after every byte.
* `SmartLinkTx!TxFairSpec`: weak fairness of each thread. The mutex is glibc's
  default one, which is not fair, so that a waiting thread may be overtaken for ever;
  hence the premise of `DeIntReturns`.
* `SmartLinkRxThread!RxtFairSpec`: weak fairness of both threads, none for the user
  (`CallDeInit`), for the other program, for restarts, and for the arrival of frames
  (`RecvFrame`), so that a receiving thread may wait in a blocking `recvfrom` for ever. Inside one thread an ioctl, an
  option or a join that returns is a step of it.
* `DemoSignals!DemoSpec`: strong fairness of each thread, for `localtime`'s lock: it
  is held for a moment and taken again only after a sleep or a frame, so that a
  thread which keeps asking gets it.

## 5 What is proved

Every invariant, action property and refinement of section 4 is also a theorem,
checked by TLAPS for every value of the constants.

| Module | Theorems (property) | Assumed beyond the modules' own `ASSUME`s |
|---|---|---|
| `SmartLinkRx_proofs` | `RxTypeCorrect` (`RxTypeOK`), `IndexBounded` (`SequenceTracksIndex`), `LongMessagesLost` (`NoLongMessage`), `OrAssigns` (`AheadIsClear`), `LenOverstates` (`LenCoversText`), `OneText` (`RepeatedCallsShowSameText`) | - |
| `SmartLinkTx_proofs` | `TypeCorrect` (`TxTypeOK`), `SequenceInStep` (`SequenceFollowsIndex`), `NothingElseOpen` (`OnlyZeroLeaks`), `ClosedIsSilent` (`SilentAfterClose`), `IsFrameSource` (`ImplementsFrameSource`) | - |
| | `PacketsHold` (`PacketHolds`) | `RadiotapLen <= 120` |
| `SmartLink_proofs` | `PrefixHeld` (`HoldsPrefix`), `DeliveryCorrect` (`CorrectDelivery`), `AddressCorrect` (`MacIsTransmitter`) | - |
| | `IsTransfer` (`ImplementsTransfer`) | `Payloads \subseteq Deliverable` |
| `SmartLinkCapture_proofs` | `ParserTypeCorrect` (`WlanTypeOK`), `OwnAddress` (`AddressIsOfThisFrame`) | - |
| | `CaptureIndexBounded` (`SequenceTracksIndex`) | `SentByStations` |
| | `IsDecoder` (`ImplementsDecoder`) | `OneHeader` |
| `SmartLinkRxThread_proofs` | `TypeCorrect` (`RxtTypeOK`), `ContextOutlives` (`ContextOutlivesThread`), `Listening` (`ListensOnChannel`), `FlagsAreKept` (`FlagsKept`), `Releases` (`DeInitReleases`) | - |
| `BitStreamClient_proofs` | `MemoryHeld` (`HoldsWhatWasWritten`), `ReadsHeld` (`ReadsWhatIsHeld`), `CodesReadBack` (`GolombRoundTrip`) | `ShortCodes` |
| `DemoSignals_proofs` | `LastToReturn` (`ReturnsAlone`) | - |

So the sets of frames, packets, payloads, senders, descriptors, channels and memory
contents, the station addresses, the size of the queue, and the numbers of rivals, signals
and receivers are arbitrary in these results; section 3's instances are not.

### Assumptions

* The modules' `ASSUME`s type the constants: stations differ from the zero address,
  payloads are sequences of bytes, packets too, descriptors are naturals; `RadiotapLen` is
  one byte; owner, senders and `Nobody` are different; `NoCall` is not a value that the
  arguments of a callback can have; widths are at most 30 bits and byte counts at most 3.
  TLC evaluates all of them.
* `RadiotapLen <= 120` in `PacketsHold`. The sequence numbers of 38 bytes of payload reach
  79 and so do the flags; 16 * 79 + 15 + 24 = 1303 bytes, 76 around them and a radiotap
  header of 120 are the 1499 bytes that recvfrom is given. The bound of 120 is the best
  that the largest flag and nibble allow.
* `Payloads \subseteq Deliverable` in `IsTransfer`. `readme` shows what happens otherwise.
  The other theorems on the transfer speak of deliverable payloads in their own text.
* `OneHeader` in `IsDecoder`: data frames longer than PACKET_MAX - 256, which may be cut,
  carry a radiotap header of `RadiotapLen` bytes, as one driver writes them. The parser takes the header's length from the
  packet, `SmartLinkRx` from a constant.
* `SentByStations` in `CaptureIndexBounded`: the addresses in data frames are in
  `Stations`, which is not much of a restriction, since `Stations` is arbitrary.
* `ShortCodes`: the values written as Golomb codes have 2v + 1 < 2^30. Beyond,
  TLC's integers end; codes of up to 59 bits are below.

`MCSmartLinkCapture` and `MCBitStream` assume the last three for their instances, and
`MCSmartLink` that the payloads of the passing run are deliverable, so that TLC finds the
hypotheses satisfied where the properties are checked.

### The inductive invariants

**`RxInv`** (receiver). None of the six properties is inductive alone. The index cannot
be bounded without the sequence number it is chained to; `RxTypeOK` needs the bound, since
an index of 512 would leave the buffer; `NoLongMessage` needs the bound together with what
END's high nibble says about the flag of its low one; and the string of a callback is well
defined only if a NUL stands ahead of the decoder (`AheadIsClear`) and stays the same only
if no later frame writes behind that NUL. So `RxInv` is the five invariants and
`TextIsBehind`: once the user was called there is a NUL below `u32Index`, and the text is
what lies before it.

* The bound comes from arithmetic: `CapturedFlag` (recvfrom lets pass no flag from 88
  to 253, only those that lengths below 24 wrap to), `LastSequence` (at sequence number
  96 every expected flag lies in that gap), `LastEnd` (so it does at 89 to 95 when the
  high nibble is 7, END's).
* `TextEndIsFirst` and `TextStable` say what a C string in the buffer is and that
  bytes behind its end do not matter; `LeastNatural` provides the first NUL.
* `HighStep`, `LowStep`, `ResyncStep`, `StutterStep` carry `RxInv` over the actions,
  `StepInv` joins them, `Invariance` is the temporal step.

**`TxInv`** (transmitter). `SequenceFollowsIndex` relates the shared sequence number to
one sender's local index, which only mutual exclusion makes meaningful. `FieldsInv`
types the fields and ties the descriptor to the open ones; `CallsInv` says of every
sender that, in the loop, it holds the mutex, the shared sequence number is twice its
index (two more once a byte is encoded), and the two lengths it has computed are those of
its current byte; `OwnerCloses`
that the owner holds the mutex until it has given it back; `NothingBefore` what a
context that is not there yet means for the callers.
`IsFrameSource` maps each step to `Begin`, `Broadcast`, `Omit`, `EndRound` or a stutter of
`FrameSource`; the round there is the holder's payload here.

**`TransferInv`** (transfer). For a deliverable argument: `RxInv`; `InRound`, the
transmitter is in a round of that argument or between two; every frame in the queue is of
such a round, or noise; `Holding`, index and sequence number count the frames
accepted and the buffer is that prefix of the message. The heart is that `Unambiguous` turns
a matching flag into a matching nibble, whatever was lost. `HoldsPrefix` and
`CorrectDelivery` follow, and so does every step of `ImplementsTransfer`.

**`CaptureInv`** (capture). `RxInv`, `WlanTypeOK` and `AddressIsOfThisFrame`. The parser reads
bit by bit through `BitStream`, but never leaves the boundary of a byte; the lemmas compute
what its reads and skips return for a packet of any length, zeros behind the end included,
and hence what the reused structure holds when the parser returns a length.

**`RxtInv`** (receiver life cycle) is `IfaceInv /\ LifeInv`. `IfaceInv`: which flags each
step of `iface.c` holds in `ifr` and what each completed step leaves to the next (the
flags another program changed inside a window are in `raced`, and nothing is said of
them). `LifeInv`: which program points of main and thread go together
with which socket, context and exit flag; `OrderlyEnd` holds until the callback itself calls
`smartLinkRxDeInit`, which is the one way to lose the context.

**`DemoInv`** (demos). `ListsInv` gives every list of instructions its shape: who has a
lock has its `unlock` next, unless a signal came in between, and a finished thread has
nothing left. With `ThreadsInv` and `ReturnsAlone` it is inductive.

**`Held`** (bit stream). The memory holds the bits of the plain sequence, and the cursor is
at the next of them. What an operation returns is then a fact about any such stream, or
copy of it, and not about how it was reached. The recursive functions
inside `ReadU`, `WriteU` and the Golomb codes choose a solution of an equation: `Sum` and
`Writing` name the equations, `SumExists` and its like show that a solution exists, and
`Induction` (over a *set* of numbers, which the provers can instantiate) what every
solution is.

### Model-checked only

* The five liveness properties: `EventuallyDelivered`, `RoundsEnd`, `DeIntReturns`,
  `DeInitEnds`, `SignalEndsProgram`. Fairness speaks of ENABLED, which the provers do not
  reason about.
* The disagreements between code and comments, which are counterexamples.

## 6 Not modelled

* Contents of the heap and of the stack. `malloc(sizeof(length))` is one byte into which
  a message is written (`smartlinktx.c:95`), and is never freed: `Overrun` says that
  after it nothing is known, not what is overwritten. `sendto` reads up to 4119 bytes of a
  1500 byte array (`smartlinktx.c:29`): lengths are modelled, what is read is not.
* A `malloc` in `bs_new` that fails (`bitstream.h:77`), which ends the program.
* Several messages in turn. A transmitter started with another argument sends frames
  that share flags with the first one's: no two payloads tried are unambiguous together,
  and a receiver that has delivered one text never shows another (`OneText`), so that
  there is no promise to check. `argv` is the same for the whole behaviour.
* `ieee80211.h` (constants no file includes), `smartcfg.h` (declarations), the Makefile.
* `ifaceBindSocket` and the condition variables of `common.h`, which nothing uses.
* Wording and colours of log lines; of `LOG` and `ERR` only the call of `localtime`.
* Restoring the interface: no code does (a failure after `_ifaceSetDown` leaves it
  down, monitor mode is never left), and nothing promises it. What is modelled is that
  the next attempt copes with it.

## 7 Plan

Done: every component with state of its own is modelled and checked, in composition
where components interact, with restarts of the programs and repeated attempts at the
interface; every invariant, action property and refinement the runs check is proved.

Next:

1. `CaptureIndexBounded` for the other invariants of the receiver, and `IsDecoder` composed with
   them: what `SmartLinkRx_proofs` says of frames, said of packets.
2. A characterisation of `Deliverable` that does not quantify over frames: which bytes
   may follow each other in a password.
3. The safety part of `DeIntReturns` and `DeInitEnds`: that no reachable state has all threads
   waiting, as an invariant with a proof.
4. `PacketHolds` with the payload bound as a function of the radiotap length.
