---------------------------- MODULE SmartLinkTx -----------------------------
(***************************************************************************)
(* The transmitter of smartlinktx.c: one context SmartLinkTx_t, the thread *)
(* that creates and destroys it, and the threads that send through it.     *)
(* The mutex of the context is all that separates their rounds: sequence   *)
(* number and socket are shared.                                           *)
(***************************************************************************)
EXTENDS SmartLinkCodec, Sockets, FiniteSets

CONSTANTS
  Senders,    \* threads calling smartlinkTxSend
  Payloads,   \* what they send
  BlockSize,  \* bytes that malloc(1) really provides (24 with 64-bit glibc)
  Nobody,     \* the mutex is free
  Idle,       \* see FrameSource
  Silence

Owner == "owner"      \* the thread calling smartlinktTxInit and smartlinkTxDeInt

ASSUME TxAssumption ==
  /\ Payloads \subseteq Seq(Byte) /\ Idle \notin Payloads
  /\ BlockSize \in Nat \ {0}
  /\ Owner \notin Senders /\ Nobody \notin Senders \cup {Owner}

VARIABLES
  context,      \* "none", "live" or "freed"; "undefined" after a heap overrun
  sockfd,       \* field of the context
  u32Sequence,  \* field of the context, shared by the senders
  holder,       \* thread holding the mutex of the context, or Nobody
  openFds,      \* descriptors open in the process
  owner,        \* where the owner is
  call,         \* per sender: where it is, and the locals of its call
  sent          \* length the last sendto broadcast, Silence if it failed

txVars == <<context, sockfd, u32Sequence, holder, openFds, owner, call, sent>>

\* Not in smartlinkTxSend.
Out == [at |-> "out", input |-> <<>>, u8Index |-> 0, sendlen |-> <<0, 0>>]

TxInit ==
  /\ context     = "none"
  /\ sockfd      = INVALID_SOCKET
  /\ u32Sequence = 0
  /\ holder      = Nobody
  /\ openFds     = {}
  /\ owner       = "out"
  /\ call        = [t \in Senders |-> Out]
  /\ sent        = Silence

At(t, l)   == context = "live" /\ call[t].at = l
GoTo(t, l) == call' = [call EXCEPT ![t].at = l]

\* MUTEX_LOCK and MUTEX_UNLOCK
Acquire(t) == holder = Nobody /\ holder' = t
Release    == holder' = Nobody

-----------------------------------------------------------------------------
(***************************************************************************)
(* smartlinktTxInit.  Nobody has the handle yet, so it is one step.  Every *)
(* context is independent of the others: one is followed from its creation *)
(* to its end, the caller retrying until it gets it.                       *)
(***************************************************************************)
InitSucceeds(fd) ==
  /\ context = "none"
  /\ fd \in Created(openFds) /\ Valid(fd)
  /\ context' = "live"
  /\ sockfd'  = fd
  /\ openFds' = openFds \cup {fd}
  /\ UNCHANGED <<u32Sequence, holder, owner, call, sent>>

\* Mutant: the socket is not closed.
InitFailsLeaks(fd) ==
  /\ context = "none"
  /\ fd \in Created(openFds) \ {INVALID_SOCKET}
  /\ openFds' = openFds \cup {fd}
  /\ UNCHANGED <<context, sockfd, u32Sequence, holder, owner, call, sent>>

\* SO_BROADCAST or SO_BINDTODEVICE is refused, or the descriptor is 0.
InitFails(fd) ==
  /\ context = "none"
  /\ fd \in Created(openFds) \ {INVALID_SOCKET}
  /\ openFds' = StillOpen(openFds \cup {fd}, fd)
  /\ UNCHANGED <<context, sockfd, u32Sequence, holder, owner, call, sent>>

-----------------------------------------------------------------------------
(***************************************************************************)
(* smartlinkTxSend                                                         *)
(***************************************************************************)
\* The handle is valid when the call is made.  (A call whose malloc fails
\* returns at once.)
Call(t, p) ==
  /\ At(t, "out")
  /\ call' = [call EXCEPT ![t].at = "lock", ![t].input = p]
  /\ UNCHANGED <<context, sockfd, u32Sequence, holder, openFds, owner, sent>>

\* START, payload and END are written to a block of sizeof(length) bytes,
\* before the mutex is locked.  If they go beyond what malloc provides, what
\* stood there is lost: either nobody needs it (Call), or anything may follow.
Overrun(t, p) ==
  /\ At(t, "out")
  /\ Len(p) + 2 > BlockSize
  /\ context' = "undefined"
  /\ UNCHANGED <<sockfd, u32Sequence, holder, openFds, owner, call, sent>>

\* Mutants: the sequence number goes on from the round before; the mutex is
\* not waited for.
LockNoReset(t) ==
  /\ At(t, "lock")
  /\ Acquire(t)
  /\ GoTo(t, "loop")
  /\ UNCHANGED <<context, sockfd, u32Sequence, openFds, owner, sent>>

LockRegardless(t) ==
  /\ At(t, "lock")
  /\ holder' = t
  /\ u32Sequence' = 0
  /\ GoTo(t, "loop")
  /\ UNCHANGED <<context, sockfd, openFds, owner, sent>>

Lock(t) ==
  /\ At(t, "lock")
  /\ Acquire(t)
  /\ u32Sequence' = 0
  /\ GoTo(t, "loop")
  /\ UNCHANGED <<context, sockfd, openFds, owner, sent>>

More(c) == c.u8Index < MessageLen(c.input)

Encode(t) ==
  /\ At(t, "loop") /\ More(call[t])
  /\ call' = [call EXCEPT ![t].at = "send0", ![t].sendlen =
       <<SendLen0(call[t].input, call[t].u8Index, u32Sequence),
         SendLen1(call[t].input, call[t].u8Index, (u32Sequence + 1) % U8)>>]
  /\ u32Sequence' = (u32Sequence + 2) % U8
  /\ UNCHANGED <<context, sockfd, holder, openFds, owner, sent>>

\* sendto may fail, and is not tried on an invalid socket; smartlinkTxSend
\* does not look at the result.
SendTo(len) == IF Valid(sockfd) THEN sent' \in {len, Silence} ELSE UNCHANGED sent

\* Mutant: a failed sendto ends the call, with the mutex locked.
Send0Returns(t) ==
  /\ At(t, "send0")
  /\ SendTo(call[t].sendlen[1])
  /\ IF sent' = Silence THEN call' = [call EXCEPT ![t] = Out] ELSE GoTo(t, "send1")
  /\ UNCHANGED <<context, sockfd, u32Sequence, holder, openFds, owner>>

Send0(t) ==
  /\ At(t, "send0")
  /\ SendTo(call[t].sendlen[1])
  /\ GoTo(t, "send1")
  /\ UNCHANGED <<context, sockfd, u32Sequence, holder, openFds, owner>>

Send1(t) ==
  /\ At(t, "send1")
  /\ SendTo(call[t].sendlen[2])
  /\ GoTo(t, "delay")
  /\ UNCHANGED <<context, sockfd, u32Sequence, holder, openFds, owner>>

Delay(t) ==
  /\ At(t, "delay")
  /\ call' = [call EXCEPT ![t].at = "loop", ![t].u8Index = (@ + 1) % U8]
  /\ UNCHANGED <<context, sockfd, u32Sequence, holder, openFds, owner, sent>>

\* Mutant: the mutex is not given back.
UnlockForgotten(t) ==
  /\ At(t, "loop") /\ ~More(call[t])
  /\ call' = [call EXCEPT ![t] = Out]
  /\ UNCHANGED <<context, sockfd, u32Sequence, holder, openFds, owner, sent>>

Unlock(t) ==
  /\ At(t, "loop") /\ ~More(call[t])
  /\ Release
  /\ call' = [call EXCEPT ![t] = Out]
  /\ UNCHANGED <<context, sockfd, u32Sequence, openFds, owner, sent>>

\* The mutex does not protect the context itself: a call that smartlinkTxDeInt
\* overtook touches it after free, and what follows is undefined.
Stray(t) ==
  /\ context = "freed"
  /\ call[t].at \notin {"out", "stray"}
  /\ GoTo(t, "stray")
  /\ UNCHANGED <<context, sockfd, u32Sequence, holder, openFds, owner, sent>>

-----------------------------------------------------------------------------
(***************************************************************************)
(* smartlinkTxDeInt                                                        *)
(***************************************************************************)
OwnerGoes(from, to) == context = "live" /\ owner = from /\ owner' = to

DeInt ==
  /\ OwnerGoes("out", "lock")
  /\ UNCHANGED <<context, sockfd, u32Sequence, holder, openFds, call, sent>>

\* Mutant: the socket is closed without the mutex.
CloseUnlocked ==
  /\ OwnerGoes("lock", "free")
  /\ openFds' = StillOpen(openFds, sockfd)
  /\ sockfd'  = Closed(sockfd)
  /\ UNCHANGED <<context, u32Sequence, holder, call, sent>>

Close ==
  /\ OwnerGoes("lock", "unlock")
  /\ Acquire(Owner)
  /\ openFds' = StillOpen(openFds, sockfd)
  /\ sockfd'  = Closed(sockfd)
  /\ UNCHANGED <<context, u32Sequence, call, sent>>

UnlockClosed ==
  /\ OwnerGoes("unlock", "free")
  /\ Release
  /\ UNCHANGED <<context, sockfd, u32Sequence, openFds, call, sent>>

\* SMART_FREE
Free ==
  /\ OwnerGoes("free", "out")
  /\ context' = "freed"
  /\ UNCHANGED <<sockfd, u32Sequence, holder, openFds, call, sent>>

SenderStep(t) ==
  Lock(t) \/ Encode(t) \/ Send0(t) \/ Send1(t) \/ Delay(t) \/ Unlock(t) \/ Stray(t)

OwnerStep == Close \/ UnlockClosed \/ Free

TxNext ==
  \/ \E fd \in Fds : InitSucceeds(fd) \/ InitFails(fd)
  \/ \E t \in Senders, p \in Payloads : Call(t, p) \/ Overrun(t, p)
  \/ \E t \in Senders : SenderStep(t)
  \/ DeInt \/ OwnerStep

TxSpec == TxInit /\ [][TxNext]_txVars

\* A running thread keeps running.  Nothing is assumed of the mutex: glibc's
\* default one is not fair.
TxFairSpec == TxSpec /\ WF_txVars(OwnerStep) /\ \A t \in Senders : WF_txVars(SenderStep(t))

-----------------------------------------------------------------------------
(***************************************************************************)
(* Properties                                                              *)
(***************************************************************************)
Inside(t) == call[t].at \in {"loop", "send0", "send1", "delay"}

\* The fields keep their types, a descriptor in the context is open, and only
\* the holder of the mutex is inside the loop.
TxTypeOK ==
  /\ context \in {"none", "live", "freed", "undefined"}
  /\ sockfd \in Fds \cup {INVALID_SOCKET} /\ (Valid(sockfd) => sockfd \in openFds)
  /\ u32Sequence \in Byte
  /\ holder \in Senders \cup {Owner, Nobody}
  /\ openFds \subseteq Fds
  /\ owner \in {"out", "lock", "unlock", "free"}
  /\ \A t \in Senders :
       /\ call[t].at \in {"out", "lock", "loop", "send0", "send1", "delay", "stray"}
       /\ call[t].u8Index \in Byte
       /\ Inside(t) => holder = t

\* The shared sequence number stays in step with the loop index that is local
\* to the sender: no other thread's increments get in between.
SequenceFollowsIndex ==
  \A t \in Senders : Inside(t) =>
    u32Sequence = (2 * call[t].u8Index + (IF call[t].at = "loop" THEN 0 ELSE 2)) % U8

\* Longest payload of which it is certain that sendto stays within packet.
SafeLen == 38

\* The lengths of a round of at most SafeLen bytes are ones that the array
\* packet holds and that recvfrom at the other end does not cut: sendto reads
\* PACKET_MAX bytes at most.  With one byte more, END may be 1551 bytes long.
PacketHolds ==
  \A t \in Senders, i \in {1, 2} : Len(call[t].input) <= SafeLen =>
    /\ call[t].sendlen[i] <= PACKET_MAX
    /\ Captured(call[t].sendlen[i]) = call[t].sendlen[i]

\* Senders that share a context never mix their rounds: what the socket emits
\* is a FrameSource.  A round on the closed socket emits nothing.
Sending == holder \in Senders /\ Valid(sockfd) /\ Inside(holder)

FramesDone(c) == 2 * c.u8Index + (CASE c.at = "send1" -> 1
                                    [] c.at = "delay" -> 2
                                    [] OTHER -> 0)

Source == INSTANCE FrameSource WITH
  round <- IF Sending THEN call[holder].input ELSE Idle,
  next  <- IF Sending THEN FramesDone(call[holder]) ELSE 0

ImplementsFrameSource == Source!SourceSpec

\* Nothing is broadcast once smartlinkTxDeInt has closed the socket, even by
\* the senders that were waiting for the mutex, and the socket is not closed
\* in the middle of a round.
SilentAfterClose ==
  [][/\ sent' \notin {sent, Silence} => owner \in {"out", "lock"}
     /\ Sending => sockfd' = sockfd]_txVars

\* Every path gives its descriptor back, but for descriptor 0.
OnlyZeroLeaks == openFds \subseteq {0, sockfd}

\* A round ends: the mutex is always given back while the context lives.
RoundsEnd == \A t \in Senders : holder = t ~> holder # t \/ context # "live"

\* smartlinkTxDeInt returns once the callers stop calling; as long as they go
\* on they may overtake it, the mutex being unfair.
DeIntReturns ==
  <>[][\A t \in Senders, p \in Payloads : ~ Call(t, p)]_txVars
    => (owner = "lock" ~> context # "live")
=============================================================================
