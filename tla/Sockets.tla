------------------------------ MODULE Sockets -------------------------------
(***************************************************************************)
(* Descriptors, the way common.h and sockets.c treat them: the creating    *)
(* functions take every descriptor but -1 for good, everything else takes  *)
(* 0 for no descriptor at all.                                             *)
(***************************************************************************)
EXTENDS Integers

CONSTANT Fds    \* descriptors socket() may return

ASSUME FdsAssumption == Fds \subseteq Nat

INVALID_SOCKET == -1

\* What createUdpSocket or createRawSocket may return while open are in use.
Created(open) == (Fds \ open) \cup {INVALID_SOCKET}

\* ST_CHECK_SOCKET
Valid(fd) == fd > 0

\* Mutants of CLOSE_SOCKET: the field keeps the descriptor; it stays open.
ClosedKept(fd)          == fd
StillOpenLeak(open, fd) == open

\* CLOSE_SOCKET: the field afterwards, and the descriptors still open.
Closed(fd)          == IF fd > 0 THEN INVALID_SOCKET ELSE fd
StillOpen(open, fd) == IF fd > 0 THEN open \ {fd} ELSE open
=============================================================================
