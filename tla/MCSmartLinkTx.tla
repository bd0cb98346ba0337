--------------------------- MODULE MCSmartLinkTx ----------------------------
(***************************************************************************)
(* Two senders sharing a transmitter with the thread that closes it.       *)
(***************************************************************************)
EXTENDS SmartLinkTx

CONSTANTS t1, t2

MCSenders  == {t1, t2}
\* n bytes of low nibble 15: the first one too many makes END too long.
Long(n)    == [i \in 1..n |-> 15]
MCPayloads == {<<>>, Long(SafeLen), Long(SafeLen + 1), Long(254)}   \* the last has no frames
MCFds      == {0, 3}
=============================================================================
