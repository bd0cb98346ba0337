--------------------------- MODULE NibbleTransfer ---------------------------
(***************************************************************************)
(* What the two programs promise together, without lengths, flags or       *)
(* buffers: the receiver holds a prefix of the nibbles of one message,     *)
(* extends it nibble by nibble, gives it up only when it holds nothing but *)
(* the first one or is started again, and hands the message over once the  *)
(* prefix is complete.                                                     *)
(* SmartLink implements this for the payloads it can carry.                *)
(***************************************************************************)
EXTENDS Integers, Sequences

CONSTANT Nothing          \* no text was handed over

VARIABLES
  message,   \* the payload being transferred
  held,      \* number of nibbles of the framed message the receiver holds
  text       \* the text handed to the user, or Nothing

Total == 2 * (Len(message) + 2)

Extend ==
  /\ held < Total - 1
  /\ held' = held + 1
  /\ UNCHANGED <<message, text>>

Restart ==
  /\ held = 1
  /\ held' = 0
  /\ UNCHANGED <<message, text>>

\* The receiving program is started again.
Anew ==
  /\ held' = 0
  /\ text' = Nothing
  /\ UNCHANGED message

HandOver ==
  /\ held = Total - 1
  /\ held' = Total
  /\ text' = message
  /\ UNCHANGED message

TransferInit == held = 0 /\ text = Nothing

TransferNext == Extend \/ Restart \/ Anew \/ HandOver

TransferSpec == TransferInit /\ [][TransferNext]_<<message, held, text>>
=============================================================================
