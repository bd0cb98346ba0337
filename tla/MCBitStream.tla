---------------------------- MODULE MCBitStream -----------------------------
(***************************************************************************)
(* A stream over one byte of memory, and one over five.                    *)
(***************************************************************************)
EXTENDS BitStreamClient

\* The codes of the values written are at most 59 bits long.
ASSUME CodesHypothesis == ShortCodes

MCCounts == -1..3
MCMemory == {<<165>>, <<0, 255, 76, 129, 30>>}
=============================================================================
