------------------------ MODULE MCSmartLinkRxThread -------------------------
(***************************************************************************)
(* Instances of SmartLinkRxThread; the constants are in the .cfg files.    *)
(***************************************************************************)
EXTENDS SmartLinkRxThread
=============================================================================
