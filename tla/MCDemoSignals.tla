--------------------------- MODULE MCDemoSignals ----------------------------
(***************************************************************************)
(* Instances of DemoSignals; the constants are in the .cfg files.          *)
(***************************************************************************)
EXTENDS DemoSignals
=============================================================================
