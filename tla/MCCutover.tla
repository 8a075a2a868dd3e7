----------------------------- MODULE MCCutover -----------------------------
(***************************************************************************)
(* Instances of Cutover for TLC.                                           *)
(***************************************************************************)
EXTENDS Cutover

AllEngines == {"receiver", "newSender", "ackedSender"}
=============================================================================
