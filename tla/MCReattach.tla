----------------------------- MODULE MCReattach -----------------------------
(***************************************************************************)
(* The instance of Reattach for TLC.                                       *)
(***************************************************************************)
EXTENDS Reattach

\* The source as it was and as an edit leaves it.
MCContents == {"a", "b"}
=============================================================================
