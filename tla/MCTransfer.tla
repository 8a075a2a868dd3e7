----------------------------- MODULE MCTransfer -----------------------------
(***************************************************************************)
(* Instances of Transfer for TLC.                                          *)
(***************************************************************************)
EXTENDS Transfer

\* One file of two blocks.
OneFile == <<2>>

\* Two files: a held one of one block, one of three blocks.
TwoFiles == <<1, 3>>

TwoFileSeeds == {<<0, 0>>, <<1, 0>>}

FromScratch == {<<0>>}
=============================================================================
