------------------------------ MODULE MCDurable ------------------------------
(***************************************************************************)
(* Instances of Durable for TLC.                                           *)
(***************************************************************************)
EXTENDS Durable, TLC

CONSTANTS a, f1, f2, p1, p2

OneId == {a}
TwoFps == {f1, f2}
TwoPeers == {p1, p2}

\* Two files, the first of two blocks.
TwoFiles == <<2, 1>>

Symmetry == Permutations(TwoFps) \cup Permutations(TwoPeers)
=============================================================================
