----------------------------- MODULE MCSignalHub -----------------------------
(***************************************************************************)
(* Instances of SignalHub for TLC.                                         *)
(***************************************************************************)
EXTENDS SignalHub, TLC

CONSTANTS c1, c2, c3

TwoConns == {c1, c2}
ThreeConns == {c1, c2, c3}

OneNumber == {0}

Symmetry == Permutations(Conns)
=============================================================================
