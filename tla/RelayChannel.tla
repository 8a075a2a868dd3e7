---------------------------- MODULE RelayChannel ----------------------------
(***************************************************************************)
(* What relay.Conn promises the transfer ("a bounded, bidirectional        *)
(* transfer byte path"), for one direction: a frame arrives at most once,  *)
(* and never more than one window of them is on the way.  Until the        *)
(* channel breaks they arrive in the order they were sent, none missing.   *)
(***************************************************************************)
EXTENDS Naturals, FiniteSets

CONSTANT Bound   \* frames in one window

VARIABLES sent,    \* frames put in
          taken,   \* the numbers of those handed to the consumer
          broken   \* order and completeness are over

chVars == <<sent, taken, broken>>

Init == sent = 0 /\ taken = {} /\ broken = FALSE

Put ==
    /\ sent - Cardinality(taken) < Bound
    /\ sent' = sent + 1
    /\ UNCHANGED <<taken, broken>>

\* The frame that breaks the order is itself handed over.
Take ==
    /\ \E n \in (1 .. sent) \ taken :
         /\ taken' = taken \cup {n}
         /\ ~broken' => n = Cardinality(taken) + 1
    /\ broken' \in {broken, TRUE}
    /\ UNCHANGED sent

Break ==
    /\ broken' = TRUE
    /\ UNCHANGED <<sent, taken>>

Next == Put \/ Take \/ Break

Spec == Init /\ [][Next]_chVars
=============================================================================
