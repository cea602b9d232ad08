---------------------------- MODULE MCDeltaCheck ----------------------------
(***************************************************************************)
(* A small instance of DeltaCheck: a millisecond is two clock ticks, so    *)
(* that timestamps fall before, on and after its boundaries.               *)
(***************************************************************************)
EXTENDS DeltaCheck

MCOtherHost == {"h2"}
MCGaps == {1, 4, 5}
MCTorn == {"sum", "torn"}
=============================================================================
