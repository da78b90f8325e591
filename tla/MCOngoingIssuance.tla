------------------------- MODULE MCOngoingIssuance -------------------------
(* Constants for model-checking OngoingIssuance.                           *)
EXTENDS OngoingIssuance, TLC

\* The pulls' numbers, by which GitHub lists those updated in the same second.
TwoPulls == 1 .. 2

\* Sound for the runs of invariants only.
UpdaterSymmetry == Permutations(Updaters)
=============================================================================
