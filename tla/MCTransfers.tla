----------------------------- MODULE MCTransfers -----------------------------
(* Constants for model-checking Transfers.                                 *)
EXTENDS Transfers

CONSTANTS h1, h2, a1, a2, t1

ClaimedByFirst == [t \in Tokens |-> a1]
=============================================================================
