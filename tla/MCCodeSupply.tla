---------------------------- MODULE MCCodeSupply ----------------------------
(* Constants for model-checking CodeSupply.                                *)
EXTENDS CodeSupply, TLC

CONSTANTS k1, m1, p1, u1

\* One user does what a claim or a PUT /:id/claims does, one at a time.
ClaimsOrAdds == {m1}
=============================================================================
