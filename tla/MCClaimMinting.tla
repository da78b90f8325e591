--------------------------- MODULE MCClaimMinting ---------------------------
(* Constants for model-checking ClaimMinting.                              *)
EXTENDS ClaimMinting, TLC

CONSTANTS a1, a2, c1, c2, k1, k2, r1, r2, s1, s2, d1

\* A GitHub user's claim, claimable from two addresses, and one issued to a1.
MCOwners == (c1 :> {a1, a2}) @@ (c2 :> {a1})
SharedClaim == [c \in Claims |-> Addresses]
OnlyFirst == {<<c1>>}
BothOrSecond == {<<c1, c2>>, <<c2>>}

\* Bound: a batch of two begins when the other request has no claim after its current one.
OneBatchAhead == Cardinality({r \in Requests : Len(req[r].todo) > 1}) =< 1

CodeRequestSymmetry == Permutations(Codes) \cup Permutations(Requests)
=============================================================================
