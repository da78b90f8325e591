------------------------------ MODULE MCLogins ------------------------------
(* Constants for model-checking Logins.                                    *)
EXTENDS Logins, TLC

CONSTANTS h1, h2, l1, l2, a1, a2

MCOwner == (l1 :> a1) @@ (l2 :> a2)

\* The two logins and their addresses may be exchanged together.
Exchanged == (l1 :> l2) @@ (l2 :> l1) @@ (a1 :> a2) @@ (a2 :> a1)
Symmetry == Permutations(Handlers) \cup {Exchanged @@ p : p \in Permutations(Handlers)}
=============================================================================
