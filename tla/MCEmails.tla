------------------------------ MODULE MCEmails ------------------------------
(* Constants for model-checking Emails.                                    *)
EXTENDS Emails, TLC

CONSTANTS h1, l1, l2, a1, a2, m1, m2, m3, e1, e2

MCOwner == (l1 :> a1) @@ (l2 :> a2)

\* The two logins and their addresses may be exchanged together.
Exchanged == (l1 :> l2) @@ (l2 :> l1) @@ (a1 :> a2) @@ (a2 :> a1)
Exchanges == Permutations(Mailers) \cup {Exchanged @@ p : p \in Permutations(Mailers)}
EmailSymmetry ==
    {p @@ q : p \in Exchanges, q \in Permutations(EmailAddresses)}
=============================================================================
