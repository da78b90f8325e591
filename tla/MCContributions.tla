--------------------------- MODULE MCContributions ---------------------------
(* Constants for model-checking Contributions.                             *)
EXTENDS Contributions, TLC

CONSTANTS u1, u2, p1, i1, g1, g2, h1, h2

\* u1 opened p1 in the year before its merge.
OneAuthor == [p \in Pulls |-> u1]
OpenYears == (p1 :> 1) @@ (i1 :> 2)
MergeYears == (p1 :> 2)
\* g1 asks for two contributions of the second year, g2 for a mention in the first.
GitPOAPYears == (g1 :> 2) @@ (g2 :> 1)
Thresholds == (g1 :> 2) @@ (g2 :> 1)

ACall(kind, item, users) == [kind |-> kind, item |-> item, users |-> users]
AllCalls ==
    {ACall("merged", p1, <<u1>>), ACall("updater", p1, <<u1>>), ACall("backload", p1, <<u1>>),
     ACall("mention", p1, <<u1, u2>>),
     ACall("issue", i1, <<u1>>), ACall("staff", g1, <<u2, u1>>)}

HandlerSymmetry == Permutations(Handlers)
=============================================================================
