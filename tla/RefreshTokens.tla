--------------------------- MODULE RefreshTokens ---------------------------
(***************************************************************************)
(* What the backend promises about refresh tokens, whatever its handlers   *)
(* do in between.  A login is a lineage of tokens with growing             *)
(* generations.  Each generation is taken once, and the token that carries *)
(* it is handed out once or never; a purged lineage stays purged.          *)
(***************************************************************************)
EXTENDS Naturals

CONSTANT Lineages

VARIABLES state,  \* state[l]: not yet there, usable, or purged
          last,   \* last[l]: the generation taken last
          taken,  \* taken[l]: generations whose token may still be handed out
          handed  \* handed[l]: generations whose token has been handed out

vars == <<state, last, taken, handed>>

TypeOK ==
    /\ state \in [Lineages -> {"none", "live", "purged"}]
    /\ last \in [Lineages -> Nat]
    /\ taken \in [Lineages -> SUBSET Nat]
    /\ handed \in [Lineages -> SUBSET Nat]

Init ==
    /\ state \in [Lineages -> {"none", "live"}]
    /\ last = [l \in Lineages |-> 0]
    /\ taken = [l \in Lineages |-> {}]
    /\ handed = [l \in Lineages |-> IF state[l] = "live" THEN {0} ELSE {}]

Open(l) ==
    /\ state[l] = "none"
    /\ state' = [state EXCEPT ![l] = "live"]
    /\ taken' = [taken EXCEPT ![l] = {0}]
    /\ UNCHANGED <<last, handed>>

Advance(l) ==
    /\ state[l] = "live"
    /\ last' = [last EXCEPT ![l] = @ + 1]
    /\ taken' = [taken EXCEPT ![l] = @ \cup {last[l] + 1}]
    /\ UNCHANGED <<state, handed>>

\* A token with a generation that was taken is handed out, maybe after its lineage was
\* purged, when it is useless; or it never is.
HandOut(l, g) ==
    /\ taken' = [taken EXCEPT ![l] = @ \ {g}]
    /\ handed' = [handed EXCEPT ![l] = @ \cup {g}]
    /\ UNCHANGED <<state, last>>

Lose(l, g) ==
    /\ taken' = [taken EXCEPT ![l] = @ \ {g}]
    /\ UNCHANGED <<state, last, handed>>

Purge(l) ==
    /\ state[l] = "live"
    /\ state' = [state EXCEPT ![l] = "purged"]
    /\ UNCHANGED <<last, taken, handed>>

Next == \E l \in Lineages :
    \/ Open(l) \/ Purge(l) \/ Advance(l)
    \/ \E g \in taken[l] : HandOut(l, g) \/ Lose(l, g)

Spec == Init /\ [][Next]_vars
=============================================================================
