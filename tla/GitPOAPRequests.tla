--------------------------- MODULE GitPOAPRequests ---------------------------
(***************************************************************************)
(* One request for a custom GitPOAP (routes/gitpoaps/custom.ts): it is     *)
(* created, edited, rejected, or approved, upon which a POAP event, the    *)
(* GitPOAP and the claims of its contributors are made.  Every await of    *)
(* the handlers is a step, and a handler may be cut short at each.         *)
(***************************************************************************)
EXTENDS Integers, FiniteSets

CONSTANTS Approvers, Rejecters, Editors,  \* the handlers, one call each
          Contributors,
          Account,    \* Account[c]: whose claim contributor c gets; an ENS name
                      \* and an address may denote the same
          MinCodes, Buffer, MaxCodes,     \* CUSTOM_GITPOAP_* of constants.ts
          NoRequest, NoGitPOAP

Handlers == Approvers \cup Rejecters \cup Editors
Accounts == {Account[c] : c \in Contributors}

ASSUME GitPOAPRequestsAssumption ==
    /\ Approvers \cap Rejecters = {} /\ Approvers \cap Editors = {}
    /\ Rejecters \cap Editors = {}
    /\ IsFiniteSet(Contributors)
    /\ DOMAIN Account = Contributors
    /\ MinCodes \in Nat /\ Buffer \in Nat /\ MaxCodes \in Nat
    /\ NoGitPOAP \notin Approvers

VARIABLES request,   \* the GitPOAPRequest row
          gitPOAPs,  \* the GitPOAP that each approval has created
          claims,    \* claims: the GitPOAP (by its approval) and the account
          hand,      \* the handlers
          missed,    \* history: contributors whom an approval could not look up
          cut,       \* history: approvals that ended between APPROVED and their end
          blind      \* history: handlers that wrote over a status they had not seen

history == <<missed, cut, blind>>
vars == <<request, gitPOAPs, claims, hand, history>>

Statuses == {"PENDING", "APPROVED", "REJECTED"}
Request == [status : Statuses, contributors : SUBSET Contributors, numRequestedCodes : Nat,
            gitPOAP : Approvers \cup {NoGitPOAP}]
\* What a GitPOAP was made from: the codes asked of POAP, the contributors of the
\* row as the approval read it, and those of the row as it was set APPROVED.
GitPOAP == [codes : Nat, copied : SUBSET Contributors, contributors : SUBSET Contributors]
\* row: the handler's copy; updated: the contributors of updatedGitPOAPRequest.
Hand == [at : {"idle", "image", "approve", "event", "reset", "create", "claims",
               "reject", "write", "done", "dead"},
         row : Request \cup {NoRequest}, updated : SUBSET Contributors]
Idle == [at |-> "idle", row |-> NoRequest, updated |-> {}]

ASSUME NullsAssumption == NoRequest \notin Request /\ NoGitPOAP \notin GitPOAP

TypeOK ==
    /\ request \in Request \cup {NoRequest}
    /\ gitPOAPs \in [Approvers -> GitPOAP \cup {NoGitPOAP}]
    /\ claims \subseteq {a \in Approvers : gitPOAPs[a] # NoGitPOAP} \X Accounts
    /\ hand \in [Handlers -> Hand]
    /\ missed \subseteq Approvers \X Contributors
    /\ cut \subseteq Handlers
    /\ blind \subseteq Handlers

Init ==
    /\ request = NoRequest
    /\ gitPOAPs = [a \in Approvers |-> NoGitPOAP]
    /\ claims = {}
    /\ hand = [h \in Handlers |-> Idle]
    /\ missed = {} /\ cut = {} /\ blind = {}

Larger(m, n) == IF m > n THEN m ELSE n
chooseNumberOfRequestedCodes(people) ==
    LET required == Larger(MinCodes, Buffer + Cardinality(people))
    IN  IF required > MaxCodes THEN MaxCodes ELSE required

\* Writing the status without knowing the one that is there.
Overwrite(h, expected, row) ==
    /\ request' = row
    /\ blind' = IF request.status = expected THEN blind ELSE blind \cup {h}

Goto(h, step) == hand' = [hand EXCEPT ![h].at = step]
End(h) == hand' = [hand EXCEPT ![h] = [Idle EXCEPT !.at = "done"]]

-----------------------------------------------------------------------------
\* POST /gitpoaps/custom. Whatever fails on the way leaves no request.
Create ==
    /\ request = NoRequest
    /\ \E people \in SUBSET Contributors :
          request' = [status |-> "PENDING", contributors |-> people,
                      numRequestedCodes |-> chooseNumberOfRequestedCodes(people),
                      gitPOAP |-> NoGitPOAP]
    /\ UNCHANGED <<gitPOAPs, claims, hand, history>>

\* Every handler begins by reading the row; an approved request is left alone.
Read(h, step, final) ==
    /\ hand[h].at = "idle" /\ request # NoRequest
    /\ IF request.status \in final THEN End(h)
       ELSE hand' = [hand EXCEPT ![h] = [at |-> step, row |-> request, updated |-> {}]]
    /\ UNCHANGED <<request, gitPOAPs, claims, history>>

-----------------------------------------------------------------------------
(* PUT /gitpoaps/custom/approve/:id                                        *)

\* Mutant: the status is not looked at.
ReadForApprovalAny(a) == a \in Approvers /\ Read(a, "image", {})

ReadForApproval(a) == a \in Approvers /\ Read(a, "image", {"APPROVED"})

FetchImage(a) ==
    /\ hand[a].at = "image"
    /\ Goto(a, "approve") \/ End(a)
    /\ UNCHANGED <<request, gitPOAPs, claims, history>>

\* Mutant: the contributors are taken from the first copy.
ApproveByCopy(a) ==
    /\ hand[a].at = "approve"
    /\ Overwrite(a, hand[a].row.status, [request EXCEPT !.status = "APPROVED"])
    /\ hand' = [hand EXCEPT ![a] = [at |-> "event", row |-> @.row, updated |-> @.row.contributors]]
    /\ UNCHANGED <<gitPOAPs, claims, missed, cut>>

\* The update returns the row, from which the contributors will be taken.
Approve(a) ==
    /\ hand[a].at = "approve"
    /\ Overwrite(a, hand[a].row.status, [request EXCEPT !.status = "APPROVED"])
    /\ hand' = [hand EXCEPT ![a] = [at |-> "event", row |-> @.row, updated |-> request.contributors]]
    /\ UNCHANGED <<gitPOAPs, claims, missed, cut>>

\* Mutant: the status stays APPROVED when the call fails.
CreateEventOnly(a) ==
    /\ hand[a].at = "event"
    /\ Goto(a, "create") \/ End(a)
    /\ UNCHANGED <<request, gitPOAPs, claims, history>>

\* POAP has made the event, or the call has failed, or its reply was lost.
CreateEvent(a) ==
    /\ hand[a].at = "event"
    /\ Goto(a, "create") \/ Goto(a, "reset")
    /\ UNCHANGED <<request, gitPOAPs, claims, history>>

\* The token for the POAP API cannot be fetched: an exception leaves the handler.
TokenFails(a) ==
    /\ hand[a].at = "event"
    /\ Goto(a, "dead")
    /\ cut' = cut \cup {a}
    /\ UNCHANGED <<request, gitPOAPs, claims, missed, blind>>

Reset(a) ==
    /\ hand[a].at = "reset"
    /\ Overwrite(a, "APPROVED", [request EXCEPT !.status = "PENDING"])
    /\ End(a)
    /\ UNCHANGED <<gitPOAPs, claims, missed, cut>>

\* convertGitPOAPRequestToGitPOAP works on the copy; the request is connected
\* to the new GitPOAP, and no longer to an earlier one.
CreateGitPOAP(a) ==
    /\ hand[a].at = "create"
    /\ gitPOAPs' = [gitPOAPs EXCEPT ![a] =
          [codes |-> hand[a].row.numRequestedCodes, copied |-> hand[a].row.contributors,
           contributors |-> hand[a].updated]]
    /\ request' = [request EXCEPT !.gitPOAP = a]
    /\ Goto(a, "claims")
    /\ UNCHANGED <<claims, history>>

\* createClaimsForContributors: an upsert for each, or nobody is found.
MakeClaim(a) ==
    /\ hand[a].at = "claims"
    /\ \E c \in hand[a].updated :
          /\ \/ claims' = claims \cup {<<a, Account[c]>>} /\ UNCHANGED missed
             \/ missed' = missed \cup {<<a, c>>} /\ UNCHANGED claims
          /\ hand' = [hand EXCEPT ![a].updated = @ \ {c}]
    /\ UNCHANGED <<request, gitPOAPs, cut, blind>>

FinishApproval(a) ==
    /\ hand[a].at = "claims" /\ hand[a].updated = {}
    /\ End(a)
    /\ UNCHANGED <<request, gitPOAPs, claims, history>>

-----------------------------------------------------------------------------
(* PUT /gitpoaps/custom/reject/:id and PATCH /gitpoaps/custom/:id          *)

ReadForRejection(j) == j \in Rejecters /\ Read(j, "reject", {"APPROVED", "REJECTED"})

Reject(j) ==
    /\ hand[j].at = "reject"
    /\ Overwrite(j, hand[j].row.status, [request EXCEPT !.status = "REJECTED"])
    /\ End(j)
    /\ UNCHANGED <<gitPOAPs, claims, missed, cut>>

ReadForEdit(e) == e \in Editors /\ Read(e, "write", {"APPROVED"})

\* Mutant: the number of codes is not adapted.
EditPeople(e) ==
    /\ hand[e].at = "write"
    /\ \E people \in SUBSET Contributors :
          Overwrite(e, hand[e].row.status,
              [request EXCEPT !.status = "PENDING", !.contributors = people])
    /\ End(e)
    /\ UNCHANGED <<gitPOAPs, claims, missed, cut>>

\* With or without new contributors, whose number decides about the codes.
Edit(e) ==
    /\ hand[e].at = "write"
    /\ \E people \in SUBSET Contributors, edited \in BOOLEAN :
          Overwrite(e, hand[e].row.status,
              [request EXCEPT
                  !.status = "PENDING",
                  !.contributors = IF edited THEN people ELSE @,
                  !.numRequestedCodes = IF edited THEN chooseNumberOfRequestedCodes(people)
                                        ELSE @])
    /\ End(e)
    /\ UNCHANGED <<gitPOAPs, claims, missed, cut>>

UploadFails(e) ==
    /\ hand[e].at = "write"
    /\ End(e)
    /\ UNCHANGED <<request, gitPOAPs, claims, history>>

-----------------------------------------------------------------------------
\* The server stops while the handler runs.
Crash(h) ==
    /\ hand[h].at \notin {"idle", "done", "dead"}
    /\ Goto(h, "dead")
    /\ cut' = IF hand[h].at \in {"event", "reset", "create", "claims"} THEN cut \cup {h} ELSE cut
    /\ UNCHANGED <<request, gitPOAPs, claims, missed, blind>>

ApprovalStep(a) ==
    \/ ReadForApproval(a) \/ FetchImage(a) \/ Approve(a) \/ CreateEvent(a) \/ TokenFails(a)
    \/ Reset(a) \/ CreateGitPOAP(a) \/ MakeClaim(a) \/ FinishApproval(a)

Next ==
    \/ Create
    \/ \E a \in Approvers : ApprovalStep(a)
    \/ \E j \in Rejecters : ReadForRejection(j) \/ Reject(j)
    \/ \E e \in Editors : ReadForEdit(e) \/ Edit(e) \/ UploadFails(e)
    \/ \E h \in Handlers : Crash(h)

Spec == Init /\ [][Next]_vars

-----------------------------------------------------------------------------
Quiet == \A h \in Handlers : hand[h].at \in {"idle", "done", "dead"}
Made == {a \in Approvers : gitPOAPs[a] # NoGitPOAP}

\* A request is decided once: it has at most one GitPOAP, and is APPROVED if it
\* has one, whatever calls fail, are repeated or cut short, provided that no
\* handler writes a status over one that it has not read.
DecidedOnce ==
    blind = {} => /\ \A a, b \in Made : a = b
                  /\ Made # {} => request.status = "APPROVED"

\* Even when handlers do overtake each other: a request that ends up APPROVED
\* has a GitPOAP, unless an approval was cut short. The last approval to write
\* APPROVED goes on to create it or else takes APPROVED back.
ApprovedHaveGitPOAPs ==
    Quiet /\ request # NoRequest /\ cut = {} =>
        (request.status = "APPROVED" => request.gitPOAP # NoGitPOAP)

\* And the contributors it has then got their claims, also those that were
\* added between the approval's first reading and its update.
ContributorsHaveClaims ==
    Quiet /\ request # NoRequest /\ cut = {} /\ request.status = "APPROVED" =>
        \E a \in Made : \A c \in request.contributors :
            <<a, Account[c]>> \in claims \/ <<a, c>> \in missed

\* A GitPOAP is made with a code for every contributor and some to spare, up to
\* the most that is asked for, if its contributors did not change after the
\* approval read them.
EnoughCodes ==
    \A a \in Made :
        LET g == gitPOAPs[a]
            people == {Account[c] : c \in g.contributors}
        IN  g.copied = g.contributors =>
                g.codes >= MaxCodes \/ g.codes >= Buffer + Cardinality(people)

-----------------------------------------------------------------------------
(* Why DecidedOnce holds: an inductive invariant.                          *)

\* A handler at work has a copy that is not APPROVED.
CopiesAreOpen ==
    \A h \in Handlers : hand[h].at \notin {"idle", "done", "dead"} =>
        /\ request # NoRequest
        /\ hand[h].row \in Request /\ hand[h].row.status # "APPROVED"

ClaimsFollowGitPOAPs ==
    \A a \in Approvers : /\ hand[a].at = "claims" => a \in Made
                         /\ a \in Made => request # NoRequest

\* An approval that has decided about the request.
Engaged(a) == hand[a].at \in {"event", "reset", "create", "claims"} \/ a \in Made

OneDecision ==
    blind = {} =>
        /\ \A a \in Approvers : Engaged(a) => request.status = "APPROVED"
        /\ \A a, b \in Approvers : Engaged(a) /\ Engaged(b) => a = b
        /\ \A a \in Approvers : hand[a].at \in {"event", "reset", "create"} => a \notin Made

DecisionInv == TypeOK /\ CopiesAreOpen /\ ClaimsFollowGitPOAPs /\ OneDecision

\* Why EnoughCodes holds: whoever sets the contributors sets the number as well.
NumbersFit ==
    LET fits(row) == row.numRequestedCodes = chooseNumberOfRequestedCodes(row.contributors)
    IN  /\ request # NoRequest => fits(request)
        /\ \A h \in Handlers : hand[h].at \notin {"idle", "done", "dead"} => fits(hand[h].row)
        /\ \A a \in Made :
              gitPOAPs[a].codes = chooseNumberOfRequestedCodes(gitPOAPs[a].copied)

\* Why a request that ends up APPROVED has a GitPOAP and its contributors have claims:
\* until then an approval is on its way there, for all of the row's contributors.
Owing(a) == hand[a].at \in {"event", "reset", "create"}

Served(a, c) ==
    \/ c \in hand[a].updated /\ (Owing(a) \/ hand[a].at = "claims")
    \/ <<a, Account[c]>> \in claims
    \/ <<a, c>> \in missed

ApprovalsGoOn ==
    request # NoRequest /\ request.status = "APPROVED" /\ cut = {} =>
        /\ request.gitPOAP = NoGitPOAP => \E a \in Approvers : Owing(a)
        /\ \E a \in Approvers : /\ Owing(a) \/ a \in Made
                                /\ \A c \in request.contributors : Served(a, c)
=============================================================================
