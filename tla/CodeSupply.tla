----------------------------- MODULE CodeSupply -----------------------------
(***************************************************************************)
(* How one GitPOAP gets its redeem codes: poapApprovalStatus and the       *)
(* handlers that read and write it.  Claims and PUT /:id/claims requests   *)
(* ask POAP for more codes (ensureRedeemCodeThreshold, lib/claims.ts), the *)
(* POAP team answers in its own time, pollers and claims look for the      *)
(* answer (lib/codes.ts), and staff upload codes or deprecate the GitPOAP  *)
(* (routes/gitpoaps/index.ts).  Each handler works on the copy of the row  *)
(* that it read first.                                                     *)
(*                                                                         *)
(* Claims are reduced to the code they take and use or put back;           *)
(* ClaimMinting has them in full.                                          *)
(***************************************************************************)
EXTENDS RedeemCodes

CONSTANTS Claimers,    \* claims of POST /claims requests
          Adders,      \* PUT /:id/claims requests
          Pollers,     \* loops of checkForNewPOAPCodes: one per server, and triggers
          Uploaders,   \* POST /gitpoaps/codes requests
          MinCodes,    \* MINIMUM_REMAINING_REDEEM_CODES
          AskLimit,    \* bound: requests POAP has not answered
          CrashLimit   \* bound: processes that may die

Handlers == Claimers \cup Adders \cup Pollers \cup Uploaders

ASSUME CodeSupplyAssumption ==
    /\ Checkers = Claimers \cup Pollers
    /\ \A S, T \in {Claimers, Adders, Pollers, Uploaders} : S = T \/ S \cap T = {}
    /\ Pollers \cap (Claimers \cup Adders \cup Uploaders) = {}
    /\ MinCodes \in Nat /\ AskLimit \in Nat \ {0} /\ CrashLimit \in Nat

VARIABLES status,      \* poapApprovalStatus
          canRequest,  \* canRequestMoreCodes
          asked,       \* requests for codes that POAP has not answered
          proc,        \* the handlers
          crashes,
          deprecated,  \* history: whether staff deprecated the GitPOAP
          announced,   \* history: how often the first codes were announced
          together     \* history: whether two polls of the UNAPPROVED GitPOAP overlapped

gitPOAPVars == <<status, canRequest>>
supplyHistory == <<deprecated, announced, together>>
vars == <<codeVars, gitPOAPVars, asked, proc, crashes, supplyHistory>>

Statuses == {"UNAPPROVED", "APPROVED", "REDEEM_REQUEST_PENDING", "DEPRECATED"}
Waiting == {"UNAPPROVED", "REDEEM_REQUEST_PENDING"}
Steps == {"idle", "choose", "check", "approve", "rechoose", "redeem", "count", "mark",
          "ask", "failed", "announce", "upload", "done"}

\* status and can are the handler's copy; late: it was read after deprecation.
ProcType == [at : Steps, status : Statuses, can : BOOLEAN, late : BOOLEAN,
             codes : SUBSET Codes]
Idle == [at |-> "idle", status |-> "UNAPPROVED", can |-> FALSE, late |-> FALSE, codes |-> {}]

TypeOK ==
    /\ CodesTypeOK
    /\ status \in Statuses
    /\ canRequest \in BOOLEAN
    /\ asked \in 0 .. AskLimit
    /\ proc \in [Handlers -> ProcType]
    /\ crashes \in 0 .. CrashLimit
    /\ deprecated \in BOOLEAN
    /\ announced \in Nat
    /\ together \in BOOLEAN

\* The GitPOAP was just created, its first codes requested with the POAP event.
Init ==
    /\ redeemCodes = {}
    /\ rowId = [k \in Codes |-> 0]
    /\ poap = [k \in Codes |-> "absent"]
    /\ check = [p \in Checkers |-> NoCheck]
    /\ status = "UNAPPROVED"
    /\ canRequest \in BOOLEAN
    /\ asked = 1
    /\ proc = [p \in Handlers |-> Idle]
    /\ crashes = 0
    /\ deprecated = FALSE
    /\ announced = 0
    /\ together = FALSE

-----------------------------------------------------------------------------

\* A handler that ends forgets its copy of the GitPOAP.
Goto(p, step) ==
    proc' = [proc EXCEPT ![p] = IF step \in {"idle", "done"}
                                THEN [Idle EXCEPT !.at = step, !.codes = proc[p].codes]
                                ELSE [@ EXCEPT !.at = step]]
\* findUnique or findMany of the GitPOAP.
Read(p, step) ==
    proc' = [proc EXCEPT ![p] = [Idle EXCEPT !.at = step, !.status = status, !.can = canRequest,
                                             !.late = deprecated]]

\* checkGitPOAPForNewCodesHelper; the status changes when the stock grew.
CheckCodes(p) ==
    /\ proc[p].at = "check"
    /\ CheckStep(p)
    /\ UNCHANGED <<gitPOAPVars, asked, proc, crashes, supplyHistory>>

CheckEnds(p) ==
    /\ proc[p].at = "check"
    /\ \/ check[p].at = "gained" /\ Goto(p, "approve")
       \/ check[p].at \in {"same", "threw"} /\ Goto(p, IF p \in Pollers THEN "idle" ELSE "done")
    /\ check' = [check EXCEPT ![p] = NoCheck]
    /\ UNCHANGED <<redeemCodes, rowId, poap, gitPOAPVars, asked, crashes, supplyHistory>>

\* Mutant: the status is left as it was.
ApproveLater(p) ==
    /\ proc[p].at = "approve"
    /\ Goto(p, IF p \in Claimers THEN "rechoose"
               ELSE IF proc[p].status = "UNAPPROVED" THEN "announce" ELSE "idle")
    /\ UNCHANGED <<codeVars, gitPOAPVars, asked, crashes, supplyHistory>>

Approve(p) ==
    /\ proc[p].at = "approve"
    /\ status' = "APPROVED"
    /\ Goto(p, IF p \in Claimers THEN "rechoose"
               ELSE IF proc[p].status = "UNAPPROVED" THEN "announce" ELSE "idle")
    /\ UNCHANGED <<codeVars, canRequest, asked, crashes, supplyHistory>>

-----------------------------------------------------------------------------
(* Claims.                                                                 *)

ClaimRead(p) ==
    /\ proc[p].at = "idle"
    /\ Read(p, "choose")
    /\ UNCHANGED <<codeVars, gitPOAPVars, asked, crashes, supplyHistory>>

\* The claim takes a code out of the stock, or ends without (none, or a throw).
ClaimTake(p) ==
    /\ proc[p].at \in {"choose", "rechoose"}
    /\ \/ \E k \in redeemCodes :
             /\ DeleteRow(Row(k))
             /\ proc' = [proc EXCEPT ![p].at = "redeem", ![p].codes = {k}]
       \/ Goto(p, "done") /\ UNCHANGED <<redeemCodes, rowId>>
    /\ UNCHANGED <<poap, check, gitPOAPVars, asked, crashes, supplyHistory>>

\* No code, or one that is used (or whose state POAP did not tell): a code check.
ClaimRunsOut(p) ==
    /\ proc[p].at = "choose"
    /\ \/ redeemCodes = {} /\ UNCHANGED <<redeemCodes, rowId>>
       \/ \E k \in redeemCodes : DeleteRow(Row(k))
    /\ Goto(p, "check")
    /\ check' = [check EXCEPT ![p] = NewCheck]
    /\ UNCHANGED <<poap, gitPOAPVars, asked, crashes, supplyHistory>>

\* redeemPOAP uses the code up, or fails and the code is put back, used up or not.
\* It throws when POAP's token cannot be fetched, and the code is in neither place.
ClaimRedeem(p) ==
    /\ proc[p].at = "redeem"
    /\ \E k \in proc[p].codes :
          \/ /\ poap[k] = "free"
             /\ poap' = [poap EXCEPT ![k] = "submitted"]
             /\ \/ Goto(p, "count") /\ UNCHANGED <<redeemCodes, rowId>>
                \/ Goto(p, "done") /\ Upsert(k)
          \/ /\ Goto(p, "done")
             /\ Upsert(k) \/ UNCHANGED <<redeemCodes, rowId>>
             /\ UNCHANGED poap
    /\ UNCHANGED <<check, gitPOAPVars, asked, crashes, supplyHistory>>

AddRead(p) ==
    /\ proc[p].at = "idle"
    /\ Read(p, "count")
    /\ UNCHANGED <<codeVars, gitPOAPVars, asked, crashes, supplyHistory>>

-----------------------------------------------------------------------------
(* ensureRedeemCodeThreshold, on the handler's copy of the GitPOAP.        *)

EnsureCount(p) ==
    /\ proc[p].at = "count"
    /\ Goto(p, IF /\ proc[p].can
                  /\ proc[p].status \notin {"DEPRECATED", "REDEEM_REQUEST_PENDING"}
                  /\ Cardinality(redeemCodes) < MinCodes
               THEN "mark" ELSE "done")
    /\ UNCHANGED <<codeVars, gitPOAPVars, asked, crashes, supplyHistory>>

EnsureMark(p) ==
    /\ proc[p].at = "mark"
    /\ status' = "REDEEM_REQUEST_PENDING"
    /\ Goto(p, "ask")
    /\ UNCHANGED <<codeVars, canRequest, asked, crashes, supplyHistory>>

\* requestPOAPCodes; the request may reach POAP and its reply be lost, and nothing
\* is sent when POAP's token cannot be fetched (a throw that ends the handler).
EnsureAsk(p) ==
    /\ proc[p].at = "ask"
    /\ (asked < AskLimit /\ asked' = asked + 1) \/ UNCHANGED asked
    /\ Goto(p, "done") \/ Goto(p, "failed")
    /\ UNCHANGED <<codeVars, gitPOAPVars, crashes, supplyHistory>>

EnsureFailed(p) ==
    /\ proc[p].at = "failed"
    /\ status' = "REDEEM_REQUEST_PENDING"
    /\ Goto(p, "done")
    /\ UNCHANGED <<codeVars, canRequest, asked, crashes, supplyHistory>>

-----------------------------------------------------------------------------
(* checkForNewPOAPCodes, over and over: only GitPOAPs that may be waiting  *)
(* for codes are looked at.                                                *)

\* p is between reading the GitPOAP as UNAPPROVED and announcing its first codes.
AwaitsFirst(p) ==
    proc[p].status = "UNAPPROVED" /\ proc[p].at \in {"check", "approve", "announce"}

\* Mutant: GitPOAPs that asked for more codes are not looked at.
PollReadUnapproved(p) ==
    /\ proc[p].at = "idle"
    /\ status = "UNAPPROVED"
    /\ Read(p, "check")
    /\ check' = [check EXCEPT ![p] = NewCheck]
    /\ together' = (together \/ (\E q \in Pollers : AwaitsFirst(q)))
    /\ UNCHANGED <<redeemCodes, rowId, poap, gitPOAPVars, asked, crashes, deprecated, announced>>

PollRead(p) ==
    /\ proc[p].at = "idle"
    /\ status \in Waiting
    /\ Read(p, "check")
    /\ check' = [check EXCEPT ![p] = NewCheck]
    /\ together' = (together \/ (status = "UNAPPROVED" /\ \E q \in Pollers : AwaitsFirst(q)))
    /\ UNCHANGED <<redeemCodes, rowId, poap, gitPOAPVars, asked, crashes, deprecated, announced>>

\* The first codes: the creator is told and the project's repos are backloaded.
Announce(p) ==
    /\ proc[p].at = "announce"
    /\ announced' = announced + 1
    /\ Goto(p, "idle")
    /\ UNCHANGED <<codeVars, gitPOAPVars, asked, crashes, deprecated, together>>

-----------------------------------------------------------------------------
(* Staff.                                                                  *)

\* The uploaded file lists codes that POAP issued, by e-mail, for the event.
UploadStart(p) ==
    /\ proc[p].at = "idle"
    /\ \E S \in SUBSET {k \in Codes : poap[k] # "absent"} :
          /\ S # {}
          /\ proc' = [proc EXCEPT ![p].at = "upload", ![p].codes = S]
    /\ UNCHANGED <<codeVars, gitPOAPVars, asked, crashes, supplyHistory>>

UploadCode(p) ==
    /\ proc[p].at = "upload"
    /\ \E k \in proc[p].codes :
          /\ Upsert(k)
          /\ proc' = [proc EXCEPT ![p].codes = @ \ {k}]
    /\ UNCHANGED <<poap, check, gitPOAPVars, asked, crashes, supplyHistory>>

UploadEnds(p) ==
    /\ proc[p].at = "upload"
    /\ proc[p].codes = {}
    /\ status' = "APPROVED"
    /\ Goto(p, "done")
    /\ UNCHANGED <<codeVars, canRequest, asked, crashes, supplyHistory>>

\* Mutant: the GitPOAP may still request codes.
DeprecateStatusOnly ==
    /\ ~deprecated
    /\ status' = "DEPRECATED"
    /\ deprecated' = TRUE
    /\ UNCHANGED <<codeVars, canRequest, asked, proc, crashes, announced, together>>

\* The claims it also deletes are not modelled here.
Deprecate ==
    /\ ~deprecated
    /\ canRequest' = FALSE
    /\ status' = "DEPRECATED"
    /\ deprecated' = TRUE
    /\ UNCHANGED <<codeVars, asked, proc, crashes, announced, together>>

-----------------------------------------------------------------------------
(* The POAP team (external) answers a request with new codes; processes die. *)

POAPFulfils ==
    /\ asked > 0
    /\ \E S \in SUBSET {k \in Codes : poap[k] = "absent"} :
          /\ S # {}
          /\ poap' = [k \in Codes |-> IF k \in S THEN "free" ELSE poap[k]]
    /\ asked' = asked - 1
    /\ UNCHANGED <<redeemCodes, rowId, check, gitPOAPVars, proc, crashes, supplyHistory>>

\* A restarted server polls again; requests it was serving are gone.
Die(p) ==
    /\ proc[p].at \notin {"idle", "done"}
    /\ crashes < CrashLimit
    /\ crashes' = crashes + 1
    /\ Goto(p, IF p \in Pollers THEN "idle" ELSE "done")
    /\ check' = IF p \in Checkers THEN [check EXCEPT ![p] = NoCheck] ELSE check
    /\ UNCHANGED <<redeemCodes, rowId, poap, gitPOAPVars, asked, supplyHistory>>

-----------------------------------------------------------------------------

CheckPart(p) == CheckCodes(p) \/ CheckEnds(p) \/ Approve(p)
EnsurePart(p) == EnsureCount(p) \/ EnsureMark(p) \/ EnsureAsk(p) \/ EnsureFailed(p)
ClaimStep(p) == ClaimTake(p) \/ ClaimRunsOut(p) \/ ClaimRedeem(p) \/ CheckPart(p) \/ EnsurePart(p)
PollStep(p) == PollRead(p) \/ CheckPart(p) \/ Announce(p)
UploadStep(p) == UploadCode(p) \/ UploadEnds(p)

Next ==
    \/ \E p \in Claimers : ClaimRead(p) \/ ClaimStep(p)
    \/ \E p \in Adders : AddRead(p) \/ EnsurePart(p)
    \/ \E p \in Pollers : PollStep(p)
    \/ \E p \in Uploaders : UploadStart(p) \/ UploadStep(p)
    \/ Deprecate
    \/ POAPFulfils
    \/ \E p \in Handlers : Die(p)

Spec == Init /\ [][Next]_vars

\* Timers keep firing, handlers run to their end, and POAP's list of codes does
\* not fail for ever.
FairSpec ==
    /\ Spec
    /\ \A p \in Claimers : WF_vars(ClaimStep(p))
    /\ \A p \in Adders : WF_vars(EnsurePart(p))
    /\ \A p \in Pollers : WF_vars(PollStep(p)) /\ SF_vars(CheckCodes(p) /\ CheckFetch(p))
    /\ \A p \in Uploaders : WF_vars(UploadStep(p))

-----------------------------------------------------------------------------
(* Properties.                                                             *)

\* Deprecation stops the requests for codes: a handler that read the GitPOAP after
\* it never asks, although code checks and uploads may overwrite DEPRECATED.
NoLateRequests ==
    \A p \in Handlers : proc[p].late => proc[p].at \notin {"mark", "ask", "failed"}

\* However many servers and triggers poll, the arrival of the first codes is announced
\* once, unless a poll reads the GitPOAP as UNAPPROVED while another one that did has
\* not yet approved and announced it (between lib/codes.ts:262 and :234).
AnnouncedOnce == ~together => announced =< 1

\* A GitPOAP that waits for codes gets a row for every unused code of its event,
\* unless it stops waiting or the code is used first.
IssuedCodesAreFound ==
    \A k \in Codes :
        (status \in Waiting /\ poap[k] = "free" /\ k \notin redeemCodes)
            ~> (k \in redeemCodes \/ poap[k] # "free" \/ status \notin Waiting)

\* lib/codes.ts: once the first codes are in the database, the GitPOAP leaves
\* UNAPPROVED, so that its repos get backloaded, unless a process dies, a claim takes
\* a code of a check that is under way, or two polls overlap: one that asked POAP before
\* the codes were issued then deletes the rows that the other inserted, and the recounts
\* of both see no gain.
FirstCodesApprove ==
    (status = "UNAPPROVED" /\ redeemCodes # {})
        ~> \/ status # "UNAPPROVED"
           \/ crashes > 0 \/ together
           \/ \E p \in Claimers : proc[p].codes # {}

-----------------------------------------------------------------------------
(* Inductive invariants, behind NoLateRequests and AnnouncedOnce.          *)

\* Deprecation clears canRequestMoreCodes for good, so a copy of the GitPOAP read
\* after it says that no codes may be requested, and the threshold check stops there.
Asking == {"mark", "ask", "failed"}
LateInv ==
    /\ deprecated => canRequest = FALSE
    /\ \A p \in Handlers : proc[p].late =>
          deprecated /\ proc[p].can = FALSE /\ proc[p].at \notin Asking

\* The poll that announces the first codes has read the GitPOAP as UNAPPROVED and
\* approved it, and it does not become UNAPPROVED again: no later read leads there.
AnnounceInv ==
    ~together =>
        /\ announced =< 1
        /\ announced > 0 => status # "UNAPPROVED"
        /\ \A p, q \in Pollers : AwaitsFirst(p) /\ AwaitsFirst(q) => p = q
        /\ \A p \in Pollers :
              /\ AwaitsFirst(p) => announced = 0
              /\ proc[p].at = "announce" => AwaitsFirst(p) /\ status # "UNAPPROVED"
=============================================================================
