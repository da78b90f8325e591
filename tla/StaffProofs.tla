----------------------------- MODULE StaffProofs ----------------------------
(* Proofs about what staff do: GitPOAPRequests, Projects and BatchTiming,  *)
(* which share no state.                                                   *)
EXTENDS GitPOAPRequests, Projects, BatchTiming, FiniteSetTheorems, TLAPS

-----------------------------------------------------------------------------
(* GitPOAPRequests                                                         *)

LEMMA CodesAreNumbers ==
    ASSUME NEW people \in SUBSET Contributors
    PROVE  chooseNumberOfRequestedCodes(people) \in Nat
  <1>1. Cardinality(people) \in Nat
    BY GitPOAPRequestsAssumption, FS_Subset, FS_CardinalityType
  <1>2. QED
    BY <1>1, GitPOAPRequestsAssumption DEF chooseNumberOfRequestedCodes, Larger

LEMMA Subsets == Approvers \subseteq Handlers /\ Rejecters \subseteq Handlers /\ Editors \subseteq Handlers
  BY DEF Handlers

LEMMA InitInv == Init => DecisionInv
  <1> SUFFICES ASSUME Init PROVE DecisionInv
    OBVIOUS
  <1>1. TypeOK
    BY DEF Init, TypeOK, Idle, Hand
  <1>2. CopiesAreOpen
    BY DEF Init, CopiesAreOpen, Idle
  <1>3. ClaimsFollowGitPOAPs
    BY Subsets DEF Init, ClaimsFollowGitPOAPs, Idle, Made
  <1>4. OneDecision
    BY Subsets DEF Init, OneDecision, Engaged, Idle, Made
  <1>5. QED
    BY <1>1, <1>2, <1>3, <1>4 DEF DecisionInv

-----------------------------------------------------------------------------
(* Each step keeps the invariant. The lemmas have its parts in their order. *)

LEMMA CreateInv == ASSUME DecisionInv, Create PROVE DecisionInv'
  <1> USE DEF Create, DecisionInv, history
  <1>1. TypeOK'
    <2>1. PICK people \in SUBSET Contributors :
            request' = [status |-> "PENDING", contributors |-> people,
                        numRequestedCodes |-> chooseNumberOfRequestedCodes(people),
                        gitPOAP |-> NoGitPOAP]
      OBVIOUS
    <2>2. request' \in Request
      BY <2>1, CodesAreNumbers DEF Request, Statuses
    <2>3. QED
      BY <2>2 DEF TypeOK
  <1>2. CopiesAreOpen'
    BY DEF CopiesAreOpen
  <1>3. ClaimsFollowGitPOAPs'
    BY DEF ClaimsFollowGitPOAPs, Made
  <1>4. OneDecision'
    BY Subsets DEF OneDecision, Engaged, Made, ClaimsFollowGitPOAPs, CopiesAreOpen
  <1>5. QED
    BY <1>1, <1>2, <1>3, <1>4

LEMMA ReadInv ==
    ASSUME DecisionInv, NEW h \in Handlers,
           NEW step \in {"image", "reject", "write"}, NEW final, "APPROVED" \in final,
           Read(h, step, final)
    PROVE  DecisionInv'
  <1> USE DEF Read, DecisionInv, history
  <1>0. CASE request.status \in final
    <2> USE <1>0 DEF End, Idle
    <2>1. TypeOK'
      BY DEF TypeOK, Hand
    <2>2. CopiesAreOpen'
      BY DEF CopiesAreOpen, TypeOK
    <2>3. ClaimsFollowGitPOAPs'
      BY Subsets DEF ClaimsFollowGitPOAPs, Made, TypeOK
    <2>4. OneDecision'
      BY Subsets DEF OneDecision, Engaged, Made, TypeOK
    <2>5. QED
      BY <2>1, <2>2, <2>3, <2>4
  <1>1. CASE request.status \notin final
    <2> USE <1>1
    <2>1. TypeOK'
      BY DEF TypeOK, Hand
    <2>2. CopiesAreOpen'
      BY DEF CopiesAreOpen, TypeOK
    <2>3. ClaimsFollowGitPOAPs'
      BY Subsets DEF ClaimsFollowGitPOAPs, Made, TypeOK
    <2>4. OneDecision'
      BY Subsets DEF OneDecision, Engaged, Made, TypeOK
    <2>5. QED
      BY <2>1, <2>2, <2>3, <2>4
  <1>2. QED
    BY <1>0, <1>1

\* A handler that goes on to another step or ends, at which it is no more engaged
\* than it was, and leaves the request, the GitPOAPs and blind alone.
LEMMA MoveInv ==
    ASSUME DecisionInv, NEW h \in Handlers,
           UNCHANGED <<request, gitPOAPs, claims, missed, blind>>,
           cut' \subseteq Handlers,
           \/ \E step \in {"approve", "create", "reset", "dead"} :
                /\ Goto(h, step)
                /\ step \in {"create", "reset"} => hand[h].at = "event"
                /\ step = "approve" => hand[h].at = "image"
           \/ End(h)
    PROVE  DecisionInv'
  <1> USE DEF DecisionInv
  <1>1. CASE End(h)
    <2> USE <1>1 DEF End, Idle
    <2>1. TypeOK'
      BY DEF TypeOK, Hand
    <2>2. CopiesAreOpen'
      BY DEF CopiesAreOpen, TypeOK
    <2>3. ClaimsFollowGitPOAPs'
      BY Subsets DEF ClaimsFollowGitPOAPs, Made, TypeOK
    <2>4. OneDecision'
      BY Subsets DEF OneDecision, Engaged, Made, TypeOK
    <2>5. QED
      BY <2>1, <2>2, <2>3, <2>4
  <1>2. CASE ~ End(h)
    <2>0. PICK step \in {"approve", "create", "reset", "dead"} :
                /\ Goto(h, step)
                /\ step \in {"create", "reset"} => hand[h].at = "event"
                /\ step = "approve" => hand[h].at = "image"
      BY <1>2
    <2> USE <2>0 DEF Goto
    <2>1. TypeOK'
      BY DEF TypeOK, Hand
    <2>2. CopiesAreOpen'
      BY DEF CopiesAreOpen, TypeOK
    <2>3. ClaimsFollowGitPOAPs'
      BY Subsets DEF ClaimsFollowGitPOAPs, Made, TypeOK
    <2>4. OneDecision'
      BY Subsets DEF OneDecision, Engaged, Made, TypeOK
    <2>5. QED
      BY <2>1, <2>2, <2>3, <2>4
  <1>3. QED
    BY <1>1, <1>2

\* Whoever sets the status as it has read it finds nobody engaged: an engaged
\* approval has left APPROVED there, which no copy says.
LEMMA NobodyEngaged ==
    ASSUME DecisionInv, NEW h \in Handlers,
           hand[h].at \notin {"idle", "done", "dead"},
           NEW row, Overwrite(h, hand[h].row.status, row), blind' = {}
    PROVE  \A a \in Approvers : ~ Engaged(a)
  <1>1. blind = {} /\ request.status = hand[h].row.status
    BY DEF Overwrite
  <1>2. hand[h].row.status # "APPROVED"
    BY DEF DecisionInv, CopiesAreOpen
  <1>3. QED
    BY <1>1, <1>2 DEF DecisionInv, OneDecision

\* A handler that writes the row and ends, when no other one is engaged.
LEMMA WriteAndEndInv ==
    ASSUME DecisionInv, NEW h \in Handlers, request # NoRequest,
           NEW expected, NEW new \in Request, Overwrite(h, expected, new), End(h),
           UNCHANGED <<gitPOAPs, claims, missed, cut>>,
           blind' = {} => h \notin Made /\ \A a \in Approvers : Engaged(a) => a = h
    PROVE  DecisionInv'
  <1> USE DEF DecisionInv, Overwrite, End, Idle
  <1>1. TypeOK'
    BY DEF TypeOK, Hand
  <1>2. CopiesAreOpen'
    BY NullsAssumption DEF CopiesAreOpen, TypeOK
  <1>3. ClaimsFollowGitPOAPs'
    BY NullsAssumption, Subsets DEF ClaimsFollowGitPOAPs, Made, TypeOK
  <1>4. OneDecision'
    BY Subsets DEF OneDecision, Engaged, Made, TypeOK
  <1>5. QED
    BY <1>1, <1>2, <1>3, <1>4

LEMMA ResetInv == ASSUME DecisionInv, NEW a \in Approvers, Reset(a) PROVE DecisionInv'
  <1>1. request \in Request /\ request # NoRequest
    BY Subsets DEF Reset, DecisionInv, CopiesAreOpen, TypeOK
  <1>2. [request EXCEPT !.status = "PENDING"] \in Request
    BY <1>1 DEF Request, Statuses
  <1>3. ASSUME blind' = {}
        PROVE  a \notin Made /\ \A b \in Approvers : Engaged(b) => b = a
    BY <1>3 DEF Reset, Overwrite, DecisionInv, OneDecision, Engaged
  <1>4. QED
    BY <1>1, <1>2, <1>3, Subsets, WriteAndEndInv DEF Reset

LEMMA RejectInv == ASSUME DecisionInv, NEW j \in Rejecters, Reject(j) PROVE DecisionInv'
  <1>1. request \in Request /\ request # NoRequest
    BY Subsets DEF Reject, DecisionInv, CopiesAreOpen, TypeOK
  <1>2. [request EXCEPT !.status = "REJECTED"] \in Request
    BY <1>1 DEF Request, Statuses
  <1>3. ASSUME blind' = {}
        PROVE  j \notin Made /\ \A b \in Approvers : Engaged(b) => b = j
    BY <1>3, Subsets, NobodyEngaged, GitPOAPRequestsAssumption DEF Reject, Engaged, Made
  <1>4. QED
    BY <1>1, <1>2, <1>3, Subsets, WriteAndEndInv DEF Reject

LEMMA EditInv == ASSUME DecisionInv, NEW e \in Editors, Edit(e) PROVE DecisionInv'
  <1>1. request \in Request /\ request # NoRequest
    BY Subsets DEF Edit, DecisionInv, CopiesAreOpen, TypeOK
  <1>2. PICK people \in SUBSET Contributors, edited \in BOOLEAN :
          Overwrite(e, hand[e].row.status,
              [request EXCEPT
                  !.status = "PENDING",
                  !.contributors = IF edited THEN people ELSE @,
                  !.numRequestedCodes = IF edited THEN chooseNumberOfRequestedCodes(people)
                                        ELSE @])
    BY DEF Edit
  <1>3. [request EXCEPT
            !.status = "PENDING",
            !.contributors = IF edited THEN people ELSE @,
            !.numRequestedCodes = IF edited THEN chooseNumberOfRequestedCodes(people)
                                  ELSE @] \in Request
    BY <1>1, CodesAreNumbers DEF Request, Statuses
  <1>4. ASSUME blind' = {}
        PROVE  e \notin Made /\ \A b \in Approvers : Engaged(b) => b = e
    BY <1>2, <1>4, Subsets, NobodyEngaged, GitPOAPRequestsAssumption DEF Edit, Engaged, Made
  <1>5. QED
    BY <1>1, <1>2, <1>3, <1>4, Subsets, WriteAndEndInv DEF Edit

LEMMA ApproveInv == ASSUME DecisionInv, NEW a \in Approvers, Approve(a) PROVE DecisionInv'
  <1> USE Subsets DEF DecisionInv, Approve, Overwrite
  <1>1. request \in Request /\ request # NoRequest
    BY DEF CopiesAreOpen, TypeOK
  <1>2. [request EXCEPT !.status = "APPROVED"] \in Request
    BY <1>1 DEF Request, Statuses
  <1>3. request.contributors \in SUBSET Contributors
    BY <1>1 DEF Request
  <1>4. TypeOK'
    BY <1>2, <1>3 DEF TypeOK, Hand
  <1>5. CopiesAreOpen'
    BY <1>2, NullsAssumption DEF CopiesAreOpen, TypeOK
  <1>6. ClaimsFollowGitPOAPs'
    BY <1>2, NullsAssumption DEF ClaimsFollowGitPOAPs, Made, TypeOK
  <1>7. OneDecision'
    <2> SUFFICES ASSUME blind' = {} PROVE OneDecision'
      BY DEF OneDecision
    <2>1. \A b \in Approvers : ~ Engaged(b)
      BY NobodyEngaged
    <2>2. request'.status = "APPROVED"
      BY <1>1 DEF Request
    <2>3. \A b \in Approvers : Engaged(b)' => b = a
      BY <2>1 DEF Engaged, Made, TypeOK
    <2>4. \A b \in Approvers : b \notin Made'
      BY <2>1 DEF Engaged, Made
    <2>5. QED
      BY <2>2, <2>3, <2>4 DEF OneDecision
  <1>8. QED
    BY <1>4, <1>5, <1>6, <1>7

LEMMA CreateGitPOAPInv ==
    ASSUME DecisionInv, NEW a \in Approvers, CreateGitPOAP(a) PROVE DecisionInv'
  <1> USE Subsets DEF DecisionInv, CreateGitPOAP, Goto, history
  <1>1. request \in Request /\ request # NoRequest /\ hand[a].row \in Request
    BY DEF CopiesAreOpen, TypeOK
  <1>2. [request EXCEPT !.gitPOAP = a] \in Request
    BY <1>1 DEF Request
  <1>3. [codes |-> hand[a].row.numRequestedCodes, copied |-> hand[a].row.contributors,
         contributors |-> hand[a].updated] \in GitPOAP
    BY <1>1 DEF Request, GitPOAP, TypeOK, Hand
  <1>4. gitPOAPs' \in [Approvers -> GitPOAP \cup {NoGitPOAP}]
        /\ gitPOAPs'[a] # NoGitPOAP
        /\ \A b \in Approvers \ {a} : gitPOAPs'[b] = gitPOAPs[b]
    BY <1>3, NullsAssumption DEF TypeOK
  <1>5. TypeOK'
    BY <1>2, <1>4 DEF TypeOK, Hand
  <1>6. CopiesAreOpen'
    BY <1>2, NullsAssumption DEF CopiesAreOpen, TypeOK
  <1>7. ClaimsFollowGitPOAPs'
    BY <1>2, <1>4, NullsAssumption DEF ClaimsFollowGitPOAPs, Made, TypeOK
  <1>8. OneDecision'
    <2> SUFFICES ASSUME blind' = {} PROVE OneDecision'
      BY DEF OneDecision
    <2>1. Engaged(a) /\ request.status = "APPROVED"
      BY DEF OneDecision, Engaged
    <2>2. request'.status = "APPROVED"
      BY <2>1, <1>1 DEF Request
    <2>3. \A b \in Approvers : Engaged(b)' => Engaged(b)
      BY <1>4, <2>1 DEF Engaged, Made, TypeOK
    <2>4. hand'[a].at = "claims"
      BY DEF TypeOK
    <2>5. QED
      BY <2>1, <2>2, <2>3, <2>4 DEF OneDecision, Engaged
  <1>9. QED
    BY <1>5, <1>6, <1>7, <1>8

LEMMA MakeClaimInv ==
    ASSUME DecisionInv, NEW a \in Approvers, MakeClaim(a) PROVE DecisionInv'
  <1> USE Subsets DEF DecisionInv, MakeClaim
  <1>1. PICK c \in hand[a].updated :
          /\ \/ claims' = claims \cup {<<a, Account[c]>>} /\ UNCHANGED missed
             \/ missed' = missed \cup {<<a, c>>} /\ UNCHANGED claims
          /\ hand' = [hand EXCEPT ![a].updated = @ \ {c}]
    OBVIOUS
  <1>2. c \in Contributors /\ Account[c] \in Accounts /\ gitPOAPs[a] # NoGitPOAP
    BY DEF TypeOK, Hand, Accounts, ClaimsFollowGitPOAPs, Made
  <1>3. TypeOK'
    <2>1. hand' \in [Handlers -> Hand]
      BY <1>1 DEF TypeOK, Hand
    <2>2. claims' \subseteq {b \in Approvers : gitPOAPs[b] # NoGitPOAP} \X Accounts
      BY <1>1, <1>2 DEF TypeOK
    <2>3. missed' \subseteq Approvers \X Contributors
      BY <1>1, <1>2 DEF TypeOK
    <2>4. QED
      BY <2>1, <2>2, <2>3 DEF TypeOK
  <1>4. \A h \in Handlers : hand'[h].at = hand[h].at /\ hand'[h].row = hand[h].row
    BY <1>1 DEF TypeOK, Hand
  <1>5. CopiesAreOpen'
    BY <1>4 DEF CopiesAreOpen
  <1>6. ClaimsFollowGitPOAPs'
    BY <1>4 DEF ClaimsFollowGitPOAPs, Made
  <1>7. OneDecision'
    BY <1>4 DEF OneDecision, Engaged, Made
  <1>8. QED
    BY <1>3, <1>5, <1>6, <1>7

-----------------------------------------------------------------------------
LEMMA ApprovalInv ==
    ASSUME DecisionInv, NEW a \in Approvers, ApprovalStep(a) PROVE DecisionInv'
  <1> USE Subsets
  <1>0. cut \subseteq Handlers
    BY DEF DecisionInv, TypeOK
  <1>1. CASE ReadForApproval(a)
    BY <1>1, ReadInv DEF ReadForApproval
  <1>2. CASE FetchImage(a)
    BY <1>0, <1>2, MoveInv DEF FetchImage, history
  <1>3. CASE CreateEvent(a)
    BY <1>0, <1>3, MoveInv DEF CreateEvent, history
  <1>4. CASE TokenFails(a)
    BY <1>0, <1>4, MoveInv DEF TokenFails
  <1>5. CASE FinishApproval(a)
    BY <1>0, <1>5, MoveInv DEF FinishApproval, history
  <1>6. QED
    BY <1>1, <1>2, <1>3, <1>4, <1>5, ApproveInv, ResetInv, CreateGitPOAPInv, MakeClaimInv
    DEF ApprovalStep

LEMMA CrashInv == ASSUME DecisionInv, NEW h \in Handlers, Crash(h) PROVE DecisionInv'
  <1>1. cut' \subseteq Handlers
    BY DEF DecisionInv, TypeOK, Crash
  <1>2. QED
    BY <1>1, MoveInv DEF Crash

LEMMA StepInv == DecisionInv /\ [Next]_vars => DecisionInv'
  <1> SUFFICES ASSUME DecisionInv, [Next]_vars PROVE DecisionInv'
    OBVIOUS
  <1> USE Subsets
  <1>1. ASSUME NEW j \in Rejecters, ReadForRejection(j) PROVE DecisionInv'
    BY <1>1, ReadInv DEF ReadForRejection
  <1>2. ASSUME NEW e \in Editors, ReadForEdit(e) PROVE DecisionInv'
    BY <1>2, ReadInv DEF ReadForEdit
  <1>3. ASSUME NEW e \in Editors, UploadFails(e) PROVE DecisionInv'
    BY <1>3, MoveInv DEF UploadFails, history, DecisionInv, TypeOK
  <1>4. CASE UNCHANGED vars
    BY <1>4 DEF vars, history, DecisionInv, TypeOK, CopiesAreOpen, ClaimsFollowGitPOAPs,
                OneDecision, Engaged, Made
  <1>5. QED
    BY <1>1, <1>2, <1>3, <1>4, CreateInv, ApprovalInv, RejectInv, EditInv, CrashInv DEF Next

-----------------------------------------------------------------------------
\* Why approvals exclude each other: in every reachable state, unless a handler
\* has written over a status that it had not read, one approval at most is past
\* its update to APPROVED, and the row says so.
THEOREM DecisionHolds == Spec => []DecisionInv
  <1>1. QED
    BY InitInv, StepInv, PTL DEF Spec

\* The row, the copies of it and the claims have their types throughout.
THEOREM TypesHold == Spec => []TypeOK
  <1>1. DecisionInv => TypeOK
    BY DEF DecisionInv
  <1>2. QED
    BY <1>1, DecisionHolds, PTL

\* A request gets one GitPOAP at most, and is APPROVED if it has one, whatever
\* calls to approve, reject or edit it are repeated, fail or are cut short.
THEOREM DecidedOnceHolds == Spec => []DecidedOnce
  <1>1. DecisionInv => DecidedOnce
    <2> SUFFICES ASSUME DecisionInv, blind = {}
                 PROVE  /\ \A a, b \in Made : a = b
                        /\ Made # {} => request.status = "APPROVED"
      BY DEF DecidedOnce
    <2>1. Made \subseteq Approvers /\ \A a \in Made : Engaged(a)
      BY DEF Made, Engaged
    <2>2. QED
      BY <2>1 DEF DecisionInv, OneDecision
  <1>2. QED
    BY <1>1, DecisionHolds, PTL

-----------------------------------------------------------------------------
(* The number of codes.                                                    *)

\* Steps that change neither the request nor the GitPOAPs nor a copy.
LEMMA KeepsNumbers ==
    ASSUME DecisionInv, NumbersFit, UNCHANGED <<request, gitPOAPs>>,
           \A h \in Handlers : hand'[h].at \notin {"idle", "done", "dead"} =>
               \/ hand[h].at \notin {"idle", "done", "dead"} /\ hand'[h].row = hand[h].row
               \/ request # NoRequest /\ hand'[h].row = request
    PROVE  NumbersFit'
  BY DEF NumbersFit, Made

\* Steps that write the row.
LEMMA WritesNumbers ==
    ASSUME DecisionInv, NumbersFit, UNCHANGED gitPOAPs,
           request'.numRequestedCodes = chooseNumberOfRequestedCodes(request'.contributors),
           \A h \in Handlers : hand'[h].at \notin {"idle", "done", "dead"} =>
               hand[h].at \notin {"idle", "done", "dead"} /\ hand'[h].row = hand[h].row
    PROVE  NumbersFit'
  BY DEF NumbersFit, Made

LEMMA ReadNumbers ==
    ASSUME DecisionInv, NumbersFit, NEW h \in Handlers, NEW step, NEW final,
           Read(h, step, final)
    PROVE  NumbersFit'
  BY KeepsNumbers DEF Read, End, Idle, DecisionInv, TypeOK

LEMMA ApprovalNumbers ==
    ASSUME DecisionInv, NumbersFit, NEW a \in Approvers, ApprovalStep(a)
    PROVE  NumbersFit'
  <1> USE Subsets
  <1>0. hand \in [Handlers -> Hand] /\ request \in Request \cup {NoRequest}
    BY DEF DecisionInv, TypeOK
  <1>1. CASE ReadForApproval(a)
    BY <1>1, ReadNumbers DEF ReadForApproval
  <1>2. CASE FetchImage(a) \/ CreateEvent(a) \/ TokenFails(a) \/ FinishApproval(a)
    <2>1. UNCHANGED <<request, gitPOAPs>>
      BY <1>2 DEF FetchImage, CreateEvent, TokenFails, FinishApproval
    <2>2. hand[a].at \notin {"idle", "done", "dead"}
      BY <1>2 DEF FetchImage, CreateEvent, TokenFails, FinishApproval
    <2>3. End(a) \/ \E step : Goto(a, step)
      BY <1>2 DEF FetchImage, CreateEvent, TokenFails, FinishApproval
    <2>4. \A h \in Handlers : hand'[h].at \notin {"idle", "done", "dead"} =>
              hand[h].at \notin {"idle", "done", "dead"} /\ hand'[h].row = hand[h].row
      BY <1>0, <2>2, <2>3 DEF Goto, End, Idle, Hand
    <2>5. QED
      BY <2>1, <2>4, KeepsNumbers
  <1>3. CASE MakeClaim(a)
    BY <1>0, <1>3, KeepsNumbers DEF MakeClaim, Hand
  <1>4. CASE Approve(a) \/ Reset(a)
    <2>1. request \in Request /\ request # NoRequest
      BY <1>0, <1>4 DEF Approve, Reset, DecisionInv, CopiesAreOpen
    <2>2. request'.numRequestedCodes = request.numRequestedCodes
          /\ request'.contributors = request.contributors
      BY <1>4, <2>1 DEF Approve, Reset, Overwrite, Request
    <2>3. request'.numRequestedCodes = chooseNumberOfRequestedCodes(request'.contributors)
      BY <2>1, <2>2 DEF NumbersFit
    <2>4. QED
      BY <1>0, <1>4, <2>3, WritesNumbers DEF Approve, Reset, End, Idle
  <1>5. CASE CreateGitPOAP(a)
    <2>1. request \in Request /\ request # NoRequest
      BY <1>0, <1>5 DEF CreateGitPOAP, DecisionInv, CopiesAreOpen
    <2>2. request'.numRequestedCodes = chooseNumberOfRequestedCodes(request'.contributors)
      BY <1>5, <2>1 DEF CreateGitPOAP, Request, NumbersFit
    <2>3. \A h \in Handlers : hand'[h].row = hand[h].row /\
              (hand'[h].at \notin {"idle", "done", "dead"} =>
                  hand[h].at \notin {"idle", "done", "dead"})
      BY <1>0, <1>5 DEF CreateGitPOAP, Goto, Hand
    <2>4. \A b \in Approvers :
              b \in Made' =>
                  gitPOAPs'[b].codes = chooseNumberOfRequestedCodes(gitPOAPs'[b].copied)
      BY <1>5 DEF CreateGitPOAP, NumbersFit, Made, DecisionInv, TypeOK
    <2>5. QED
      BY <2>2, <2>3, <2>4 DEF NumbersFit, Made
  <1>6. QED
    BY <1>1, <1>2, <1>3, <1>4, <1>5 DEF ApprovalStep

LEMMA NumbersStep == DecisionInv /\ NumbersFit /\ [Next]_vars => NumbersFit'
  <1> SUFFICES ASSUME DecisionInv, NumbersFit, [Next]_vars PROVE NumbersFit'
    OBVIOUS
  <1> USE Subsets
  <1>0. hand \in [Handlers -> Hand] /\ request \in Request \cup {NoRequest}
    BY DEF DecisionInv, TypeOK
  <1>1. CASE Create
    <2>1. request'.numRequestedCodes = chooseNumberOfRequestedCodes(request'.contributors)
      BY <1>1 DEF Create
    <2>2. QED
      BY <1>1, <2>1, WritesNumbers DEF Create
  <1>2. ASSUME NEW j \in Rejecters, ReadForRejection(j) \/ Reject(j) PROVE NumbersFit'
    <2>1. CASE ReadForRejection(j)
      BY <2>1, ReadNumbers DEF ReadForRejection
    <2>2. CASE Reject(j)
      <3>1. request \in Request /\ request # NoRequest
        BY <1>0, <2>2 DEF Reject, DecisionInv, CopiesAreOpen
      <3>2. request'.numRequestedCodes = chooseNumberOfRequestedCodes(request'.contributors)
        BY <2>2, <3>1 DEF Reject, Overwrite, Request, NumbersFit
      <3>3. QED
        BY <1>0, <2>2, <3>2, WritesNumbers DEF Reject, End, Idle
    <2>3. QED
      BY <1>2, <2>1, <2>2
  <1>3. ASSUME NEW e \in Editors, ReadForEdit(e) \/ Edit(e) \/ UploadFails(e)
        PROVE  NumbersFit'
    <2>1. CASE ReadForEdit(e)
      BY <2>1, ReadNumbers DEF ReadForEdit
    <2>2. CASE Edit(e)
      <3>1. request \in Request /\ request # NoRequest
        BY <1>0, <2>2 DEF Edit, DecisionInv, CopiesAreOpen
      <3>2. request'.numRequestedCodes = chooseNumberOfRequestedCodes(request'.contributors)
        BY <2>2, <3>1 DEF Edit, Overwrite, Request, NumbersFit
      <3>3. QED
        BY <1>0, <2>2, <3>2, WritesNumbers DEF Edit, End, Idle
    <2>3. CASE UploadFails(e)
      BY <1>0, <2>3, KeepsNumbers DEF UploadFails, End, Idle
    <2>4. QED
      BY <1>3, <2>1, <2>2, <2>3
  <1>4. ASSUME NEW h \in Handlers, Crash(h) PROVE NumbersFit'
    BY <1>0, <1>4, KeepsNumbers DEF Crash, Goto
  <1>5. CASE UNCHANGED vars
    BY <1>5 DEF vars, NumbersFit, Made
  <1>6. QED
    BY <1>1, <1>2, <1>3, <1>4, <1>5, ApprovalNumbers DEF Next

\* Two contributors may be one account, never one contributor two.
LEMMA FewerAccounts ==
    ASSUME NEW people \in SUBSET Contributors
    PROVE  /\ Cardinality({Account[c] : c \in people}) \in Nat
           /\ Cardinality({Account[c] : c \in people}) <= Cardinality(people)
           /\ Cardinality(people) \in Nat
  <1> DEFINE accounts == {Account[c] : c \in people}
             account == [c \in people |-> Account[c]]
  <1>1. IsFiniteSet(people)
    BY GitPOAPRequestsAssumption, FS_Subset
  <1>2. account \in Surjection(people, accounts)
    BY DEF Surjection
  <1>3. IsFiniteSet(accounts) /\ Cardinality(accounts) <= Cardinality(people)
    BY <1>1, <1>2, FS_Surjection
  <1>4. QED
    BY <1>1, <1>3, FS_CardinalityType

\* A GitPOAP whose contributors did not change after the approval read them has a
\* code for each of their accounts and some to spare, up to the most asked for.
THEOREM EnoughCodesHolds == Spec => []EnoughCodes
  <1>1. Init => NumbersFit
    BY DEF Init, NumbersFit, Made, Idle
  <1>2. DecisionInv /\ NumbersFit => EnoughCodes
    <2> SUFFICES ASSUME DecisionInv, NumbersFit, NEW a \in Made,
                        gitPOAPs[a].copied = gitPOAPs[a].contributors
                 PROVE  \/ gitPOAPs[a].codes >= MaxCodes
                        \/ gitPOAPs[a].codes >= Buffer +
                             Cardinality({Account[c] : c \in gitPOAPs[a].contributors})
      BY DEF EnoughCodes
    <2>1. gitPOAPs[a].contributors \in SUBSET Contributors
      BY DEF Made, DecisionInv, TypeOK, GitPOAP
    <2>2. gitPOAPs[a].codes = chooseNumberOfRequestedCodes(gitPOAPs[a].contributors)
      BY DEF NumbersFit
    <2>3. QED
      BY <2>1, <2>2, FewerAccounts, GitPOAPRequestsAssumption
      DEF chooseNumberOfRequestedCodes, Larger
  <1>3. QED
    BY <1>1, <1>2, NumbersStep, DecisionHolds, PTL DEF Spec

-----------------------------------------------------------------------------
(* An approval goes on until the request has its GitPOAP and claims.       *)

LEMMA NobodyToServe ==
    ASSUME request' # NoRequest => request'.status # "APPROVED" PROVE ApprovalsGoOn'
  BY DEF ApprovalsGoOn

\* The row stays, and so does who works on it.
LEMMA SameWorkers ==
    ASSUME DecisionInv, ApprovalsGoOn, UNCHANGED request, cut \subseteq cut',
           cut' = {} => \A a \in Approvers : /\ Owing(a) => Owing(a)'
                                             /\ a \in Made => a \in Made'
                                             /\ \A c \in Contributors : Served(a, c) => Served(a, c)'
    PROVE  ApprovalsGoOn'
  <1>1. SUFFICES ASSUME request # NoRequest, request.status = "APPROVED", cut' = {}
                 PROVE  /\ request.gitPOAP = NoGitPOAP => \E a \in Approvers : Owing(a)'
                        /\ \E a \in Approvers : /\ Owing(a)' \/ a \in Made'
                                                /\ \A c \in request.contributors : Served(a, c)'
    BY DEF ApprovalsGoOn
  <1>2. request.contributors \subseteq Contributors
    BY <1>1 DEF DecisionInv, TypeOK, Request
  <1>3. cut = {}
    BY <1>1
  <1>4. request.gitPOAP = NoGitPOAP => \E a \in Approvers : Owing(a)'
    BY <1>1, <1>3 DEF ApprovalsGoOn
  <1>5. PICK a \in Approvers : /\ Owing(a) \/ a \in Made
                               /\ \A c \in request.contributors : Served(a, c)
    BY <1>1, <1>3 DEF ApprovalsGoOn
  <1>6. (Owing(a)' \/ a \in Made') /\ \A c \in request.contributors : Served(a, c)'
    BY <1>1, <1>2, <1>5
  <1>7. QED
    BY <1>4, <1>6

\* Handlers with nothing to serve may go anywhere, those that owe to "create" or "reset".
LEMMA OtherWork ==
    ASSUME DecisionInv, ApprovalsGoOn, NEW h \in Handlers,
           UNCHANGED <<request, gitPOAPs, claims, missed>>, cut \subseteq cut',
           NEW r, hand' = [hand EXCEPT ![h] = r],
           \/ ~Owing(h) /\ (hand[h].at = "claims" => hand[h].updated = {})
           \/ Owing(h) /\ r.updated = hand[h].updated /\ r.at \in {"create", "reset"}
           \/ cut' # {}
    PROVE  ApprovalsGoOn'
  <1>1. SUFFICES ASSUME cut' = {}
                 PROVE \A a \in Approvers : /\ Owing(a) => Owing(a)'
                                            /\ a \in Made => a \in Made'
                                            /\ \A c \in Contributors : Served(a, c) => Served(a, c)'
    BY SameWorkers
  <1>2. ASSUME NEW a \in Approvers
        PROVE  /\ Owing(a) => Owing(a)'
               /\ a \in Made => a \in Made'
               /\ \A c \in Contributors : Served(a, c) => Served(a, c)'
    <2>1. a \in Made => a \in Made'
      BY DEF Made
    <2>2. hand'[a] = IF a = h THEN r ELSE hand[a]
      BY Subsets DEF DecisionInv, TypeOK
    <2>3. QED
      BY <1>1, <2>1, <2>2 DEF Owing, Served
  <1>3. QED
    BY <1>2

LEMMA ReadGoesOn ==
    ASSUME DecisionInv, ApprovalsGoOn, NEW h \in Handlers, NEW step, NEW final, Read(h, step, final)
    PROVE  ApprovalsGoOn'
  <1>1. hand[h].at = "idle" /\ UNCHANGED <<request, gitPOAPs, claims, missed, cut>>
    BY DEF Read, history
  <1>2. \E r : hand' = [hand EXCEPT ![h] = r]
    BY DEF Read, End
  <1>3. QED
    BY <1>1, <1>2, OtherWork DEF Owing

LEMMA ApprovalGoesOn ==
    ASSUME DecisionInv, ApprovalsGoOn, NEW a \in Approvers, ApprovalStep(a) PROVE ApprovalsGoOn'
  <1> USE Subsets
  <1>0. hand \in [Handlers -> Hand]
    BY DEF DecisionInv, TypeOK
  <1>1. CASE ReadForApproval(a)
    BY <1>1, ReadGoesOn DEF ReadForApproval
  <1>2. CASE FetchImage(a)
    <2>1. \E r : hand' = [hand EXCEPT ![a] = r]
      BY <1>2 DEF FetchImage, Goto, End
    <2>2. QED
      BY <1>2, <2>1, OtherWork DEF FetchImage, Owing, history
  <1>3. CASE Approve(a)
    <2>1. /\ request # NoRequest /\ request \in Request
          /\ request' = [request EXCEPT !.status = "APPROVED"]
      BY <1>3 DEF Approve, Overwrite, DecisionInv, CopiesAreOpen, TypeOK
    <2>2. request'.contributors = request.contributors
      BY <2>1 DEF Request
    <2>3. hand'[a].at = "event" /\ hand'[a].updated = request.contributors
      BY <1>0, <1>3 DEF Approve, Hand
    <2>4. Owing(a)' /\ \A c \in request'.contributors : Served(a, c)'
      BY <2>2, <2>3 DEF Owing, Served
    <2>5. QED
      BY <2>4 DEF ApprovalsGoOn
  <1>4. CASE CreateEvent(a)
    <2>1. PICK step \in {"create", "reset"} : hand' = [hand EXCEPT ![a].at = step]
      BY <1>4 DEF CreateEvent, Goto
    <2> DEFINE r == [hand[a] EXCEPT !.at = step]
    <2>2. hand' = [hand EXCEPT ![a] = r] /\ r.updated = hand[a].updated /\ r.at \in {"create", "reset"}
      BY <1>0, <2>1 DEF Hand
    <2> HIDE DEF r
    <2>3. Owing(a) /\ UNCHANGED <<request, gitPOAPs, claims, missed, cut>>
      BY <1>4 DEF CreateEvent, Owing, history
    <2>4. QED
      BY <2>2, <2>3, OtherWork
  <1>5. CASE TokenFails(a)
    BY <1>5 DEF TokenFails, ApprovalsGoOn
  <1>6. CASE Reset(a)
    <2>1. request \in Request /\ request' = [request EXCEPT !.status = "PENDING"]
      BY <1>6 DEF Reset, Overwrite, DecisionInv, CopiesAreOpen, TypeOK
    <2>2. QED
      BY <2>1, NobodyToServe DEF Request
  <1>7. CASE CreateGitPOAP(a)
    <2>1. /\ request # NoRequest /\ request \in Request
          /\ request' = [request EXCEPT !.gitPOAP = a]
          /\ UNCHANGED <<claims, missed, cut>>
      BY <1>7 DEF CreateGitPOAP, DecisionInv, CopiesAreOpen, TypeOK, history
    <2>2. /\ request'.contributors = request.contributors /\ request'.gitPOAP # NoGitPOAP
          /\ request'.status = request.status
      BY <2>1, GitPOAPRequestsAssumption DEF Request
    <2>3. hand'[a].at = "claims" /\ hand'[a].updated = hand[a].updated
          /\ \A b \in Approvers \ {a} : hand'[b] = hand[b]
      BY <1>0, <1>7 DEF CreateGitPOAP, Goto, Hand
    <2>4. a \in Made' /\ Made \subseteq Made'
      BY <1>7, NullsAssumption DEF CreateGitPOAP, Made, DecisionInv, TypeOK, GitPOAP, Hand, CopiesAreOpen,
         Request
    <2>5. ASSUME NEW b \in Approvers, NEW c, Served(b, c) PROVE Served(b, c)'
      BY <2>1, <2>3, <2>5 DEF Served, Owing
    <2>6. ASSUME NEW b \in Approvers, Owing(b) \/ b \in Made PROVE Owing(b)' \/ b \in Made'
      BY <2>3, <2>4, <2>6 DEF Owing
    <2>7. QED
      BY <2>1, <2>2, <2>5, <2>6 DEF ApprovalsGoOn
  <1>8. CASE MakeClaim(a)
    <2>1. PICK c \in hand[a].updated :
             /\ \/ claims' = claims \cup {<<a, Account[c]>>} /\ UNCHANGED missed
                \/ missed' = missed \cup {<<a, c>>} /\ UNCHANGED claims
             /\ hand' = [hand EXCEPT ![a].updated = @ \ {c}]
      BY <1>8 DEF MakeClaim
    <2>2. hand[a].at = "claims" /\ UNCHANGED <<request, gitPOAPs, cut>>
      BY <1>8 DEF MakeClaim
    <2>3. hand'[a].at = "claims" /\ hand'[a].updated = hand[a].updated \ {c}
          /\ \A b \in Approvers \ {a} : hand'[b] = hand[b]
      BY <1>0, <2>1, <2>2 DEF Hand
    <2>4. \A b \in Approvers : Owing(b) => Owing(b)'
      BY <2>2, <2>3 DEF Owing
    <2>5. ASSUME NEW b \in Approvers, NEW d \in Contributors, Served(b, d) PROVE Served(b, d)'
      BY <2>1, <2>3, <2>5 DEF Served, Owing
    <2>6. Made' = Made
      BY <2>2 DEF Made
    <2>7. QED
      BY <2>2, <2>4, <2>5, <2>6, SameWorkers
  <1>9. CASE FinishApproval(a)
    <2>1. \E r : hand' = [hand EXCEPT ![a] = r]
      BY <1>9 DEF FinishApproval, End
    <2>2. QED
      BY <1>9, <2>1, OtherWork DEF FinishApproval, Owing, history
  <1>10. QED
    BY <1>1, <1>2, <1>3, <1>4, <1>5, <1>6, <1>7, <1>8, <1>9 DEF ApprovalStep

LEMMA OthersGoOn ==
    ASSUME DecisionInv, ApprovalsGoOn, NEW h \in Handlers,
           Reject(h) \/ Edit(h) \/ UploadFails(h) \/ Crash(h)
    PROVE  ApprovalsGoOn'
  <1>1. hand \in [Handlers -> Hand]
    BY DEF DecisionInv, TypeOK
  <1>2. CASE Reject(h) \/ Edit(h)
    <2>1. request \in Request
      BY <1>2 DEF Reject, Edit, DecisionInv, CopiesAreOpen, TypeOK
    <2>2. request'.status # "APPROVED"
      BY <1>2, <2>1 DEF Reject, Edit, Overwrite, Request
    <2>3. QED
      BY <2>2, NobodyToServe
  <1>3. CASE UploadFails(h)
    <2>1. \E r : hand' = [hand EXCEPT ![h] = r]
      BY <1>3 DEF UploadFails, End
    <2>2. QED
      BY <1>3, <2>1, OtherWork DEF UploadFails, Owing, history
  <1>4. CASE Crash(h)
    <2> DEFINE r == [hand[h] EXCEPT !.at = "dead"]
    <2>1. hand' = [hand EXCEPT ![h] = r]
      BY <1>1, <1>4 DEF Crash, Goto
    <2> HIDE DEF r
    <2>2. cut \subseteq cut' /\ (Owing(h) \/ hand[h].at = "claims" => cut' # {})
      BY <1>4 DEF Crash, Owing
    <2>3. UNCHANGED <<request, gitPOAPs, claims, missed>>
      BY <1>4 DEF Crash
    <2>4. QED
      BY <2>1, <2>2, <2>3, OtherWork
  <1>5. QED
    BY <1>2, <1>3, <1>4

LEMMA StepGoesOn == DecisionInv /\ ApprovalsGoOn /\ [Next]_vars => ApprovalsGoOn'
  <1> SUFFICES ASSUME DecisionInv, ApprovalsGoOn, [Next]_vars PROVE ApprovalsGoOn'
    OBVIOUS
  <1>1. CASE UNCHANGED vars
    BY <1>1 DEF vars, history, ApprovalsGoOn, Owing, Served, Made
  <1>2. CASE Create
    BY <1>2, NobodyToServe DEF Create
  <1>3. ASSUME NEW j \in Rejecters, ReadForRejection(j) \/ Reject(j) PROVE ApprovalsGoOn'
    BY <1>3, Subsets, ReadGoesOn, OthersGoOn DEF ReadForRejection
  <1>4. ASSUME NEW e \in Editors, ReadForEdit(e) \/ Edit(e) \/ UploadFails(e) PROVE ApprovalsGoOn'
    BY <1>4, Subsets, ReadGoesOn, OthersGoOn DEF ReadForEdit
  <1>5. QED
    BY <1>1, <1>2, <1>3, <1>4, ApprovalGoesOn, OthersGoOn DEF Next

LEMMA GoOnHolds == Spec => [](DecisionInv /\ ApprovalsGoOn)
  <1>1. Init => ApprovalsGoOn
    BY DEF Init, ApprovalsGoOn
  <1>2. QED
    BY <1>1, InitInv, StepInv, StepGoesOn, PTL DEF Spec

\* When all is quiet, a request that is APPROVED has its GitPOAP, however approvals,
\* rejections and edits have overtaken each other, unless an approval was cut short.
THEOREM ApprovedHave == Spec => []ApprovedHaveGitPOAPs
  <1>1. DecisionInv /\ ApprovalsGoOn => ApprovedHaveGitPOAPs
    BY Subsets DEF ApprovedHaveGitPOAPs, ApprovalsGoOn, Quiet, Owing
  <1>2. QED
    BY <1>1, GoOnHolds, PTL

\* And the contributors that its row has then got their claims from one approval, or
\* were looked up in vain.
THEOREM ContributorsHave == Spec => []ContributorsHaveClaims
  <1>1. DecisionInv /\ ApprovalsGoOn => ContributorsHaveClaims
    BY Subsets DEF ContributorsHaveClaims, ApprovalsGoOn, Quiet, Owing, Served
  <1>2. QED
    BY <1>1, GoOnHolds, PTL

-----------------------------------------------------------------------------
(* Projects                                                                *)

LEMMA Names ==
    /\ Creators \subseteq Requests /\ Adders \subseteq Requests /\ Creators \subseteq ProjectIds
    /\ \A h \in Creators : h \notin Adders /\ h # NoProject
  BY ProjectsAssumption DEF Requests, ProjectIds

LEMMA InitProjects == ProjectsInit => ProjectsInv
  <1> SUFFICES ASSUME ProjectsInit PROVE ProjectsInv
    OBVIOUS
  <1>1. NoAsk \in Ask
    BY DEF NoAsk, Ask
  <1>2. ProjectsTypeOK
    BY <1>1 DEF ProjectsInit, ProjectsTypeOK, ProjectIds
  <1>3. \A h \in Requests : asking[h].at = "idle" /\ h \notin projects
    BY ProjectsAssumption DEF ProjectsInit, NoAsk
  <1>4. QED
    BY <1>2, <1>3 DEF ProjectsInv, OwnProject, KeepsProject, Unfinished

-----------------------------------------------------------------------------
(* What the step of a request h leaves to the others.                      *)

\* At most its own project goes, and only as it is rolled back.
Own(h) ==
    /\ \A k \in Requests \ {h} : asking'[k] = asking[k]
    /\ projects \subseteq projects' \/ (BeingCreated(h) /\ projects \ {h} \subseteq projects')
    /\ projects' \subseteq projects \cup {h}
    /\ asking'[h].at \in Unfinished => asking[h].at \in Unfinished \cup {"project"}
    /\ \A r \in Repos : repoOf[r] # NoProject =>
          repoOf'[r] = repoOf[r] \/ (repoOf[r] = h /\ BeingCreated(h))
    /\ \A k \in Creators \ {h} : projectOf'[k] = projectOf[k] \/ (projectOf[k] = h /\ BeingCreated(h))

\* A settled project stays so.
LEMMA SettledStays ==
    ASSUME ProjectsInv, NEW h \in Requests, Own(h), NEW p, Settled(p)
    PROVE  Settled(p)'
  <1>1. p \in projects
    BY DEF Settled
  <1>2. p # h \/ ~BeingCreated(h)
    BY DEF Settled
  <1>3. p \in projects'
    BY <1>1, <1>2 DEF Own
  <1>4. CASE p = h /\ h \in Creators
    <2>1. asking[h].at \notin Unfinished
      BY <1>4 DEF Settled, BeingCreated
    <2>2. asking[h].at # "project"
      BY <1>1, <1>4 DEF ProjectsInv, OwnProject
    <2>3. asking'[h].at \notin Unfinished
      BY <2>1, <2>2 DEF Own
    <2>4. QED
      BY <1>3, <1>4, <2>3 DEF Settled, BeingCreated
  <1>5. CASE p # h /\ p \in Creators
    <2>1. asking'[p] = asking[p]
      BY <1>5, Names DEF Own
    <2>2. QED
      BY <1>3, <2>1 DEF Settled, BeingCreated
  <1>6. CASE p \notin Creators
    BY <1>3, <1>6 DEF Settled, BeingCreated
  <1>7. QED
    BY <1>4, <1>5, <1>6

\* Hence the other requests keep theirs.
LEMMA OthersKeep ==
    ASSUME ProjectsInv, NEW h \in Requests, Own(h), NEW k \in Requests \ {h}, k \notin early
    PROVE  KeepsProject(k)'
  <1> PICK q : q = asking[k]
    OBVIOUS
  <1>1. asking'[k] = q
    BY DEF Own
  <1>2. KeepsProject(k)
    BY DEF ProjectsInv
  <1>3. ASSUME q.at \in {"event", "gitpoap", "made", "add", "added"}
        PROVE  Settled(q.project) /\ Settled(q.project)' /\ ~(q.project = h /\ BeingCreated(h))
    <2>1. Settled(q.project)
      BY <1>2, <1>3 DEF KeepsProject
    <2>2. QED
      BY <2>1, SettledStays DEF Settled
  <1>4. ASSUME q.at \in {"create", "event", "gitpoap", "made", "add", "added"},
               NEW r \in q.wanted \ q.todo
        PROVE  repoOf'[r] = q.project
    <2>1. repoOf[r] = q.project
      BY <1>2, <1>4 DEF KeepsProject
    <2>2. r \in Repos
      BY DEF ProjectsInv, ProjectsTypeOK, Ask
    <2>3. q.project \in projects /\ ~(q.project = h /\ BeingCreated(h))
      <3>1. CASE q.at = "create"
        <4>1. k \in Creators
          BY <3>1, Names DEF ProjectsInv, OwnProject, Requests
        <4>2. q.project = k /\ k \in projects
          BY <3>1, <4>1 DEF ProjectsInv, OwnProject, Unfinished
        <4>3. QED
          BY <4>2
      <3>2. CASE q.at # "create"
        BY <1>3, <1>4, <3>2 DEF Settled
      <3>3. QED
        BY <3>1, <3>2
    <2>4. q.project # NoProject
      BY <2>3, ProjectsAssumption DEF ProjectsInv, ProjectsTypeOK
    <2>5. QED
      BY <2>1, <2>2, <2>3, <2>4 DEF Own
  <1>5. ASSUME q.at = "made" PROVE projectOf'[k] = q.project
    <2>1. projectOf[k] = q.project /\ k \in Creators
      BY <1>2, <1>5, Names DEF KeepsProject, ProjectsInv, OwnProject, Requests
    <2>2. QED
      BY <1>3, <1>5, <2>1 DEF Own
  <1>6. /\ q.at = "project" => q.todo = q.wanted
        /\ q.at \in {"event", "gitpoap", "made", "added"} => q.todo = {}
    BY <1>2 DEF KeepsProject
  <1>7. QED
    BY <1>1, <1>3, <1>4, <1>5, <1>6 DEF KeepsProject, Settled, BeingCreated

\* So it remains to look at h itself.
LEMMA Frame ==
    ASSUME ProjectsInv, NEW h \in Requests, Own(h), early \subseteq early',
           ProjectsTypeOK', OwnProject(h)', h \notin early' => KeepsProject(h)'
    PROVE  ProjectsInv'
  <1>1. ASSUME NEW k \in Requests, k # h PROVE OwnProject(k)'
    <2>1. asking'[k] = asking[k] /\ OwnProject(k)
      BY <1>1 DEF Own, ProjectsInv
    <2>2. k \in projects' <=> k \in projects
      BY <1>1 DEF Own
    <2>3. QED
      BY <2>1, <2>2 DEF OwnProject
  <1>2. ASSUME NEW k \in Requests \ early', k # h PROVE KeepsProject(k)'
    BY <1>2, OthersKeep
  <1>3. QED
    BY <1>1, <1>2 DEF ProjectsInv

-----------------------------------------------------------------------------
(* The steps.                                                              *)

LEMMA StepType ==
    ASSUME ProjectsInv, NEW h \in Requests, NEW at, Step(h, at),
           at \in {"gitpoap", "made", "refused", "undone", "threw"} \cup Unfinished
    PROVE  /\ asking' \in [Requests -> Ask]
           /\ asking'[h] = [asking[h] EXCEPT !.at = at]
           /\ \A k \in Requests \ {h} : asking'[k] = asking[k]
  BY DEF Step, ProjectsInv, ProjectsTypeOK, Ask, Unfinished

\* A step that ends a request, without effect on the rows.
LEMMA EndInv ==
    ASSUME ProjectsInv, NEW h \in Requests, NEW at \in {"refused", "threw"}, Step(h, at),
           asking[h].at = "idle" => at = "refused",
           asking[h].at # "undone",
           UNCHANGED <<projects, repoOf, pulled, projectOf, early>>
    PROVE  ProjectsInv'
  <1>1. /\ asking' \in [Requests -> Ask]
        /\ asking'[h] = [asking[h] EXCEPT !.at = at]
        /\ \A k \in Requests \ {h} : asking'[k] = asking[k]
    BY StepType
  <1>2. asking[h] \in Ask
    BY DEF ProjectsInv, ProjectsTypeOK
  <1>3. asking'[h].at = at
    BY <1>1, <1>2 DEF Ask
  <1>4. Own(h)
    BY <1>1, <1>3 DEF Own, Unfinished
  <1>5. ProjectsTypeOK'
    BY <1>1 DEF ProjectsInv, ProjectsTypeOK
  <1>6. OwnProject(h)'
    BY <1>3 DEF OwnProject, Unfinished
  <1>7. KeepsProject(h)'
    BY <1>3 DEF KeepsProject
  <1>8. QED
    BY <1>4, <1>5, <1>6, <1>7, Frame

LEMMA TakeInv ==
    ASSUME ProjectsInv, NEW h \in Requests, asking[h].at = "idle",
           NEW p \in ProjectIds \cup {NoProject},
           NEW at, NEW wanted \in SUBSET Repos, NEW todo \in SUBSET Repos, Take(h, p, at, wanted, todo),
           \/ h \in Creators /\ at = "event" /\ p \in projects /\ todo = {}
              /\ \A r \in wanted : repoOf[r] = p
           \/ h \in Creators /\ at = "project" /\ p = NoProject /\ todo = wanted
           \/ h \in Adders /\ at = "add" /\ p \in projects /\ todo = wanted,
           UNCHANGED <<projects, repoOf, pulled, projectOf>>
    PROVE  ProjectsInv'
  <1>1. PICK q : q = [at |-> at, project |-> p, wanted |-> wanted, todo |-> todo]
    OBVIOUS
  <1>2. /\ q \in Ask /\ asking' = [asking EXCEPT ![h] = q]
        /\ q.at = at /\ q.project = p /\ q.wanted = wanted /\ q.todo = todo
    <2>1. asking' = [asking EXCEPT ![h] = q]
      BY <1>1 DEF Take
    <2>2. q.at = at /\ q.project = p /\ q.wanted = wanted /\ q.todo = todo
      BY <1>1
    <2>3. at \in {"event", "project", "add"}
      OBVIOUS
    <2>4. q \in Ask
      BY <1>1, <2>3 DEF Ask
    <2>5. QED
      BY <2>1, <2>2, <2>4
  <1>3. asking' \in [Requests -> Ask] /\ asking'[h] = q
        /\ \A k \in Requests \ {h} : asking'[k] = asking[k]
    BY <1>2 DEF ProjectsInv, ProjectsTypeOK
  <1>4. early \subseteq early' /\ early' \subseteq Requests
    BY DEF Take, ProjectsInv, ProjectsTypeOK
  <1>5. Own(h)
    BY <1>2, <1>3 DEF Own, Unfinished
  <1>6. ProjectsTypeOK'
    BY <1>3, <1>4 DEF ProjectsInv, ProjectsTypeOK
  <1>7. OwnProject(h)'
    <2>1. OwnProject(h)
      BY DEF ProjectsInv
    <2>2. QED
      BY <1>2, <1>3, <2>1, Names DEF OwnProject, Unfinished
  <1>8. ASSUME h \notin early' PROVE KeepsProject(h)'
    <2>1. CASE at = "project"
      BY <1>2, <1>3, <2>1 DEF KeepsProject
    <2>2. CASE at # "project"
      <3>1. Settled(p)
        BY <1>8, <2>2 DEF Take, Settled
      <3>2. Settled(p)'
        BY <3>1, <1>5, SettledStays
      <3>3. QED
        BY <1>2, <1>3, <2>2, <3>2 DEF KeepsProject, Settled, BeingCreated
    <2>3. QED
      BY <2>1, <2>2
  <1>9. QED
    BY <1>4, <1>5, <1>6, <1>7, <1>8, Frame

LEMMA ChooseInv ==
    ASSUME ProjectsInv, NEW h \in Creators,
           \/ \E p \in ProjectIds : ChooseProject(h, p)
           \/ \E wanted \in (SUBSET Repos) \ {{}} : ChooseRepos(h, wanted)
    PROVE  ProjectsInv'
  <1>1. h \in Requests /\ asking[h].at = "idle"
    BY Names DEF ChooseProject, ChooseRepos
  <1>2. ASSUME NEW p \in ProjectIds, ChooseProject(h, p) PROVE ProjectsInv'
    <2>1. CASE p \in projects /\ Take(h, p, "event", {}, {})
      BY <1>1, <1>2, <2>1, TakeInv DEF ChooseProject
    <2>2. CASE Step(h, "refused") /\ UNCHANGED early
      BY <1>1, <1>2, <2>2, EndInv DEF ChooseProject
    <2>3. QED
      BY <1>2, <2>1, <2>2 DEF ChooseProject
  <1>3. ASSUME NEW wanted \in SUBSET Repos, ChooseRepos(h, wanted) PROVE ProjectsInv'
    <2>1. ASSUME NEW r \in Repos, wanted = {r}, repoOf[r] # NoProject,
                 Take(h, repoOf[r], "event", wanted, {})
          PROVE  ProjectsInv'
      <3>1. repoOf[r] \in projects /\ projects \subseteq ProjectIds
        BY <2>1 DEF ProjectsInv, ProjectsTypeOK
      <3>2. \A s \in wanted : repoOf[s] = repoOf[r]
        BY <2>1
      <3>3. PICK p \in ProjectIds : p = repoOf[r]
        BY <3>1
      <3>4. p \in projects /\ (\A s \in wanted : repoOf[s] = p) /\ Take(h, p, "event", wanted, {})
        BY <2>1, <3>1, <3>2, <3>3
      <3>5. QED
        BY <1>1, <1>3, <3>4, TakeInv DEF ChooseRepos
    <2>2. CASE Take(h, NoProject, "project", wanted, wanted)
      BY <1>1, <1>3, <2>2, TakeInv DEF ChooseRepos
    <2>3. QED
      BY <1>3, <2>1, <2>2 DEF ChooseRepos
  <1>4. QED
    BY <1>2, <1>3

LEMMA ReadProjectInv ==
    ASSUME ProjectsInv, NEW h \in Adders, NEW p \in ProjectIds, NEW wanted \in SUBSET Repos,
           ReadProject(h, p, wanted)
    PROVE  ProjectsInv'
  <1>1. h \in Requests /\ asking[h].at = "idle"
    BY Names DEF ReadProject
  <1>2. CASE p \in projects /\ Take(h, p, "add", wanted, wanted)
    BY <1>1, <1>2, TakeInv DEF ReadProject
  <1>3. CASE Step(h, "refused") /\ UNCHANGED early
    BY <1>1, <1>3, EndInv DEF ReadProject
  <1>4. QED
    BY <1>2, <1>3 DEF ReadProject

LEMMA CreateProjectInv ==
    ASSUME ProjectsInv, NEW h \in Creators, CreateProject(h) PROVE ProjectsInv'
  <1>1. PICK q : q = [asking[h] EXCEPT !.at = "create", !.project = h]
    OBVIOUS
  <1>2. asking[h] \in Ask /\ asking[h].at = "project" /\ h \in Requests /\ h \in ProjectIds
    BY Names DEF CreateProject, ProjectsInv, ProjectsTypeOK
  <1>3. q \in Ask /\ q.at = "create" /\ q.project = h
    BY <1>1, <1>2 DEF Ask, Unfinished
  <1>4. /\ asking' \in [Requests -> Ask] /\ asking'[h] = q
        /\ \A k \in Requests \ {h} : asking'[k] = asking[k]
    BY <1>1, <1>2, <1>3 DEF CreateProject, ProjectsInv, ProjectsTypeOK
  <1>5. Own(h)
    BY <1>2, <1>3, <1>4 DEF CreateProject, Own
  <1>6. ProjectsTypeOK'
    BY <1>2, <1>4 DEF CreateProject, ProjectsInv, ProjectsTypeOK
  <1>7. OwnProject(h)'
    BY <1>3, <1>4, Names DEF CreateProject, OwnProject
  <1>8. ASSUME h \notin early PROVE KeepsProject(h)'
    <2>1. q.wanted \ q.todo = {}
      BY <1>1, <1>2, <1>8 DEF ProjectsInv, KeepsProject, Ask
    <2>2. QED
      BY <1>3, <1>4, <2>1 DEF KeepsProject
  <1>9. QED
    BY <1>2, <1>5, <1>6, <1>7, <1>8, Frame DEF CreateProject

\* A repo is inserted: it had no row before.
LEMMA InsertInv ==
    ASSUME ProjectsInv, NEW h \in Requests, NEW r \in asking[h].todo, NEW at,
           \/ h \in Creators /\ asking[h].at = "create" /\ at \in {"create", "event"}
           \/ h \in Adders /\ asking[h].at = "add" /\ at \in {"add", "added"},
           at \in {"event", "added"} <=> asking[h].todo = {r},
           Insertable(r, asking[h].project),
           repoOf' = [repoOf EXCEPT ![r] = asking[h].project],
           asking' = [asking EXCEPT ![h] = [@ EXCEPT !.todo = asking[h].todo \ {r}, !.at = at]],
           UNCHANGED <<projects, pulled, projectOf, early>>
    PROVE  ProjectsInv'
  <1>1. PICK q : q = [asking[h] EXCEPT !.todo = asking[h].todo \ {r}, !.at = at]
    OBVIOUS
  <1>2. asking[h] \in Ask /\ r \in Repos /\ asking[h].project \in projects
    BY DEF Insertable, ProjectsInv, ProjectsTypeOK, Ask
  <1>3. /\ q \in Ask /\ q.at = at /\ q.project = asking[h].project
        /\ q.wanted = asking[h].wanted /\ q.todo = asking[h].todo \ {r}
    BY <1>1, <1>2 DEF Ask, Unfinished
  <1>4. /\ asking' \in [Requests -> Ask] /\ asking'[h] = q
        /\ \A k \in Requests \ {h} : asking'[k] = asking[k]
    <2>1. asking' = [asking EXCEPT ![h] = q]
      BY <1>1
    <2>2. asking \in [Requests -> Ask]
      BY DEF ProjectsInv, ProjectsTypeOK
    <2>3. QED
      BY <1>3, <2>1, <2>2
  <1>5. /\ repoOf' \in [Repos -> projects \cup {NoProject}] /\ repoOf'[r] = asking[h].project
        /\ repoOf[r] = NoProject /\ \A s \in Repos \ {r} : repoOf'[s] = repoOf[s]
    BY <1>2 DEF Insertable, ProjectsInv, ProjectsTypeOK
  <1>6. asking[h].project # NoProject
    BY <1>2, ProjectsAssumption DEF ProjectsInv, ProjectsTypeOK
  <1>7. Own(h)
    BY <1>3, <1>4, <1>5 DEF Own, Unfinished
  <1>8. ProjectsTypeOK'
    BY <1>4, <1>5, <1>6 DEF ProjectsInv, ProjectsTypeOK
  <1>9. OwnProject(h)'
    <2>1. OwnProject(h)
      BY DEF ProjectsInv
    <2>2. QED
      BY <1>3, <1>4, <2>1, Names DEF OwnProject, Unfinished
  <1>10. ASSUME h \notin early PROVE KeepsProject(h)'
    <2>1. KeepsProject(h)
      BY <1>10 DEF ProjectsInv
    <2>2. \A s \in q.wanted \ q.todo : repoOf'[s] = q.project
      BY <1>2, <1>3, <1>5, <2>1 DEF KeepsProject, Ask
    <2>3. at \in {"event", "added"} => q.todo = {}
      BY <1>3
    <2>4. at # "create" => Settled(q.project)'
      <3>1. CASE h \in Creators /\ at = "event"
        <4>1. q.project = h /\ h \in projects
          BY <1>3, <3>1, Names DEF ProjectsInv, OwnProject, Unfinished
        <4>2. QED
          BY <1>3, <1>4, <3>1, <4>1 DEF Settled, BeingCreated, Unfinished
      <3>2. CASE h \in Adders
        <4>1. Settled(asking[h].project)
          BY <2>1, <3>2, Names DEF KeepsProject
        <4>2. PICK p : p = asking[h].project
          OBVIOUS
        <4>3. Settled(p)'
          BY <1>7, <4>1, <4>2, SettledStays
        <4>4. QED
          BY <1>3, <4>2, <4>3 DEF Settled, BeingCreated
      <3>3. QED
        BY <3>1, <3>2
    <2>5. QED
      BY <1>3, <1>4, <2>2, <2>3, <2>4 DEF KeepsProject, Settled, BeingCreated
  <1>11. QED
    BY <1>7, <1>8, <1>9, <1>10, Frame

\* A step on the way: only where the request is changes.
LEMMA GotoInv ==
    ASSUME ProjectsInv, NEW h \in Creators, NEW at, Step(h, at),
           \/ asking[h].at = "create" /\ at = "undo repos"
           \/ asking[h].at = "event" /\ at = "gitpoap",
           UNCHANGED <<projects, repoOf, pulled, projectOf, early>>
    PROVE  ProjectsInv'
  <1>1. h \in Requests /\ asking[h] \in Ask
    BY Names DEF ProjectsInv, ProjectsTypeOK
  <1>2. /\ asking' \in [Requests -> Ask]
        /\ asking'[h] = [asking[h] EXCEPT !.at = at]
        /\ \A k \in Requests \ {h} : asking'[k] = asking[k]
    BY <1>1, StepType DEF Unfinished
  <1>3. PICK q : q = asking'[h]
    OBVIOUS
  <1>4. /\ q.at = at /\ q.project = asking[h].project
        /\ q.wanted = asking[h].wanted /\ q.todo = asking[h].todo
    BY <1>1, <1>2, <1>3 DEF Ask
  <1>5. Own(h)
    BY <1>2, <1>3, <1>4 DEF Own, Unfinished
  <1>6. ProjectsTypeOK'
    BY <1>2 DEF ProjectsInv, ProjectsTypeOK
  <1>7. OwnProject(h)'
    <2>1. OwnProject(h)
      BY <1>1 DEF ProjectsInv
    <2>2. QED
      BY <1>3, <1>4, <2>1, Names DEF OwnProject, Unfinished
  <1>8. ASSUME h \notin early PROVE KeepsProject(h)'
    <2>1. CASE at = "undo repos"
      BY <1>3, <1>4, <2>1 DEF KeepsProject
    <2>2. CASE at = "gitpoap" /\ asking[h].at = "event"
      <3>1. KeepsProject(h)
        BY <1>1, <1>8 DEF ProjectsInv
      <3>2. Settled(q.project)
        BY <1>4, <2>2, <3>1 DEF KeepsProject
      <3>3. Settled(q.project)'
        BY <1>1, <1>5, <3>2, SettledStays
      <3>4. QED
        BY <1>3, <1>4, <2>2, <3>1, <3>3 DEF KeepsProject, Settled, BeingCreated
    <2>3. QED
      BY <2>1, <2>2
  <1>9. QED
    BY <1>1, <1>5, <1>6, <1>7, <1>8, Frame

LEMMA CreateRepoInv ==
    ASSUME ProjectsInv, NEW h \in Creators, NEW r \in Repos, CreateRepo(h, r) PROVE ProjectsInv'
  <1>1. h \in Requests /\ r \in asking[h].todo /\ asking[h].at = "create"
    BY Names DEF CreateRepo
  <1>2. CASE Step(h, "undo repos") /\ UNCHANGED repoOf
    BY <1>1, <1>2, GotoInv DEF CreateRepo
  <1>3. CASE /\ Insertable(r, asking[h].project)
             /\ repoOf' = [repoOf EXCEPT ![r] = asking[h].project]
             /\ asking' = [asking EXCEPT ![h] = [@ EXCEPT !.todo = asking[h].todo \ {r},
                   !.at = IF asking[h].todo = {r} THEN "event" ELSE "create"]]
    <2>1. PICK at : at = IF asking[h].todo = {r} THEN "event" ELSE "create"
      OBVIOUS
    <2>2. asking' = [asking EXCEPT ![h] = [@ EXCEPT !.todo = asking[h].todo \ {r}, !.at = at]]
      BY <1>3, <2>1
    <2>3. at \in {"create", "event"} /\ (at \in {"event", "added"} <=> asking[h].todo = {r})
      BY <2>1
    <2>4. UNCHANGED <<projects, pulled, projectOf, early>>
      BY DEF CreateRepo
    <2>5. QED
      BY <1>1, <1>3, <2>2, <2>3, <2>4, InsertInv
  <1>4. QED
    BY <1>2, <1>3 DEF CreateRepo

LEMMA AddRepoInv ==
    ASSUME ProjectsInv, NEW h \in Adders, NEW r \in Repos, AddRepo(h, r) PROVE ProjectsInv'
  <1> DEFINE left == asking[h].todo \ {r}
  <1>1. h \in Requests /\ r \in asking[h].todo /\ asking[h].at = "add" /\ asking[h] \in Ask
    BY Names DEF AddRepo, ProjectsInv, ProjectsTypeOK
  <1>2. UNCHANGED <<projects, pulled, projectOf, early>>
    BY DEF AddRepo
  <1>3. PICK at : at = IF left = {} THEN "added" ELSE "add"
    OBVIOUS
  <1>4. at \in {"add", "added"} /\ (at \in {"event", "added"} <=> asking[h].todo = {r})
    BY <1>1, <1>3
  <1>5. CASE /\ Insertable(r, asking[h].project)
             /\ repoOf' = [repoOf EXCEPT ![r] = asking[h].project]
             /\ asking' = [asking EXCEPT ![h] = [@ EXCEPT !.todo = left,
                   !.at = IF left = {} THEN "added" ELSE "add"]]
    <2>1. asking' = [asking EXCEPT ![h] = [@ EXCEPT !.todo = asking[h].todo \ {r}, !.at = at]]
      BY <1>3, <1>5
    <2>2. QED
      BY <1>1, <1>2, <1>4, <1>5, <2>1, InsertInv
  <1>6. CASE /\ asking' = [asking EXCEPT ![h] = [@ EXCEPT !.todo = left, !.wanted = asking[h].wanted \ {r},
                   !.at = IF left = {} THEN "added" ELSE "add"]]
             /\ UNCHANGED repoOf
    <2>1. PICK q : q = [asking[h] EXCEPT !.todo = left, !.wanted = asking[h].wanted \ {r}, !.at = at]
      OBVIOUS
    <2>2. /\ q \in Ask /\ q.at = at /\ q.project = asking[h].project
          /\ q.wanted = asking[h].wanted \ {r} /\ q.todo = left
      BY <1>1, <1>4, <2>1 DEF Ask
    <2>3. asking' = [asking EXCEPT ![h] = q]
      BY <1>3, <1>6, <2>1
    <2>4. /\ asking' \in [Requests -> Ask] /\ asking'[h] = q
          /\ \A k \in Requests \ {h} : asking'[k] = asking[k]
      BY <1>1, <2>2, <2>3 DEF ProjectsInv, ProjectsTypeOK
    <2>5. Own(h)
      BY <1>2, <1>4, <1>6, <2>2, <2>4 DEF Own, Unfinished
    <2>6. ProjectsTypeOK'
      BY <1>2, <1>6, <2>4 DEF ProjectsInv, ProjectsTypeOK
    <2>7. OwnProject(h)'
      BY <1>4, <2>2, <2>4, Names DEF OwnProject
    <2>8. ASSUME h \notin early PROVE KeepsProject(h)'
      <3>1. KeepsProject(h)
        BY <1>1, <2>8 DEF ProjectsInv
      <3>2. Settled(q.project)
        BY <1>1, <2>2, <3>1 DEF KeepsProject
      <3>3. Settled(q.project)'
        BY <1>1, <2>5, <3>2, SettledStays
      <3>4. \A s \in q.wanted \ q.todo : repoOf'[s] = q.project
        BY <1>1, <1>6, <2>2, <3>1 DEF KeepsProject
      <3>5. at = "added" => q.todo = {}
        BY <1>3, <2>2
      <3>6. QED
        BY <1>4, <2>2, <2>4, <3>3, <3>4, <3>5 DEF KeepsProject, Settled, BeingCreated
    <2>9. QED
      BY <1>1, <1>2, <2>5, <2>6, <2>7, <2>8, Frame
  <1>7. QED
    BY <1>5, <1>6 DEF AddRepo

\* The repos of an unfinished project go; nobody who was given a settled one has it.
LEMMA RemoveReposInv == ASSUME ProjectsInv, NEW h \in Creators, RemoveRepos(h) PROVE ProjectsInv'
  <1>1. h \in Requests /\ asking[h].at = "undo repos" /\ asking[h] \in Ask
    BY Names DEF RemoveRepos, ProjectsInv, ProjectsTypeOK
  <1>2. CASE Step(h, "threw") /\ UNCHANGED repoOf
    BY <1>1, <1>2, EndInv DEF RemoveRepos
  <1>3. CASE /\ Of(h) \cap pulled = {}
             /\ repoOf' = [r \in Repos |-> IF r \in Of(h) THEN NoProject ELSE repoOf[r]]
             /\ Step(h, "undo project")
    <2>1. /\ asking' \in [Requests -> Ask]
          /\ asking'[h] = [asking[h] EXCEPT !.at = "undo project"]
          /\ \A k \in Requests \ {h} : asking'[k] = asking[k]
      BY <1>1, <1>3, StepType DEF Unfinished
    <2>2. asking'[h].at = "undo project" /\ asking'[h].project = asking[h].project
      BY <1>1, <2>1 DEF Ask
    <2>3. BeingCreated(h)
      BY <1>1 DEF BeingCreated, Unfinished
    <2>4. \A r \in Repos : repoOf'[r] = repoOf[r] \/ (repoOf[r] = h /\ repoOf'[r] = NoProject)
      BY <1>3 DEF Of
    <2>5. Own(h)
      BY <1>1, <2>1, <2>2, <2>3, <2>4 DEF Own, RemoveRepos, Unfinished
    <2>6. ProjectsTypeOK'
      <3>1. repoOf' \in [Repos -> projects \cup {NoProject}]
        BY <1>3 DEF ProjectsInv, ProjectsTypeOK
      <3>2. pulled \subseteq {r \in Repos : repoOf'[r] # NoProject}
        BY <1>3 DEF ProjectsInv, ProjectsTypeOK, Of
      <3>3. QED
        BY <2>1, <3>1, <3>2 DEF RemoveRepos, ProjectsInv, ProjectsTypeOK
    <2>7. OwnProject(h)'
      <3>1. OwnProject(h)
        BY <1>1 DEF ProjectsInv
      <3>2. QED
        BY <1>1, <2>2, <3>1, Names DEF RemoveRepos, OwnProject, Unfinished
    <2>8. KeepsProject(h)'
      BY <2>2 DEF KeepsProject
    <2>9. QED
      BY <1>1, <2>5, <2>6, <2>7, <2>8, Frame DEF RemoveRepos
  <1>4. QED
    BY <1>2, <1>3 DEF RemoveRepos

LEMMA RemoveProjectInv ==
    ASSUME ProjectsInv, NEW h \in Creators, RemoveProject(h) PROVE ProjectsInv'
  <1>1. h \in Requests /\ asking[h].at = "undo project" /\ asking[h] \in Ask
    BY Names DEF RemoveProject, ProjectsInv, ProjectsTypeOK
  <1>2. CASE Step(h, "threw") /\ UNCHANGED <<projects, projectOf>>
    BY <1>1, <1>2, EndInv DEF RemoveProject
  <1>3. CASE /\ Of(h) = {}
             /\ projects' = projects \ {h}
             /\ projectOf' = [k \in Creators |-> IF projectOf[k] = h THEN NoProject ELSE projectOf[k]]
             /\ Step(h, "undone")
    <2>1. /\ asking' \in [Requests -> Ask]
          /\ asking'[h] = [asking[h] EXCEPT !.at = "undone"]
          /\ \A k \in Requests \ {h} : asking'[k] = asking[k]
      BY <1>1, <1>3, StepType
    <2>2. asking'[h].at = "undone"
      BY <1>1, <2>1 DEF Ask
    <2>3. BeingCreated(h)
      BY <1>1 DEF BeingCreated, Unfinished
    <2>4. Own(h)
      BY <1>3, <2>1, <2>2, <2>3 DEF Own, RemoveProject, Unfinished
    <2>5. ProjectsTypeOK'
      <3>1. repoOf' \in [Repos -> projects' \cup {NoProject}]
        BY <1>3 DEF ProjectsInv, ProjectsTypeOK, Of, RemoveProject
      <3>2. projectOf' \in [Creators -> projects' \cup {NoProject}]
        BY <1>3 DEF ProjectsInv, ProjectsTypeOK
      <3>3. QED
        BY <1>3, <2>1, <3>1, <3>2 DEF RemoveProject, ProjectsInv, ProjectsTypeOK
    <2>6. OwnProject(h)'
      BY <1>3, <2>2, Names DEF OwnProject, Unfinished
    <2>7. KeepsProject(h)'
      BY <2>2 DEF KeepsProject
    <2>8. QED
      BY <1>1, <2>4, <2>5, <2>6, <2>7, Frame DEF RemoveProject
  <1>4. QED
    BY <1>2, <1>3 DEF RemoveProject

LEMMA MakeEventInv == ASSUME ProjectsInv, NEW h \in Creators, MakeEvent(h) PROVE ProjectsInv'
  <1>1. h \in Requests
    BY Names
  <1>2. CASE Step(h, "gitpoap")
    BY <1>2, GotoInv DEF MakeEvent
  <1>3. CASE Step(h, "refused")
    BY <1>1, <1>3, EndInv DEF MakeEvent
  <1>4. QED
    BY <1>2, <1>3 DEF MakeEvent

LEMMA MakeGitPOAPInv == ASSUME ProjectsInv, NEW h \in Creators, MakeGitPOAP(h) PROVE ProjectsInv'
  <1>1. h \in Requests /\ asking[h].at = "gitpoap" /\ asking[h] \in Ask
    BY Names DEF MakeGitPOAP, ProjectsInv, ProjectsTypeOK
  <1>2. CASE Step(h, "threw") /\ UNCHANGED projectOf
    BY <1>1, <1>2, EndInv DEF MakeGitPOAP
  <1>3. CASE /\ asking[h].project \in projects
             /\ projectOf' = [projectOf EXCEPT ![h] = asking[h].project]
             /\ Step(h, "made")
    <2>1. /\ asking' \in [Requests -> Ask]
          /\ asking'[h] = [asking[h] EXCEPT !.at = "made"]
          /\ \A k \in Requests \ {h} : asking'[k] = asking[k]
      BY <1>1, <1>3, StepType
    <2>2. PICK q : q = asking'[h]
      OBVIOUS
    <2>3. /\ q.at = "made" /\ q.project = asking[h].project
          /\ q.wanted = asking[h].wanted /\ q.todo = asking[h].todo
      BY <1>1, <2>1, <2>2 DEF Ask
    <2>4. /\ projectOf' \in [Creators -> projects \cup {NoProject}]
          /\ projectOf'[h] = asking[h].project
          /\ \A k \in Creators \ {h} : projectOf'[k] = projectOf[k]
      BY <1>3 DEF ProjectsInv, ProjectsTypeOK
    <2>5. Own(h)
      BY <2>1, <2>2, <2>3, <2>4 DEF MakeGitPOAP, Own, Unfinished
    <2>6. ProjectsTypeOK'
      BY <2>1, <2>4 DEF MakeGitPOAP, ProjectsInv, ProjectsTypeOK
    <2>7. OwnProject(h)'
      BY <2>2, <2>3, Names DEF OwnProject, Unfinished
    <2>8. ASSUME h \notin early PROVE KeepsProject(h)'
      <3>1. KeepsProject(h)
        BY <1>1, <2>8 DEF ProjectsInv
      <3>2. Settled(q.project)
        BY <1>1, <2>3, <3>1 DEF KeepsProject
      <3>3. Settled(q.project)'
        BY <1>1, <2>5, <3>2, SettledStays
      <3>4. /\ \A r \in q.wanted \ q.todo : repoOf'[r] = q.project
            /\ q.todo = {}
        BY <1>1, <2>3, <3>1 DEF KeepsProject, MakeGitPOAP
      <3>5. QED
        BY <2>2, <2>3, <2>4, <3>3, <3>4 DEF KeepsProject, Settled, BeingCreated
    <2>9. QED
      BY <1>1, <2>5, <2>6, <2>7, <2>8, Frame DEF MakeGitPOAP
  <1>4. QED
    BY <1>2, <1>3 DEF MakeGitPOAP

LEMMA ProjectsStep == ProjectsInv /\ [ProjectsNext]_projectVars => ProjectsInv'
  <1> SUFFICES ASSUME ProjectsInv, [ProjectsNext]_projectVars PROVE ProjectsInv'
    OBVIOUS
  <1>1. ASSUME NEW h \in Requests, Stop(h) PROVE ProjectsInv'
    BY <1>1, EndInv DEF Stop
  <1>2. ASSUME NEW h \in Creators, CreatorStep(h) PROVE ProjectsInv'
    BY <1>1, <1>2, Names, ChooseInv, CreateProjectInv, CreateRepoInv, RemoveReposInv,
       RemoveProjectInv, MakeEventInv, MakeGitPOAPInv DEF CreatorStep
  <1>3. ASSUME NEW h \in Adders, AdderStep(h) PROVE ProjectsInv'
    BY <1>1, <1>3, Names, ReadProjectInv, AddRepoInv DEF AdderStep
  <1>4. ASSUME NEW r \in Repos, RecordPull(r) PROVE ProjectsInv'
    <2>1. ProjectsTypeOK'
      BY <1>4 DEF RecordPull, ProjectsInv, ProjectsTypeOK
    <2>2. QED
      BY <1>4, <2>1 DEF RecordPull, ProjectsInv, OwnProject, KeepsProject, Settled, BeingCreated
  <1>5. CASE UNCHANGED projectVars
    BY <1>5 DEF projectVars, ProjectsInv, ProjectsTypeOK, OwnProject, KeepsProject, Settled, BeingCreated
  <1>6. QED
    BY <1>2, <1>3, <1>4, <1>5 DEF ProjectsNext

LEMMA ProjectsHold == ProjectsSpec => []ProjectsInv
  BY InitProjects, ProjectsStep, PTL DEF ProjectsSpec

-----------------------------------------------------------------------------
\* Rows keep their types; in particular, no repo and no GitPOAP names a project
\* that was deleted.
THEOREM ProjectTypesHold == ProjectsSpec => []ProjectsTypeOK
  <1>1. ProjectsInv => ProjectsTypeOK
    BY DEF ProjectsInv
  <1>2. QED
    BY <1>1, ProjectsHold, PTL

\* However creations fail and are rolled back meanwhile, who was given a project
\* that was not being created keeps it, with the repos it was asked for.
THEOREM SettledProjectsStay == ProjectsSpec => []ReposStay
  <1>1. ProjectsInv => ReposStay
    <2> SUFFICES ASSUME ProjectsInv, NEW h \in Requests \ early
                 PROVE  /\ asking[h].at = "made" => projectOf[h] \in projects
                        /\ asking[h].at \in {"event", "gitpoap", "made", "added"} =>
                              \A r \in asking[h].wanted : repoOf[r] = asking[h].project
      BY DEF ReposStay
    <2>1. KeepsProject(h)
      BY DEF ProjectsInv
    <2>2. QED
      BY <2>1 DEF KeepsProject, Settled
  <1>2. QED
    BY <1>1, ProjectsHold, PTL

\* A creation that was rolled back has left no project and no repos.
THEOREM RollbacksAreComplete == ProjectsSpec => []UndoneAreGone
  <1>1. ProjectsInv => UndoneAreGone
    <2> SUFFICES ASSUME ProjectsInv, NEW h \in Creators, asking[h].at = "undone"
                 PROVE  h \notin projects /\ Of(h) = {}
      BY DEF UndoneAreGone
    <2>1. h \notin projects
      BY Names DEF ProjectsInv, OwnProject
    <2>2. Of(h) = {}
      BY <2>1, Names DEF Of, ProjectsInv, ProjectsTypeOK
    <2>3. QED
      BY <2>1, <2>2
  <1>2. QED
    BY <1>1, ProjectsHold, PTL

-----------------------------------------------------------------------------
(* BatchTiming                                                             *)

LEMMA InitBatches == BatchInit => BatchInv
  BY DEF BatchInit, BatchInv, BatchTypeOK, LooksAreTrue, RunsAreSpaced

LEMMA ServersOfAttempts == \A t \in Attempts : ServerOf[t] \in Servers
  BY BatchAssumption

-----------------------------------------------------------------------------
(* Each step keeps the invariant.                                          *)

LEMMA LookInv == ASSUME BatchInv, NEW t \in Attempts, Look(t) PROVE BatchInv'
  <1> USE ServersOfAttempts DEF BatchInv
  <1>1. CASE UNCHANGED <<attempt, outrun>>
    <2>1. BatchTypeOK'
      BY <1>1 DEF Look, BatchTypeOK
    <2>2. QED
      BY <1>1, <2>1 DEF Look, LooksAreTrue, RunsAreSpaced
  <1>2. CASE lastRun # "recent" /\ Become(t, "update") /\ outrun' = outrun \ {t}
    <2>1. server' \in [Servers -> {"down", "up", "first", "timer"}]
      BY DEF Look, BatchTypeOK
    <2>2. BatchTypeOK'
      BY <1>2, <2>1 DEF Look, BatchTypeOK, Become
    <2>3. begun = {}
      BY <1>2 DEF LooksAreTrue
    <2>4. LooksAreTrue'
      BY <1>2, <2>3 DEF Look, LooksAreTrue
    <2>5. QED
      BY <2>2, <2>3, <2>4 DEF Look, RunsAreSpaced
  <1>3. QED
    BY <1>1, <1>2 DEF Look

LEMMA TriggerInv == ASSUME BatchInv, NEW t \in Attempts, Trigger(t) PROVE BatchInv'
  <1>1. BatchTypeOK'
    BY DEF Trigger, Become, BatchInv, BatchTypeOK
  <1>2. LooksAreTrue'
    BY DEF Trigger, Become, BatchInv, BatchTypeOK, LooksAreTrue
  <1>3. RunsAreSpaced'
    BY DEF Trigger, BatchInv, RunsAreSpaced
  <1>4. QED
    BY <1>1, <1>2, <1>3 DEF BatchInv

\* The first to begin is alone; who begins later was outrun.
LEMMA BeginInv == ASSUME BatchInv, NEW t \in Attempts, Begin(t) PROVE BatchInv'
  <1> USE DEF Begin, Begins, Become, BatchInv
  <1>1. BatchTypeOK'
    BY DEF BatchTypeOK
  <1>2. \A u \in Attempts : attempt'[u] = "update" => u \in outrun'
    BY DEF BatchTypeOK
  <1>3. LooksAreTrue'
    BY <1>2 DEF LooksAreTrue
  <1>4. RunsAreSpaced'
    <2>1. CASE begun' = begun
      BY <2>1 DEF RunsAreSpaced
    <2>2. CASE begun' = begun \cup {t} /\ t \in outrun
      BY <2>2 DEF RunsAreSpaced
    <2>3. CASE begun' = begun \cup {t} /\ t \notin outrun /\ attempt[t] = "update"
      <3>1. begun = {}
        BY <2>3 DEF LooksAreTrue
      <3>2. QED
        BY <2>3, <3>1 DEF RunsAreSpaced
    <2>4. QED
      BY <2>1, <2>2, <2>3
  <1>5. QED
    BY <1>1, <1>3, <1>4

LEMMA FinishInv == ASSUME BatchInv, NEW t \in Attempts, Finish(t) PROVE BatchInv'
  <1>1. server' \in [Servers -> {"down", "up", "first", "timer"}]
    BY ServersOfAttempts DEF Finish, BatchInv, BatchTypeOK
  <1>2. BatchTypeOK'
    BY <1>1 DEF Finish, Become, BatchInv, BatchTypeOK
  <1>3. LooksAreTrue'
    BY DEF Finish, Become, BatchInv, BatchTypeOK, LooksAreTrue
  <1>4. RunsAreSpaced'
    BY DEF Finish, BatchInv, RunsAreSpaced
  <1>5. QED
    BY <1>2, <1>3, <1>4 DEF BatchInv

LEMMA ServerInv == ASSUME BatchInv, NEW s \in Servers, Boot(s) \/ Halt(s) PROVE BatchInv'
  <1>1. BatchTypeOK'
    BY DEF Boot, Halt, BatchInv, BatchTypeOK
  <1>2. LooksAreTrue'
    BY DEF Boot, Halt, BatchInv, BatchTypeOK, LooksAreTrue
  <1>3. RunsAreSpaced'
    BY DEF Boot, Halt, BatchInv, RunsAreSpaced
  <1>4. QED
    BY <1>1, <1>2, <1>3 DEF BatchInv

LEMMA ElapseInv == ASSUME BatchInv, Elapse PROVE BatchInv'
  BY DEF Elapse, BatchInv, BatchTypeOK, LooksAreTrue, RunsAreSpaced

LEMMA BatchesStep == BatchInv /\ [BatchNext]_batchVars => BatchInv'
  <1> SUFFICES ASSUME BatchInv, [BatchNext]_batchVars PROVE BatchInv'
    OBVIOUS
  <1>1. CASE UNCHANGED batchVars
    BY <1>1 DEF batchVars, BatchInv, BatchTypeOK, LooksAreTrue, RunsAreSpaced
  <1>2. CASE BatchNext
    BY <1>2, LookInv, TriggerInv, BeginInv, FinishInv, ServerInv, ElapseInv DEF BatchNext
  <1>3. QED
    BY <1>1, <1>2

-----------------------------------------------------------------------------
LEMMA BatchesHold == BatchSpec => []BatchInv
  BY InitBatches, BatchesStep, PTL DEF BatchSpec

\* Servers, attempts and the BatchTiming row keep their types.
THEOREM BatchTypesHold == BatchSpec => []BatchTypeOK
  <1>1. BatchInv => BatchTypeOK
    BY DEF BatchInv
  <1>2. QED
    BY <1>1, BatchesHold, PTL

\* Within one delay a single attempt begins a run of all that were not outrun
\* between their look at the BatchTiming row and their update of it.
THEOREM RunsHaveTheirDelay == BatchSpec => []RunsAreSpaced
  <1>1. BatchInv => RunsAreSpaced
    BY DEF BatchInv
  <1>2. QED
    BY <1>1, BatchesHold, PTL
=============================================================================
