--------------------------- MODULE CodeSupplyProofs ---------------------------
(* Proofs about CodeSupply, for every number of codes and handlers.        *)
EXTENDS CodeSupply, FiniteSetTheorems, TLAPS

\* The number of rows a code check counts is a natural number.
LEMMA CountIsNat == ASSUME NEW S, S \subseteq Codes PROVE Cardinality(S) \in Nat
  BY CodesAssumption, FS_Subset, FS_CardinalityType

LEMMA NoCheckType == NoCheck \in CheckType /\ NewCheck \in CheckType
  BY DEF NoCheck, NewCheck, CheckType, CheckSteps

\* Every step of a code check keeps the types of rows, codes and checks.
LEMMA CheckTypes ==
    ASSUME CodesTypeOK, NEW p \in Checkers, CheckStep(p) PROVE CodesTypeOK'
  <1> USE DEF CodesTypeOK
  <1>0. ASSUME NEW new \in CheckType, check' = [check EXCEPT ![p] = new],
               UNCHANGED <<redeemCodes, rowId, poap>>
        PROVE  CodesTypeOK'
    BY <1>0
  <1>1. CASE CheckCount(p)
    <2> DEFINE new == [check[p] EXCEPT !.at = "fetch", !.start = Cardinality(redeemCodes)]
    <2>1. Cardinality(redeemCodes) \in Nat
      BY CountIsNat
    <2>2. new \in CheckType
      BY <2>1 DEF CheckType, CheckSteps
    <2>3. QED
      BY <1>0, <1>1, <2>2 DEF CheckCount
  <1>2. CASE CheckFetch(p)
    <2> DEFINE free == {k \in Codes : poap[k] = "free"}
               new == [check[p] EXCEPT !.at = "find", !.unused = free]
    <2>1. free \in SUBSET Codes
      OBVIOUS
    <2> HIDE DEF free
    <2>2. new \in CheckType
      BY <2>1 DEF CheckType, CheckSteps
    <2>3. QED
      BY <1>0, <1>2, <2>2 DEF CheckFetch, free
  <1>3. CASE CheckFetchFails(p)
    <2>1. PICK end \in {"same", "threw"} : check' = [check EXCEPT ![p].at = end]
      BY <1>3 DEF CheckFetchFails
    <2> DEFINE new == [check[p] EXCEPT !.at = end]
    <2>2. new \in CheckType
      BY DEF CheckType, CheckSteps
    <2>3. QED
      BY <1>0, <1>3, <2>1, <2>2 DEF CheckFetchFails
  <1>4. CASE CheckFind(p)
    <2> DEFINE rows == {Row(k) : k \in redeemCodes \ check[p].unused}
               new == [check[p] EXCEPT !.at = "sync", !.stale = rows,
                                       !.missing = check[p].unused \ redeemCodes,
                                       !.unused = {}]
    <2>1. rows \in SUBSET Rows
      BY DEF Row, Rows
    <2> HIDE DEF rows
    <2>2. new \in CheckType
      BY <2>1 DEF CheckType, CheckSteps
    <2>3. QED
      BY <1>0, <1>4, <2>2 DEF CheckFind, rows
  <1>5. CASE CheckDelete(p)
    BY <1>5 DEF CheckDelete, CheckType, CheckSteps, DeleteRow, NoCheck
  <1>6. CASE CheckUpsert(p)
    BY <1>6 DEF CheckUpsert, CheckType, CheckSteps, Upsert
  <1>7. CASE CheckRecount(p)
    BY <1>7 DEF CheckRecount, CheckType, CheckSteps
  <1>8. QED
    BY <1>1, <1>2, <1>3, <1>4, <1>5, <1>6, <1>7 DEF CheckStep

LEMMA IdleType == Idle \in ProcType
  BY DEF Idle, ProcType, Statuses, Steps

LEMMA InitTypes == Init => TypeOK
  <1> SUFFICES ASSUME Init PROVE TypeOK
    OBVIOUS
  <1>1. CodesTypeOK
    BY NoCheckType DEF Init, CodesTypeOK, POAPStates
  <1>2. asked \in 0 .. AskLimit
    BY CodeSupplyAssumption DEF Init
  <1>3. crashes \in 0 .. CrashLimit
    BY CodeSupplyAssumption DEF Init
  <1>4. QED
    BY <1>1, <1>2, <1>3, IdleType DEF Init, TypeOK, Statuses

\* A handler that moves to another step, perhaps with other codes, keeps its copy of
\* the GitPOAP.
LEMMA GotoTypes ==
    ASSUME TypeOK, NEW p \in Handlers, NEW step \in Steps, Goto(p, step)
    PROVE  proc' \in [Handlers -> ProcType]
  <1> DEFINE ended == [Idle EXCEPT !.at = step, !.codes = proc[p].codes]
             moved == [proc[p] EXCEPT !.at = step]
  <1>1. proc \in [Handlers -> ProcType] /\ proc[p] \in ProcType
    BY DEF TypeOK
  <1>2. ended \in ProcType
    BY <1>1 DEF Idle, ProcType, Statuses
  <1>3. moved \in ProcType
    BY <1>1 DEF ProcType
  <1>4. proc' = [proc EXCEPT ![p] = IF step \in {"idle", "done"} THEN ended ELSE moved]
    BY DEF Goto
  <1> HIDE DEF ended, moved
  <1>5. QED
    BY <1>1, <1>2, <1>3, <1>4

LEMMA ReadTypes ==
    ASSUME TypeOK, NEW p \in Handlers, NEW step \in Steps, Read(p, step)
    PROVE  proc' \in [Handlers -> ProcType]
  BY DEF TypeOK, Read, Idle, ProcType, Statuses

LEMMA CodesUnchanged ==
    ASSUME TypeOK, UNCHANGED codeVars PROVE CodesTypeOK'
  BY DEF TypeOK, CodesTypeOK, codeVars

\* What the code checks, and handlers' steps that leave them alone, share.
LEMMA CheckParts ==
    ASSUME TypeOK, NEW p \in Checkers, NEW new \in {NoCheck, NewCheck},
           check' = [check EXCEPT ![p] = new]
    PROVE  check' \in [Checkers -> CheckType]
  BY NoCheckType DEF TypeOK, CodesTypeOK

LEMMA StockTypes ==
    ASSUME TypeOK, NEW k \in Codes, UNCHANGED <<poap, check>>
    PROVE  /\ Upsert(k) => CodesTypeOK'
           /\ DeleteRow(Row(k)) => CodesTypeOK'
           /\ UNCHANGED <<redeemCodes, rowId>> => CodesTypeOK'
  BY DEF TypeOK, CodesTypeOK, Upsert, DeleteRow

\* The variables that are not about codes nor handlers.
Rest == <<status, canRequest, asked, crashes, deprecated, announced, together>>
RestOK ==
    /\ status \in Statuses
    /\ canRequest \in BOOLEAN
    /\ asked \in 0 .. AskLimit
    /\ crashes \in 0 .. CrashLimit
    /\ deprecated \in BOOLEAN
    /\ announced \in Nat
    /\ together \in BOOLEAN
LEMMA TypeParts == TypeOK <=> CodesTypeOK /\ RestOK /\ proc \in [Handlers -> ProcType]
  BY DEF TypeOK, RestOK
LEMMA TypePartsPrime == TypeOK' <=> CodesTypeOK' /\ RestOK' /\ proc' \in [Handlers -> ProcType]
  BY DEF TypeOK, RestOK
LEMMA RestUnchanged == ASSUME TypeOK, UNCHANGED Rest PROVE RestOK'
  BY DEF TypeOK, RestOK, Rest

LEMMA CheckPartTypes == ASSUME TypeOK, NEW p \in Checkers, CheckPart(p) PROVE TypeOK'
  <1>0. p \in Handlers
    BY CodeSupplyAssumption DEF Handlers
  <1> USE <1>0 DEF vars, codeVars, gitPOAPVars, supplyHistory
  <1>1. CASE CheckCodes(p)
    <2>1. CodesTypeOK'
      BY <1>1, CheckTypes, TypeParts DEF CheckCodes
    <2>2. RestOK'
      BY <1>1, RestUnchanged DEF CheckCodes, Rest
    <2>3. QED
      BY <1>1, <2>1, <2>2, TypeParts, TypePartsPrime DEF CheckCodes
  <1>2. CASE CheckEnds(p)
    <2>1. check' \in [Checkers -> CheckType]
      BY <1>2, CheckParts DEF CheckEnds
    <2>2. CodesTypeOK'
      BY <1>2, <2>1, TypeParts DEF CheckEnds, CodesTypeOK
    <2>3. RestOK'
      BY <1>2, RestUnchanged DEF CheckEnds, Rest
    <2>4. proc' \in [Handlers -> ProcType]
      BY <1>2, GotoTypes DEF CheckEnds, Steps
    <2>5. QED
      BY <2>2, <2>3, <2>4, TypePartsPrime
  <1>3. CASE Approve(p)
    <2>1. CodesTypeOK'
      BY <1>3, CodesUnchanged DEF Approve
    <2>2. RestOK'
      BY <1>3, TypeParts DEF Approve, RestOK, Statuses
    <2>3. proc' \in [Handlers -> ProcType]
      BY <1>3, GotoTypes DEF Approve, Steps
    <2>4. QED
      BY <2>1, <2>2, <2>3, TypePartsPrime
  <1>4. QED
    BY <1>1, <1>2, <1>3 DEF CheckPart

LEMMA EnsurePartTypes == ASSUME TypeOK, NEW p \in Handlers, EnsurePart(p) PROVE TypeOK'
  <1> USE DEF codeVars, gitPOAPVars, supplyHistory
  <1>1. UNCHANGED codeVars
    BY DEF EnsurePart, EnsureCount, EnsureMark, EnsureAsk, EnsureFailed
  <1>2. CodesTypeOK'
    BY <1>1, CodesUnchanged
  <1>3. RestOK'
    <2>1. CASE EnsureAsk(p)
      <3>1. asked' \in 0 .. AskLimit
        BY <2>1, CodeSupplyAssumption DEF EnsureAsk, TypeOK
      <3>2. QED
        BY <2>1, <3>1, TypeParts DEF EnsureAsk, RestOK
    <2>2. CASE EnsureCount(p) \/ EnsureMark(p) \/ EnsureFailed(p)
      BY <2>2, TypeParts DEF EnsureCount, EnsureMark, EnsureFailed, RestOK, Statuses
    <2>3. QED
      BY <2>1, <2>2 DEF EnsurePart
  <1>4. proc' \in [Handlers -> ProcType]
    BY GotoTypes DEF EnsurePart, EnsureCount, EnsureMark, EnsureAsk, EnsureFailed, Steps
  <1>5. QED
    BY <1>2, <1>3, <1>4, TypePartsPrime

LEMMA ClaimTypes ==
    ASSUME TypeOK, NEW p \in Claimers,
           ClaimRead(p) \/ ClaimTake(p) \/ ClaimRunsOut(p) \/ ClaimRedeem(p)
    PROVE  TypeOK'
  <1>0. p \in Handlers /\ p \in Checkers
    BY CodeSupplyAssumption DEF Handlers
  <1> USE <1>0 DEF gitPOAPVars, supplyHistory
  <1>1. CASE ClaimRead(p)
    <2>1. CodesTypeOK'
      BY <1>1, CodesUnchanged DEF ClaimRead
    <2>2. RestOK'
      BY <1>1, RestUnchanged DEF ClaimRead, Rest
    <2>3. proc' \in [Handlers -> ProcType]
      BY <1>1, ReadTypes DEF ClaimRead, Steps
    <2>4. QED
      BY <2>1, <2>2, <2>3, TypePartsPrime
  <1>2. CASE ClaimTake(p)
    <2>1. RestOK'
      BY <1>2, RestUnchanged DEF ClaimTake, Rest
    <2>2. CASE Goto(p, "done") /\ UNCHANGED <<redeemCodes, rowId>>
      <3>1. CodesTypeOK'
        BY <1>2, <2>2, CodesUnchanged DEF ClaimTake, codeVars
      <3>2. proc' \in [Handlers -> ProcType]
        BY <2>2, GotoTypes DEF Steps
      <3>3. QED
        BY <2>1, <3>1, <3>2, TypePartsPrime
    <2>3. ASSUME NEW k \in redeemCodes, DeleteRow(Row(k)),
                 proc' = [proc EXCEPT ![p].at = "redeem", ![p].codes = {k}]
          PROVE  TypeOK'
      <3>1. k \in Codes
        BY TypeParts DEF CodesTypeOK
      <3>2. CodesTypeOK'
        BY <1>2, <2>3, <3>1, StockTypes DEF ClaimTake
      <3>3. proc \in [Handlers -> ProcType] /\ proc[p] \in ProcType
        BY TypeParts
      <3>4. [proc[p] EXCEPT !.at = "redeem", !.codes = {k}] \in ProcType
        BY <3>1, <3>3 DEF ProcType, Steps
      <3>5. proc' = [proc EXCEPT ![p] = [proc[p] EXCEPT !.at = "redeem", !.codes = {k}]]
        BY <2>3, <3>3
      <3>6. proc' \in [Handlers -> ProcType]
        BY <3>3, <3>4, <3>5
      <3>7. QED
        BY <2>1, <3>2, <3>6, TypePartsPrime
    <2>4. QED
      BY <1>2, <2>2, <2>3 DEF ClaimTake
  <1>3. CASE ClaimRunsOut(p)
    <2>1. redeemCodes' \subseteq Codes /\ UNCHANGED <<rowId, poap>>
      BY <1>3, TypeParts DEF ClaimRunsOut, CodesTypeOK, DeleteRow
    <2>2. check' \in [Checkers -> CheckType]
      BY <1>3, CheckParts DEF ClaimRunsOut
    <2>3. CodesTypeOK'
      BY <2>1, <2>2, TypeParts DEF CodesTypeOK
    <2>4. RestOK'
      BY <1>3, RestUnchanged DEF ClaimRunsOut, Rest
    <2>5. proc' \in [Handlers -> ProcType]
      BY <1>3, GotoTypes DEF ClaimRunsOut, Steps
    <2>6. QED
      BY <2>3, <2>4, <2>5, TypePartsPrime
  <1>4. CASE ClaimRedeem(p)
    <2>1. PICK k \in proc[p].codes :
             /\ poap' = [poap EXCEPT ![k] = "submitted"] \/ UNCHANGED poap
             /\ Upsert(k) \/ UNCHANGED <<redeemCodes, rowId>>
             /\ Goto(p, "count") \/ Goto(p, "done")
      BY <1>4 DEF ClaimRedeem
    <2>2. k \in Codes
      BY TypeParts DEF ProcType
    <2>3. CodesTypeOK'
      <3>1. poap' \in [Codes -> POAPStates]
        BY <2>1, TypeParts DEF CodesTypeOK, POAPStates
      <3>2. redeemCodes' \subseteq Codes /\ rowId' \in [Codes -> Nat]
        BY <2>1, <2>2, TypeParts DEF CodesTypeOK, Upsert
      <3>3. QED
        BY <1>4, <3>1, <3>2, TypeParts DEF ClaimRedeem, CodesTypeOK
    <2>4. RestOK'
      BY <1>4, RestUnchanged DEF ClaimRedeem, Rest
    <2>5. proc' \in [Handlers -> ProcType]
      BY <2>1, GotoTypes DEF Steps
    <2>6. QED
      BY <2>3, <2>4, <2>5, TypePartsPrime
  <1>5. QED
    BY <1>1, <1>2, <1>3, <1>4

LEMMA PollTypes == ASSUME TypeOK, NEW p \in Pollers, PollStep(p) PROVE TypeOK'
  <1>0. p \in Handlers /\ p \in Checkers
    BY CodeSupplyAssumption DEF Handlers
  <1> USE <1>0 DEF gitPOAPVars, supplyHistory
  <1>1. CASE PollRead(p)
    <2>1. check' \in [Checkers -> CheckType]
      BY <1>1, CheckParts DEF PollRead
    <2>2. CodesTypeOK'
      BY <1>1, <2>1, TypeParts DEF PollRead, CodesTypeOK
    <2>3. RestOK'
      BY <1>1, TypeParts DEF PollRead, RestOK
    <2>4. proc' \in [Handlers -> ProcType]
      BY <1>1, ReadTypes DEF PollRead, Steps
    <2>5. QED
      BY <2>2, <2>3, <2>4, TypePartsPrime
  <1>2. CASE Announce(p)
    <2>1. CodesTypeOK'
      BY <1>2, CodesUnchanged DEF Announce
    <2>2. RestOK'
      BY <1>2, TypeParts DEF Announce, RestOK
    <2>3. proc' \in [Handlers -> ProcType]
      BY <1>2, GotoTypes DEF Announce, Steps
    <2>4. QED
      BY <2>1, <2>2, <2>3, TypePartsPrime
  <1>3. QED
    BY <1>1, <1>2, CheckPartTypes DEF PollStep

LEMMA UploadTypes ==
    ASSUME TypeOK, NEW p \in Uploaders, UploadStart(p) \/ UploadStep(p) PROVE TypeOK'
  <1>0. p \in Handlers
    BY DEF Handlers
  <1> USE <1>0 DEF gitPOAPVars, supplyHistory
  <1>1. CASE UploadStart(p)
    <2>1. CodesTypeOK'
      BY <1>1, CodesUnchanged DEF UploadStart
    <2>2. RestOK'
      BY <1>1, RestUnchanged DEF UploadStart, Rest
    <2>3. PICK S \in SUBSET {k \in Codes : poap[k] # "absent"} :
             proc' = [proc EXCEPT ![p].at = "upload", ![p].codes = S]
      BY <1>1 DEF UploadStart
    <2>4. S \subseteq Codes
      OBVIOUS
    <2> DEFINE new == [proc[p] EXCEPT !.at = "upload", !.codes = S]
    <2>5. proc' \in [Handlers -> ProcType]
      <3>1. new \in ProcType
        BY <2>4, TypeParts DEF ProcType, Steps
      <3>2. proc' = [proc EXCEPT ![p] = new]
        BY <2>3
      <3>3. QED
        BY <3>1, <3>2, TypeParts
    <2>6. QED
      BY <2>1, <2>2, <2>5, TypePartsPrime
  <1>2. CASE UploadCode(p)
    <2>1. PICK k \in proc[p].codes : Upsert(k) /\ proc' = [proc EXCEPT ![p].codes = @ \ {k}]
      BY <1>2 DEF UploadCode
    <2>2. k \in Codes
      BY TypeParts DEF ProcType
    <2>3. CodesTypeOK'
      BY <1>2, <2>1, <2>2, StockTypes DEF UploadCode
    <2>4. RestOK'
      BY <1>2, RestUnchanged DEF UploadCode, Rest
    <2>5. proc' \in [Handlers -> ProcType]
      BY <2>1, TypeParts DEF ProcType
    <2>6. QED
      BY <2>3, <2>4, <2>5, TypePartsPrime
  <1>3. CASE UploadEnds(p)
    <2>1. CodesTypeOK'
      BY <1>3, CodesUnchanged DEF UploadEnds
    <2>2. RestOK'
      BY <1>3, TypeParts DEF UploadEnds, RestOK, Statuses
    <2>3. proc' \in [Handlers -> ProcType]
      BY <1>3, GotoTypes DEF UploadEnds, Steps
    <2>4. QED
      BY <2>1, <2>2, <2>3, TypePartsPrime
  <1>4. QED
    BY <1>1, <1>2, <1>3 DEF UploadStep

LEMMA OtherTypes ==
    ASSUME TypeOK,
           \/ \E p \in Adders : AddRead(p)
           \/ Deprecate
           \/ POAPFulfils
           \/ \E p \in Handlers : Die(p)
    PROVE  TypeOK'
  <1> USE DEF gitPOAPVars, supplyHistory
  <1>1. ASSUME NEW p \in Adders, AddRead(p) PROVE TypeOK'
    <2>1. CodesTypeOK'
      BY <1>1, CodesUnchanged DEF AddRead
    <2>2. RestOK'
      BY <1>1, RestUnchanged DEF AddRead, Rest
    <2>3. proc' \in [Handlers -> ProcType]
      BY <1>1, ReadTypes DEF AddRead, Steps, Handlers
    <2>4. QED
      BY <2>1, <2>2, <2>3, TypePartsPrime
  <1>2. CASE Deprecate
    <2>1. CodesTypeOK'
      BY <1>2, CodesUnchanged DEF Deprecate
    <2>2. QED
      BY <1>2, <2>1, TypeParts, TypePartsPrime DEF Deprecate, RestOK, Statuses
  <1>3. CASE POAPFulfils
    <2>1. CodesTypeOK'
      BY <1>3, TypeParts DEF POAPFulfils, CodesTypeOK, POAPStates
    <2>2. asked' \in 0 .. AskLimit
      BY <1>3, CodeSupplyAssumption DEF POAPFulfils, TypeOK
    <2>3. QED
      BY <1>3, <2>1, <2>2, TypeParts, TypePartsPrime DEF POAPFulfils, RestOK
  <1>4. ASSUME NEW p \in Handlers, Die(p) PROVE TypeOK'
    <2>1. check' \in [Checkers -> CheckType]
      BY <1>4, NoCheckType, TypeParts DEF Die, CodesTypeOK
    <2>2. CodesTypeOK'
      BY <1>4, <2>1, TypeParts DEF Die, CodesTypeOK
    <2>3. crashes' \in 0 .. CrashLimit
      BY <1>4, CodeSupplyAssumption DEF Die, TypeOK
    <2>4. proc' \in [Handlers -> ProcType]
      BY <1>4, GotoTypes DEF Die, Steps
    <2>5. QED
      BY <1>4, <2>2, <2>3, <2>4, TypeParts, TypePartsPrime DEF Die, RestOK
  <1>5. QED
    BY <1>1, <1>2, <1>3, <1>4

LEMMA TypeStep == TypeOK /\ [Next]_vars => TypeOK'
  <1> SUFFICES ASSUME TypeOK, [Next]_vars PROVE TypeOK'
    OBVIOUS
  <1>1. CASE UNCHANGED vars
    <2>1. CodesTypeOK'
      BY <1>1, CodesUnchanged DEF vars
    <2>2. QED
      BY <1>1, <2>1, TypeParts, TypePartsPrime DEF vars, gitPOAPVars, supplyHistory, RestOK
  <1>2. Claimers \subseteq Checkers /\ Claimers \subseteq Handlers /\ Adders \subseteq Handlers
    BY CodeSupplyAssumption DEF Handlers
  <1>3. ASSUME NEW p \in Claimers, ClaimRead(p) \/ ClaimStep(p) PROVE TypeOK'
    BY <1>2, <1>3, ClaimTypes, CheckPartTypes, EnsurePartTypes DEF ClaimStep
  <1>4. ASSUME NEW p \in Adders, AddRead(p) \/ EnsurePart(p) PROVE TypeOK'
    BY <1>2, <1>4, OtherTypes, EnsurePartTypes
  <1>5. QED
    BY <1>1, <1>3, <1>4, PollTypes, UploadTypes, OtherTypes DEF Next

\* Every variable of CodeSupply keeps its type.
THEOREM TypesHold == Spec => []TypeOK
  BY InitTypes, TypeStep, PTL DEF Spec
-----------------------------------------------------------------------------
(* Deprecation stops the requests for codes.                               *)

LEMMA LateStart == Init => LateInv
  BY DEF Init, LateInv, Idle

\* A handler that keeps its copy and is not about to ask, or never was late.
LEMMA LateKept ==
    ASSUME TypeOK, LateInv, deprecated' = deprecated, canRequest' = canRequest,
           NEW p \in Handlers, NEW new, proc' = [proc EXCEPT ![p] = new],
           new.late => deprecated /\ new.can = FALSE /\ new.at \notin Asking
    PROVE  LateInv'
  BY DEF TypeOK, LateInv

LEMMA LateGoto ==
    ASSUME TypeOK, LateInv, deprecated' = deprecated, canRequest' = canRequest,
           NEW p \in Handlers, NEW step, Goto(p, step),
           proc[p].late => step \notin Asking
    PROVE  LateInv'
  <1> DEFINE new == IF step \in {"idle", "done"}
                    THEN [Idle EXCEPT !.at = step, !.codes = proc[p].codes]
                    ELSE [proc[p] EXCEPT !.at = step]
  <1>1. proc' = [proc EXCEPT ![p] = new]
    BY DEF Goto
  <1>2. new.late => proc[p].late /\ new.can = proc[p].can /\ new.at = step
    BY DEF Idle, TypeOK, ProcType
  <1>3. new.late => deprecated /\ new.can = FALSE /\ new.at \notin Asking
    BY <1>2 DEF LateInv
  <1> HIDE DEF new
  <1>4. QED
    BY <1>1, <1>3, LateKept

LEMMA LateRead ==
    ASSUME TypeOK, LateInv, deprecated' = deprecated, canRequest' = canRequest,
           NEW p \in Handlers, NEW step \in Steps \ Asking, Read(p, step)
    PROVE  LateInv'
  BY LateKept DEF LateInv, Read, Idle

LEMMA LateEnsure ==
    ASSUME TypeOK, LateInv, NEW p \in Handlers, EnsurePart(p) PROVE LateInv'
  <1> USE DEF gitPOAPVars, supplyHistory
  <1>1. deprecated' = deprecated /\ canRequest' = canRequest
    BY DEF EnsurePart, EnsureCount, EnsureMark, EnsureAsk, EnsureFailed
  <1>2. CASE EnsureCount(p)
    BY <1>1, <1>2, LateGoto DEF EnsureCount, LateInv, Asking
  <1>3. CASE EnsureMark(p) \/ EnsureAsk(p) \/ EnsureFailed(p)
    <2>1. ~proc[p].late
      BY <1>3 DEF LateInv, Asking, EnsureMark, EnsureAsk, EnsureFailed
    <2>2. PICK step : Goto(p, step)
      BY <1>3 DEF EnsureMark, EnsureAsk, EnsureFailed
    <2>3. QED
      BY <1>1, <2>1, <2>2, LateGoto
  <1>4. QED
    BY <1>2, <1>3 DEF EnsurePart

LEMMA LateCheck ==
    ASSUME TypeOK, LateInv, NEW p \in Handlers, CheckPart(p) PROVE LateInv'
  <1> USE DEF gitPOAPVars, supplyHistory
  <1>1. deprecated' = deprecated /\ canRequest' = canRequest
    BY DEF CheckPart, CheckCodes, CheckEnds, Approve
  <1>2. CASE CheckCodes(p)
    BY <1>1, <1>2 DEF CheckCodes, LateInv
  <1>3. CASE CheckEnds(p) \/ Approve(p)
    <2>1. PICK step \in Steps \ Asking : Goto(p, step)
      BY <1>3 DEF CheckEnds, Approve, Steps, Asking
    <2>2. QED
      BY <1>1, <2>1, LateGoto
  <1>4. QED
    BY <1>2, <1>3 DEF CheckPart

LEMMA LateClaims ==
    ASSUME TypeOK, LateInv, NEW p \in Claimers,
           ClaimTake(p) \/ ClaimRunsOut(p) \/ ClaimRedeem(p)
    PROVE  LateInv'
  <1> USE DEF gitPOAPVars, supplyHistory, Handlers
  <1>1. deprecated' = deprecated /\ canRequest' = canRequest
    BY DEF ClaimTake, ClaimRunsOut, ClaimRedeem
  <1>2. ASSUME NEW S, proc' = [proc EXCEPT ![p].at = "redeem", ![p].codes = S] PROVE LateInv'
    <2>1. proc' = [proc EXCEPT ![p] = [proc[p] EXCEPT !.at = "redeem", !.codes = S]]
      BY <1>2
    <2>2. QED
      BY <1>1, <2>1, LateKept DEF TypeOK, LateInv, ProcType, Asking
  <1>3. ASSUME NEW step \in Steps \ Asking, Goto(p, step) PROVE LateInv'
    BY <1>1, <1>3, LateGoto
  <1>4. QED
    BY <1>2, <1>3 DEF ClaimTake, ClaimRunsOut, ClaimRedeem, Steps, Asking

LEMMA LateReads ==
    ASSUME TypeOK, LateInv,
           \/ \E p \in Claimers : ClaimRead(p)
           \/ \E p \in Adders : AddRead(p)
           \/ \E p \in Pollers : PollRead(p)
    PROVE  LateInv'
  <1>1. deprecated' = deprecated /\ canRequest' = canRequest
    BY DEF ClaimRead, AddRead, PollRead, gitPOAPVars, supplyHistory
  <1>2. PICK p \in Handlers, step \in Steps \ Asking : Read(p, step)
    BY DEF ClaimRead, AddRead, PollRead, Handlers, Steps, Asking
  <1>3. QED
    BY <1>1, <1>2, LateRead

LEMMA LateUploads ==
    ASSUME TypeOK, LateInv, NEW p \in Uploaders, UploadStart(p) \/ UploadStep(p)
    PROVE  LateInv'
  <1> USE DEF gitPOAPVars, supplyHistory, Handlers
  <1>1. deprecated' = deprecated /\ canRequest' = canRequest
    BY DEF UploadStart, UploadStep, UploadCode, UploadEnds
  <1>2. ASSUME NEW S, NEW at, at \notin Asking \/ at = proc[p].at,
               proc' = [proc EXCEPT ![p] = [proc[p] EXCEPT !.at = at, !.codes = S]]
        PROVE  LateInv'
    BY <1>1, <1>2, LateKept DEF TypeOK, LateInv, ProcType
  <1>3. CASE UploadStart(p)
    <2>1. PICK S : proc' = [proc EXCEPT ![p].at = "upload", ![p].codes = S]
      BY <1>3 DEF UploadStart
    <2>2. QED
      BY <1>2, <2>1 DEF Asking
  <1>4. CASE UploadCode(p)
    <2>1. PICK k \in proc[p].codes : proc' = [proc EXCEPT ![p].codes = @ \ {k}]
      BY <1>4 DEF UploadCode
    <2>2. proc' = [proc EXCEPT ![p] = [proc[p] EXCEPT !.at = proc[p].at,
                                                      !.codes = proc[p].codes \ {k}]]
      BY <2>1 DEF TypeOK, ProcType
    <2>3. QED
      BY <1>2, <2>2
  <1>5. CASE UploadEnds(p)
    BY <1>1, <1>5, LateGoto DEF UploadEnds, Asking
  <1>6. QED
    BY <1>3, <1>4, <1>5 DEF UploadStep

LEMMA LateOthers ==
    ASSUME TypeOK, LateInv,
           \/ \E p \in Pollers : Announce(p)
           \/ Deprecate
           \/ POAPFulfils
           \/ \E p \in Handlers : Die(p)
    PROVE  LateInv'
  <1> USE DEF gitPOAPVars, supplyHistory
  <1>1. CASE Deprecate
    BY <1>1 DEF Deprecate, LateInv
  <1>2. CASE POAPFulfils
    BY <1>2 DEF POAPFulfils, LateInv
  <1>3. CASE (\E p \in Pollers : Announce(p)) \/ (\E p \in Handlers : Die(p))
    <2>1. PICK p \in Handlers, step \in Steps \ Asking : Goto(p, step)
      BY <1>3 DEF Announce, Die, Handlers, Steps, Asking
    <2>2. deprecated' = deprecated /\ canRequest' = canRequest
      BY <1>3 DEF Announce, Die
    <2>3. QED
      BY <2>1, <2>2, LateGoto
  <1>4. QED
    BY <1>1, <1>2, <1>3

LEMMA LateStep == TypeOK /\ LateInv /\ [Next]_vars => LateInv'
  <1> SUFFICES ASSUME TypeOK, LateInv, [Next]_vars PROVE LateInv'
    OBVIOUS
  <1>1. CASE UNCHANGED vars
    BY <1>1 DEF vars, gitPOAPVars, supplyHistory, LateInv
  <1>2. ASSUME NEW p \in Claimers, ClaimRead(p) \/ ClaimStep(p) PROVE LateInv'
    BY <1>2, LateReads, LateClaims, LateCheck, LateEnsure DEF ClaimStep, Handlers
  <1>3. ASSUME NEW p \in Adders, AddRead(p) \/ EnsurePart(p) PROVE LateInv'
    BY <1>3, LateReads, LateEnsure DEF Handlers
  <1>4. ASSUME NEW p \in Pollers, PollStep(p) PROVE LateInv'
    BY <1>4, LateReads, LateOthers, LateCheck DEF PollStep, Handlers
  <1>5. QED
    BY <1>1, <1>2, <1>3, <1>4, LateUploads, LateOthers DEF Next

\* A handler that read the GitPOAP after its deprecation never marks it as waiting
\* for codes nor asks POAP for any, whatever code checks and uploads made of its status.
THEOREM DeprecationStopsRequests == Spec => []NoLateRequests
  <1>1. LateInv => NoLateRequests
    BY DEF LateInv, NoLateRequests, Asking
  <1>2. QED
    BY <1>1, InitTypes, TypeStep, LateStart, LateStep, PTL DEF Spec

-----------------------------------------------------------------------------
(* The first codes are announced once.                                     *)

LEMMA AnnounceStart == Init => AnnounceInv
  BY DEF Init, AnnounceInv, AwaitsFirst, Idle, Handlers

\* Nobody makes the GitPOAP UNAPPROVED again, only a poll announces, and polls that
\* stop, or that go on, are none more.
LEMMA AnnounceFrame ==
    ASSUME AnnounceInv, UNCHANGED <<announced, together>>,
           status' = "UNAPPROVED" => status = "UNAPPROVED",
           \A p \in Pollers : \/ proc'[p] = proc[p]
                              \/ proc'[p].at \notin {"check", "approve", "announce"}
    PROVE  AnnounceInv'
  BY DEF AnnounceInv, AwaitsFirst

LEMMA OthersAreQuiet ==
    ASSUME TypeOK, NEW p \in Handlers \ Pollers, NEW new, proc' = [proc EXCEPT ![p] = new]
    PROVE  \A q \in Pollers : proc'[q] = proc[q]
  BY DEF TypeOK, Handlers

LEMMA AnnounceOthers ==
    ASSUME TypeOK, AnnounceInv,
           \/ \E p \in Claimers : ClaimRead(p) \/ ClaimStep(p)
           \/ \E p \in Adders : AddRead(p) \/ EnsurePart(p)
           \/ \E p \in Uploaders : UploadStart(p) \/ UploadStep(p)
    PROVE  AnnounceInv'
  <1>0. (Claimers \cup Adders \cup Uploaders) \cap Pollers = {}
    BY CodeSupplyAssumption
  <1>1. PICK p \in Claimers \cup Adders \cup Uploaders :
           \/ ClaimRead(p) \/ ClaimStep(p) \/ AddRead(p) \/ EnsurePart(p)
           \/ UploadStart(p) \/ UploadStep(p)
    OBVIOUS
  <1>2. p \in Handlers \ Pollers
    BY <1>0 DEF Handlers
  <1>3. (proc' = proc \/ \E new : proc' = [proc EXCEPT ![p] = new])
    <2>1. CASE ClaimTake(p) \/ ClaimRunsOut(p) \/ ClaimRedeem(p)
      BY <2>1 DEF ClaimTake, ClaimRunsOut, ClaimRedeem, Goto
    <2>2. CASE CheckPart(p)
      BY <2>2 DEF CheckPart, CheckCodes, CheckEnds, Approve, Goto
    <2>3. CASE EnsurePart(p)
      BY <2>3 DEF EnsurePart, EnsureCount, EnsureMark, EnsureAsk, EnsureFailed, Goto
    <2>4. CASE UploadStart(p) \/ UploadStep(p)
      BY <2>4 DEF UploadStart, UploadStep, UploadCode, UploadEnds, Goto
    <2>5. CASE ClaimRead(p) \/ AddRead(p)
      BY <2>5 DEF ClaimRead, AddRead, Read
    <2>6. QED
      BY <1>1, <2>1, <2>2, <2>3, <2>4, <2>5 DEF ClaimStep
  <1>4. \A q \in Pollers : proc'[q] = proc[q]
    BY <1>2, <1>3, OthersAreQuiet
  <1>5. UNCHANGED <<announced, together>> /\ (status' = "UNAPPROVED" => status = "UNAPPROVED")
    BY <1>1 DEF ClaimRead, ClaimStep, ClaimTake, ClaimRunsOut, ClaimRedeem, CheckPart, CheckCodes,
                CheckEnds, Approve, EnsurePart, EnsureCount, EnsureMark, EnsureAsk, EnsureFailed,
                AddRead, UploadStart, UploadStep, UploadCode, UploadEnds, supplyHistory, gitPOAPVars
  <1>6. QED
    BY <1>4, <1>5, AnnounceFrame

\* A poll that goes on to another step keeps its copy, or forgets it at its end.
LEMMA PollGoes ==
    ASSUME TypeOK, NEW p \in Pollers, NEW step \in Steps, Goto(p, step)
    PROVE  /\ proc'[p].at = step
           /\ step \notin {"idle", "done"} => proc'[p].status = proc[p].status
           /\ \A q \in Pollers : q # p => proc'[q] = proc[q]
  BY DEF TypeOK, Handlers, Goto, Idle, ProcType

\* A read of the UNAPPROVED GitPOAP is the only one under way, or history says so.
LEMMA AnnounceReads ==
    ASSUME TypeOK, AnnounceInv, NEW p \in Pollers, PollRead(p) PROVE AnnounceInv'
  <1>1. SUFFICES ASSUME ~together' PROVE AnnounceInv'
    BY DEF AnnounceInv
  <1>2. ~together /\ (status = "UNAPPROVED" => \A q \in Pollers : ~AwaitsFirst(q))
    BY <1>1 DEF PollRead, TypeOK
  <1>3. /\ proc'[p].at = "check" /\ proc'[p].status = status
        /\ \A q \in Pollers : q # p => proc'[q] = proc[q]
    BY DEF PollRead, Read, Idle, TypeOK, Handlers
  <1>4. UNCHANGED <<status, announced>>
    BY DEF PollRead, gitPOAPVars
  <1>5. /\ announced = 0 \/ status # "UNAPPROVED"
        /\ \A q, r \in Pollers : AwaitsFirst(q) /\ AwaitsFirst(r) => q = r
        /\ \A q \in Pollers :
              /\ AwaitsFirst(q) => announced = 0
              /\ proc[q].at = "announce" => AwaitsFirst(q) /\ status # "UNAPPROVED"
        /\ announced =< 1 /\ announced \in Nat
    BY <1>2 DEF AnnounceInv, TypeOK
  <1>6. \A q \in Pollers : AwaitsFirst(q)' =>
           (q # p /\ AwaitsFirst(q)) \/ (q = p /\ status = "UNAPPROVED")
    BY <1>3 DEF AwaitsFirst
  <1>7. \A q, r \in Pollers : AwaitsFirst(q)' /\ AwaitsFirst(r)' => q = r
    BY <1>2, <1>5, <1>6
  <1>8. \A q \in Pollers : AwaitsFirst(q)' => announced = 0
    BY <1>5, <1>6
  <1>9. \A q \in Pollers : proc'[q].at = "announce" => AwaitsFirst(q)' /\ status # "UNAPPROVED"
    BY <1>3, <1>5 DEF AwaitsFirst
  <1>10. QED
    BY <1>4, <1>5, <1>7, <1>8, <1>9 DEF AnnounceInv

LEMMA AnnouncePolls ==
    ASSUME TypeOK, AnnounceInv, NEW p \in Pollers, PollStep(p) PROVE AnnounceInv'
  <1> USE DEF supplyHistory, gitPOAPVars
  <1>0. p \in Handlers /\ proc \in [Handlers -> ProcType] /\ announced \in Nat
    BY DEF Handlers, TypeOK
  <1>1. CASE PollRead(p)
    BY <1>1, AnnounceReads
  <1>2. CASE CheckCodes(p)
    BY <1>2 DEF CheckCodes, AnnounceInv, AwaitsFirst
  <1>3. CASE CheckEnds(p)
    <2>1. PICK step \in {"approve", "idle", "done"} : Goto(p, step)
      BY <1>3 DEF CheckEnds
    <2>2. proc[p].at = "check" /\ UNCHANGED <<status, announced, together>>
      BY <1>3 DEF CheckEnds
    <2>3. /\ proc'[p].at = step /\ (step = "approve" => proc'[p].status = proc[p].status)
          /\ \A q \in Pollers : q # p => proc'[q] = proc[q]
      BY <2>1, PollGoes DEF Steps
    <2>4. \A q \in Pollers : AwaitsFirst(q)' => AwaitsFirst(q)
      BY <2>1, <2>2, <2>3 DEF AwaitsFirst
    <2>5. \A q \in Pollers : proc'[q].at = "announce" => q # p
      BY <2>1, <2>3
    <2>6. QED
      BY <2>2, <2>3, <2>4, <2>5 DEF AnnounceInv, AwaitsFirst
  <1>4. CASE Approve(p)
    <2>0. p \notin Claimers
      BY CodeSupplyAssumption
    <2>1. PICK step \in {"announce", "idle"} :
             Goto(p, step) /\ (step = "announce" => proc[p].status = "UNAPPROVED")
      BY <1>4, <2>0 DEF Approve
    <2>2. proc[p].at = "approve" /\ status' = "APPROVED" /\ UNCHANGED <<announced, together>>
      BY <1>4 DEF Approve
    <2>3. /\ proc'[p].at = step /\ (step = "announce" => proc'[p].status = proc[p].status)
          /\ \A q \in Pollers : q # p => proc'[q] = proc[q]
      BY <2>1, PollGoes DEF Steps
    <2>4. \A q \in Pollers : AwaitsFirst(q)' => AwaitsFirst(q)
      BY <2>1, <2>2, <2>3 DEF AwaitsFirst
    <2>5. proc'[p].at = "announce" => AwaitsFirst(p)'
      BY <2>1, <2>3 DEF AwaitsFirst
    <2>6. QED
      BY <2>2, <2>3, <2>4, <2>5 DEF AnnounceInv, AwaitsFirst
  <1>5. CASE Announce(p)
    <2>1. SUFFICES ASSUME ~together PROVE AnnounceInv'
      BY <1>5 DEF Announce, AnnounceInv
    <2>2. /\ proc[p].at = "announce" /\ announced' = announced + 1
          /\ UNCHANGED <<status, together>>
      BY <1>5 DEF Announce
    <2>3. AwaitsFirst(p) /\ status # "UNAPPROVED" /\ announced = 0
      BY <2>1, <2>2 DEF AnnounceInv
    <2>4. \A q \in Pollers : q # p => ~AwaitsFirst(q) /\ proc[q].at # "announce"
      BY <2>1, <2>3 DEF AnnounceInv
    <2>5. proc'[p].at = "idle" /\ \A q \in Pollers : q # p => proc'[q] = proc[q]
      BY <1>5, PollGoes DEF Announce, Steps
    <2>6. \A q \in Pollers : ~AwaitsFirst(q)' /\ proc'[q].at # "announce"
      BY <2>4, <2>5 DEF AwaitsFirst
    <2>7. QED
      BY <2>2, <2>3, <2>6 DEF AnnounceInv
  <1>6. QED
    BY <1>1, <1>2, <1>3, <1>4, <1>5 DEF PollStep, CheckPart

LEMMA AnnounceStep ==
    ASSUME TypeOK, AnnounceInv, [Next]_vars PROVE AnnounceInv'
  <1> USE DEF supplyHistory, gitPOAPVars
  <1>1. CASE UNCHANGED vars
    BY <1>1 DEF vars, AnnounceInv, AwaitsFirst
  <1>2. CASE Deprecate \/ POAPFulfils
    BY <1>2, AnnounceFrame DEF Deprecate, POAPFulfils
  <1>3. ASSUME NEW p \in Handlers, Die(p) PROVE AnnounceInv'
    <2>1. \A q \in Handlers : proc'[q] = proc[q] \/ proc'[q].at \in {"idle", "done"}
      BY <1>3 DEF TypeOK, Die, Goto, Idle, ProcType
    <2>2. QED
      BY <1>3, <2>1, AnnounceFrame DEF Die, Handlers
  <1>4. QED
    BY <1>1, <1>2, <1>3, AnnounceOthers, AnnouncePolls DEF Next

\* However many loops poll, one after the other, the creator is told of the first codes
\* once, whatever claims, uploads, deprecations and dying processes do to the status:
\* only two polls that overlap on the UNAPPROVED GitPOAP may both tell.
THEOREM FirstCodesAnnouncedOnce == Spec => []AnnouncedOnce
  <1>1. AnnounceInv => AnnouncedOnce
    BY DEF AnnounceInv, AnnouncedOnce
  <1>2. TypeOK /\ AnnounceInv /\ [Next]_vars => AnnounceInv'
    BY AnnounceStep
  <1>3. QED
    BY <1>1, <1>2, InitTypes, TypeStep, AnnounceStart, PTL DEF Spec
=============================================================================
