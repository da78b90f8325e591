-------------------------- MODULE ClaimMintingProofs --------------------------
(* Proofs about ClaimMinting, for every number of claims, codes, requests, *)
(* servers, addresses and crashes.                                         *)
EXTENDS ClaimMinting, FiniteSetTheorems, TLAPS

\* The number of rows a code check counts is a natural number.
LEMMA CountIsNat == ASSUME NEW S, S \subseteq Codes PROVE Cardinality(S) \in Nat
  BY CodesAssumption, FS_Subset, FS_CardinalityType

\* Every step of a code check keeps the types of rows, codes and checks.
LEMMA CheckTypes ==
    ASSUME CodesTypeOK, NEW p \in Checkers, CheckStep(p) PROVE CodesTypeOK'
  <1> USE DEF CodesTypeOK
  <1>0. ASSUME NEW new \in CheckType, check' = [check EXCEPT ![p] = new],
               UNCHANGED <<redeemCodes, rowId, poap>>
        PROVE  CodesTypeOK'
    BY <1>0
  <1>1. CASE CheckCount(p)
    <2> DEFINE new == [check[p] EXCEPT !.at = "fetch", !.start = Cardinality(redeemCodes)]
    <2>1. Cardinality(redeemCodes) \in Nat
      BY CountIsNat
    <2>2. new \in CheckType
      BY <2>1 DEF CheckType, CheckSteps
    <2>3. QED
      BY <1>0, <1>1, <2>2 DEF CheckCount
  <1>2. CASE CheckFetch(p)
    <2> DEFINE free == {k \in Codes : poap[k] = "free"}
               new == [check[p] EXCEPT !.at = "find", !.unused = free]
    <2>1. free \in SUBSET Codes
      OBVIOUS
    <2> HIDE DEF free
    <2>2. new \in CheckType
      BY <2>1 DEF CheckType, CheckSteps
    <2>3. QED
      BY <1>0, <1>2, <2>2 DEF CheckFetch, free
  <1>3. CASE CheckFetchFails(p)
    <2>1. PICK end \in {"same", "threw"} : check' = [check EXCEPT ![p].at = end]
      BY <1>3 DEF CheckFetchFails
    <2> DEFINE new == [check[p] EXCEPT !.at = end]
    <2>2. new \in CheckType
      BY DEF CheckType, CheckSteps
    <2>3. QED
      BY <1>0, <1>3, <2>1, <2>2 DEF CheckFetchFails
  <1>4. CASE CheckFind(p)
    <2> DEFINE rows == {Row(k) : k \in redeemCodes \ check[p].unused}
               new == [check[p] EXCEPT !.at = "sync", !.stale = rows,
                                       !.missing = check[p].unused \ redeemCodes,
                                       !.unused = {}]
    <2>1. rows \in SUBSET Rows
      BY DEF Row, Rows
    <2> HIDE DEF rows
    <2>2. new \in CheckType
      BY <2>1 DEF CheckType, CheckSteps
    <2>3. QED
      BY <1>0, <1>4, <2>2 DEF CheckFind, rows
  <1>5. CASE CheckDelete(p)
    BY <1>5 DEF CheckDelete, CheckType, CheckSteps, DeleteRow, NoCheck
  <1>6. CASE CheckUpsert(p)
    BY <1>6 DEF CheckUpsert, CheckType, CheckSteps, Upsert
  <1>7. CASE CheckRecount(p)
    BY <1>7 DEF CheckRecount, CheckType, CheckSteps
  <1>8. QED
    BY <1>1, <1>2, <1>3, <1>4, <1>5, <1>6, <1>7 DEF CheckStep

\* The initial records have their types.
LEMMA IdleRequestType == IdleRequest \in ReqType
  <1>1. <<>> \in Lists
    BY DEF Lists
  <1>2. QED
    BY <1>1 DEF IdleRequest, ReqType, RequestSteps

LEMMA IdleJobType == IdleJob \in JobType
  BY DEF IdleJob, JobType

LEMMA NewClaimType == NewClaim \in ClaimType
  BY DEF NewClaim, ClaimType, Statuses

LEMMA InitTypes == Init => TypeOK
  <1> SUFFICES ASSUME Init PROVE TypeOK
    OBVIOUS
  <1>1. CodesTypeOK
    <2>1. NoCheck \in CheckType
      BY DEF NoCheck, CheckType, CheckSteps
    <2>2. redeemCodes \subseteq Codes /\ rowId \in [Codes -> Nat] /\ poap \in [Codes -> POAPStates]
      BY DEF Init, CodesInit, POAPStates
    <2>3. QED
      BY <2>1, <2>2 DEF Init, CodesInit, CodesTypeOK
  <1>2. crashes \in 0 .. CrashLimit
    BY ClaimMintingAssumption DEF Init
  <1>3. QED
    BY <1>1, <1>2, IdleRequestType, IdleJobType, NewClaimType DEF Init, TypeOK

TypeInv == TypeOK /\ HandlerInv

\* A request that is replaced by a well-formed record leaves all well-formed.
ReqsOK == req \in [Requests -> ReqType] /\ \A r \in Requests : RequestOK(req[r])

LEMMA ReqMoves ==
    ASSUME ReqsOK, NEW r \in Requests, NEW new \in ReqType, RequestOK(new),
           req' = [req EXCEPT ![r] = new]
    PROVE  ReqsOK'
  <1>1. req' \in [Requests -> ReqType]
    BY DEF ReqsOK
  <1>2. ASSUME NEW q \in Requests PROVE RequestOK(req'[q])
    BY <1>2 DEF ReqsOK
  <1>3. QED
    BY <1>1, <1>2 DEF ReqsOK

LEMMA ReqHas ==
    ASSUME TypeInv, NEW r \in Requests
    PROVE  ReqsOK /\ req[r] \in ReqType /\ RequestOK(req[r])
  BY DEF TypeInv, TypeOK, HandlerInv, ReqsOK

\* A step that sets the position, and perhaps the row, of a request at work.
LEMMA GotoTypes ==
    ASSUME TypeInv, NEW r \in Requests, req[r].at \in WorkSteps, NEW step \in WorkSteps,
           NEW row \in Rows \cup {NoRow}, step \in CodeSteps => row \in Rows,
           req' = [req EXCEPT ![r].at = step, ![r].row = row]
    PROVE  ReqsOK'
  <1> DEFINE new == [req[r] EXCEPT !.at = step, !.row = row]
  <1>1. new \in ReqType
    BY ReqHas DEF ReqType, RequestSteps
  <1>2. RequestOK(new)
    BY ReqHas DEF RequestOK, ReqType, WorkSteps, CodeSteps, Pledged
  <1>3. req' = [req EXCEPT ![r] = new]
    OBVIOUS
  <1>4. QED
    BY <1>1, <1>2, <1>3, ReqHas, ReqMoves

LEMMA GotoKeepsRow ==
    ASSUME TypeInv, NEW r \in Requests, req[r].at \in WorkSteps, NEW step \in WorkSteps,
           step \in CodeSteps => req[r].at \in CodeSteps, Goto(r, step)
    PROVE  ReqsOK'
  <1>1. req' = [req EXCEPT ![r].at = step, ![r].row = req[r].row]
    BY ReqHas DEF Goto, ReqType, ReqsOK
  <1>2. req[r].row \in Rows \cup {NoRow} /\ (step \in CodeSteps => req[r].row \in Rows)
    BY ReqHas DEF ReqType, RequestOK
  <1>3. QED
    BY <1>1, <1>2, GotoTypes

LEMMA SkipTypes ==
    ASSUME TypeInv, NEW r \in Requests, SkipClaim(r), req[r].at \in WorkSteps \cup {"next"},
           req[r].todo # <<>>
    PROVE  ReqsOK'
  <1> DEFINE rest == Tail(req[r].todo)
             new == [req[r] EXCEPT !.at = "next", !.todo = rest, !.claim = NoClaim,
                                   !.row = NoRow]
  <1>1. rest \in Lists
    BY ReqHas DEF ReqType, Lists
  <1>2. req' = [req EXCEPT ![r] = new]
    BY DEF SkipClaim
  <1> HIDE DEF rest
  <1>3. new \in ReqType
    BY <1>1, ReqHas DEF ReqType, RequestSteps
  <1>4. RequestOK(new)
    BY ReqHas DEF ReqType, RequestOK, WorkSteps, CodeSteps, Pledged
  <1>5. QED
    BY <1>2, <1>3, <1>4, ReqHas, ReqMoves

LEMMA ThrowTypes ==
    ASSUME TypeInv, NEW r \in Requests, Throw(r) PROVE ReqsOK'
  <1> DEFINE new == [IdleRequest EXCEPT !.at = "threw"]
  <1>1. new \in ReqType
    BY IdleRequestType DEF ReqType, RequestSteps
  <1>2. RequestOK(new)
    BY DEF RequestOK, WorkSteps, CodeSteps, Pledged, IdleRequest
  <1>3. QED
    BY <1>1, <1>2, ReqHas, ReqMoves DEF Throw

JobsOK == job \in [Jobs -> JobType] /\ \A j \in Jobs : JobOK(job[j])
RestOK ==
    /\ claims \in [Claims -> ClaimType]
    /\ poapOwner \in [Codes -> Addresses \cup {NoAddress}]
    /\ up \subseteq Servers /\ crashes \in 0 .. CrashLimit
    /\ staff \in [Staff -> Claims \cup {NoClaim}]
    /\ mints \in [Claims -> SUBSET Codes] /\ lost \subseteq Codes
    /\ racy \subseteq Claims /\ shared \subseteq Claims

LEMMA TypeParts == TypeInv <=> CodesTypeOK /\ ReqsOK /\ JobsOK /\ RestOK
  BY DEF TypeInv, TypeOK, HandlerInv, ReqsOK, JobsOK, RestOK

LEMMA TypePartsPrime == TypeInv' <=> CodesTypeOK' /\ ReqsOK' /\ JobsOK' /\ RestOK'
  BY DEF TypeInv, TypeOK, HandlerInv, ReqsOK, JobsOK, RestOK

\* What a step leaves alone keeps its type.
LEMMA Unchanged ==
    ASSUME TypeInv
    PROVE  /\ UNCHANGED codeVars => CodesTypeOK'
           /\ UNCHANGED req => ReqsOK'
           /\ UNCHANGED job => JobsOK'
           /\ UNCHANGED <<claims, poapOwner, serverVars, staff, history>> => RestOK'
  BY TypeParts DEF CodesTypeOK, codeVars, ReqsOK, JobsOK, RestOK, serverVars, history

\* Rows and checks change by deleting, upserting and starting or ending a check.
LEMMA RowTypes ==
    ASSUME TypeInv, NEW k \in Codes
    PROVE  Row(k) \in Rows
  BY TypeParts DEF CodesTypeOK, Row, Rows

LEMMA StockTypes ==
    ASSUME TypeInv, UNCHANGED <<poap, check>>
    PROVE  /\ \A k \in Codes : Upsert(k) => CodesTypeOK'
           /\ \A row : DeleteRow(row) => CodesTypeOK'
           /\ UNCHANGED <<redeemCodes, rowId>> => CodesTypeOK'
  BY TypeParts DEF CodesTypeOK, Upsert, DeleteRow

LEMMA CheckStarts ==
    ASSUME TypeInv, NEW r \in Requests, NEW new \in {NewCheck, NoCheck},
           check' = [check EXCEPT ![r] = new], UNCHANGED poap
    PROVE  /\ \A row : DeleteRow(row) => CodesTypeOK'
           /\ UNCHANGED <<redeemCodes, rowId>> => CodesTypeOK'
  <1>1. new \in CheckType
    BY DEF NewCheck, NoCheck, CheckType, CheckSteps
  <1>2. check' \in [Checkers -> CheckType]
    BY <1>1, TypeParts DEF CodesTypeOK
  <1>3. QED
    BY <1>2, TypeParts DEF CodesTypeOK, DeleteRow

LEMMA ClaimHas ==
    ASSUME TypeInv, NEW c \in Claims PROVE claims[c] \in ClaimType
  BY TypeParts DEF RestOK

LEMMA ClaimTypes ==
    ASSUME TypeInv, NEW c \in Claims, NEW new \in ClaimType,
           claims' = [claims EXCEPT ![c] = new],
           UNCHANGED <<poapOwner, serverVars, staff, history>>
    PROVE  RestOK'
  BY TypeParts DEF RestOK, serverVars, history

LEMMA RequestTypes ==
    ASSUME TypeInv, NEW r \in Requests, RequestStep(r) \/ Submit(r) PROVE TypeInv'
  <1> USE DEF WorkSteps, CodeSteps, Pledged
  <1> DEFINE q == req[r]
  <1>0. q \in ReqType /\ RequestOK(q)
    BY ReqHas
  <1>1. CASE Submit(r)
    <2>1. PICK s \in up, a \in Addresses, batch \in Batches :
             req' = [req EXCEPT ![r] = [IdleRequest EXCEPT !.at = "next", !.host = s,
                                                           !.addr = a, !.todo = batch]]
      BY <1>1 DEF Submit
    <2> DEFINE new == [IdleRequest EXCEPT !.at = "next", !.host = s, !.addr = a, !.todo = batch]
    <2>2. s \in Servers /\ batch \in Lists
      BY ClaimMintingAssumption, TypeParts DEF RestOK, Lists
    <2>3. new \in ReqType
      BY <2>2, IdleRequestType DEF ReqType, RequestSteps
    <2>4. RequestOK(new)
      BY DEF RequestOK, IdleRequest
    <2>5. ReqsOK'
      BY <2>1, <2>3, <2>4, ReqHas, ReqMoves
    <2>6. QED
      BY <1>1, <2>5, Unchanged, TypePartsPrime DEF Submit
  <1>2. CASE ReadClaim(r)
    <2> DEFINE c == Head(q.todo)
    <2>1. c \in Claims
      BY <1>0, <1>2 DEF ReadClaim, ReqType, Lists
    <2>2. ReqsOK'
      <3>1. CASE SkipClaim(r)
        BY <1>2, <3>1, SkipTypes DEF ReadClaim
      <3>2. CASE req' = [req EXCEPT ![r].at = "choose", ![r].claim = c]
        <4> HIDE DEF c
        <4> DEFINE new == [q EXCEPT !.at = "choose", !.claim = c]
        <4>1. new \in ReqType
          BY <1>0, <2>1 DEF ReqType, RequestSteps
        <4>2. RequestOK(new)
          BY <1>0, <1>2, <2>1 DEF ReadClaim, ReqType, RequestOK
        <4>3. QED
          BY <3>2, <4>1, <4>2, ReqHas, ReqMoves
      <3>3. QED
        BY <1>2, <3>1, <3>2 DEF ReadClaim
    <2>3. RestOK'
      BY <1>2, <2>1, TypeParts DEF ReadClaim, RestOK, serverVars
    <2>4. QED
      BY <1>2, <2>2, <2>3, Unchanged, TypePartsPrime DEF ReadClaim
  <1>3. CASE Choose(r)
    <2>1. CASE \E k \in redeemCodes : /\ req' = [req EXCEPT ![r].at = "verify", ![r].row = Row(k)]
                                     /\ UNCHANGED check
      <3>1. redeemCodes \subseteq Codes
        BY TypeParts DEF CodesTypeOK
      <3>2. ReqsOK'
        BY <1>3, <2>1, <3>1, RowTypes, GotoTypes DEF Choose
      <3>3. QED
        BY <1>3, <2>1, <3>2, Unchanged, TypePartsPrime DEF Choose, codeVars
    <2>2. CASE Goto(r, "check") /\ check' = [check EXCEPT ![r] = NewCheck]
      <3>1. ReqsOK'
        BY <1>3, <2>2, GotoKeepsRow DEF Choose
      <3>2. CodesTypeOK'
        BY <1>3, <2>2, CheckStarts DEF Choose
      <3>3. QED
        BY <1>3, <3>1, <3>2, Unchanged, TypePartsPrime DEF Choose
    <2>3. QED
      BY <1>3, <2>1, <2>2 DEF Choose
  <1>4. CASE Verify(r)
    <2>1. ReqsOK'
      BY <1>4, GotoKeepsRow, ThrowTypes DEF Verify
    <2>2. QED
      BY <1>4, <2>1, Unchanged, TypePartsPrime DEF Verify
  <1>5. CASE Discard(r)
    <2>1. ReqsOK'
      BY <1>5, GotoTypes DEF Discard
    <2>2. CodesTypeOK'
      BY <1>5, CheckStarts DEF Discard
    <2>3. QED
      BY <1>5, <2>1, <2>2, Unchanged, TypePartsPrime DEF Discard
  <1>6. CASE CheckCodes(r)
    <2>1. CodesTypeOK'
      BY <1>6, CheckTypes, TypeParts, ClaimMintingAssumption DEF CheckCodes
    <2>2. QED
      BY <1>6, <2>1, Unchanged, TypePartsPrime DEF CheckCodes
  <1>7. CASE CheckEnds(r)
    <2>1. ReqsOK'
      <3>1. q.todo # <<>>
        BY <1>0, <1>7 DEF CheckEnds, RequestOK
      <3>2. CASE Goto(r, "rechoose")
        BY <1>7, <3>2, GotoKeepsRow DEF CheckEnds
      <3>3. CASE SkipClaim(r)
        BY <1>7, <3>1, <3>3, SkipTypes DEF CheckEnds
      <3>4. CASE Throw(r)
        BY <3>4, ThrowTypes
      <3>5. QED
        BY <1>7, <3>2, <3>3, <3>4 DEF CheckEnds
    <2>2. CodesTypeOK'
      BY <1>7, CheckStarts DEF CheckEnds
    <2>3. QED
      BY <1>7, <2>1, <2>2, Unchanged, TypePartsPrime DEF CheckEnds
  <1>8. CASE Rechoose(r)
    <2>1. ReqsOK'
      <3>1. q.todo # <<>> /\ redeemCodes \subseteq Codes
        BY <1>0, <1>8, TypeParts DEF Rechoose, RequestOK, CodesTypeOK
      <3>2. CASE SkipClaim(r)
        BY <1>8, <3>1, <3>2, SkipTypes DEF Rechoose
      <3>3. CASE \E k \in redeemCodes : req' = [req EXCEPT ![r].at = "take", ![r].row = Row(k)]
        BY <1>8, <3>1, <3>3, RowTypes, GotoTypes DEF Rechoose
      <3>4. QED
        BY <1>8, <3>2, <3>3 DEF Rechoose
    <2>2. QED
      BY <1>8, <2>1, Unchanged, TypePartsPrime DEF Rechoose
  <1>9. CASE Take(r)
    <2>1. ReqsOK'
      BY <1>9, ThrowTypes, GotoKeepsRow DEF Take
    <2>2. CodesTypeOK'
      BY <1>9, StockTypes DEF Take
    <2>3. QED
      BY <1>9, <2>1, <2>2, Unchanged, TypePartsPrime DEF Take
  <1>10. CASE Pend(r)
    <2>1. ReqsOK'
      BY <1>10, ThrowTypes, GotoKeepsRow DEF Pend
    <2>2. RestOK'
      <3>1. CASE UNCHANGED claims
        BY <1>10, <3>1, Unchanged DEF Pend
      <3>2. CASE claims' = [claims EXCEPT ![q.claim].status = "PENDING",
                                          ![q.claim].mintedAddress = q.addr]
        <4> DEFINE new == [claims[q.claim] EXCEPT !.status = "PENDING", !.mintedAddress = q.addr]
        <4>1. q.claim \in Claims /\ q.addr \in Addresses
          BY <1>0, <1>10 DEF Pend, RequestOK
        <4>2. new \in ClaimType
          BY <4>1, ClaimHas DEF ClaimType, Statuses
        <4>3. claims' = [claims EXCEPT ![q.claim] = new]
          BY <3>2, <4>1, TypeParts DEF RestOK
        <4>4. QED
          BY <1>10, <4>1, <4>2, <4>3, ClaimTypes DEF Pend
      <3>3. QED
        BY <1>10, <3>1, <3>2 DEF Pend
    <2>3. QED
      BY <1>10, <2>1, <2>2, Unchanged, TypePartsPrime DEF Pend
  <1>11. CASE Redeem(r)
    <2>1. ReqsOK'
      BY <1>11, GotoKeepsRow, ThrowTypes DEF Redeem
    <2>2. Code(r) \in Codes
      BY <1>0, <1>11 DEF Redeem, RequestOK, Rows, Code
    <2>3. RestOK'
      BY <1>0, <1>11, <2>2, TypeParts DEF Redeem, Accept, RestOK, serverVars, RequestOK
    <2>4. CodesTypeOK'
      BY <1>11, <2>2, TypeParts DEF Redeem, Accept, CodesTypeOK, POAPStates
    <2>5. QED
      BY <1>11, <2>1, <2>3, <2>4, Unchanged, TypePartsPrime DEF Redeem
  <1>12. CASE Restore(r)
    <2>1. ReqsOK'
      BY <1>12, GotoKeepsRow DEF Restore
    <2>2. Code(r) \in Codes
      BY <1>0, <1>12 DEF Restore, RequestOK, Rows, Code
    <2>3. CodesTypeOK'
      BY <1>12, <2>2, StockTypes DEF Restore
    <2>4. QED
      BY <1>12, <2>1, <2>3, Unchanged, TypePartsPrime DEF Restore
  <1>13. CASE Unpend(r)
    <2>1. ReqsOK'
      BY <1>0, <1>13, ThrowTypes, SkipTypes DEF Unpend, RequestOK
    <2>2. RestOK'
      <3>1. CASE UNCHANGED claims
        BY <1>13, <3>1, Unchanged DEF Unpend
      <3>2. CASE claims' = [claims EXCEPT ![q.claim].status = "UNCLAIMED"]
        <4> DEFINE new == [claims[q.claim] EXCEPT !.status = "UNCLAIMED"]
        <4>1. q.claim \in Claims
          BY <1>0, <1>13 DEF Unpend, RequestOK
        <4>2. new \in ClaimType
          BY <4>1, ClaimHas DEF ClaimType, Statuses
        <4>3. QED
          BY <1>13, <3>2, <4>1, <4>2, ClaimTypes DEF Unpend
      <3>3. QED
        BY <1>13, <3>1, <3>2 DEF Unpend
    <2>3. QED
      BY <1>13, <2>1, <2>2, Unchanged, TypePartsPrime DEF Unpend
  <1>14. CASE Mint(r)
    <2>1. q.todo # <<>> /\ q.claim \in Claims /\ q.addr \in Addresses /\ Code(r) \in Codes
      BY <1>0, <1>14 DEF Mint, RequestOK, Rows, Code
    <2>2. ReqsOK'
      <3>1. CASE Throw(r)
        BY <3>1, ThrowTypes
      <3>2. CASE ~Throw(r)
        <4> DEFINE rest == Tail(q.todo)
                   e == [claim |-> q.claim, code |-> Code(r), addr |-> q.addr]
                   new == [q EXCEPT !.at = "next", !.todo = rest, !.claim = NoClaim,
                                    !.row = NoRow, !.found = @ \cup {e}]
        <4>1. rest \in Lists
          BY <1>0, <2>1 DEF ReqType, Lists
        <4>2. e \in Entry
          BY <2>1 DEF Entry
        <4>3. req' = [req EXCEPT ![r] = new]
          BY <1>14, <3>2 DEF Mint
        <4> HIDE DEF rest, e
        <4>4. new \in ReqType
          BY <1>0, <4>1, <4>2 DEF ReqType, RequestSteps
        <4>5. RequestOK(new)
          BY <1>0, <1>14, <2>1 DEF RequestOK, ReqType
        <4>6. QED
          BY <4>3, <4>4, <4>5, ReqHas, ReqMoves
      <3>3. QED
        BY <3>1, <3>2
    <2>3. RestOK'
      <3>1. CASE UNCHANGED claims
        BY <1>14, <3>1, Unchanged DEF Mint
      <3>2. CASE claims' = [claims EXCEPT ![q.claim].status = "MINTING",
                                          ![q.claim].qrHash = Code(r)]
        <4> DEFINE new == [claims[q.claim] EXCEPT !.status = "MINTING", !.qrHash = Code(r)]
        <4>1. new \in ClaimType
          BY <2>1, ClaimHas DEF ClaimType, Statuses
        <4>2. claims' = [claims EXCEPT ![q.claim] = new]
          BY <3>2, <2>1, TypeParts DEF RestOK
        <4>3. QED
          BY <1>14, <2>1, <4>1, <4>2, ClaimTypes DEF Mint
      <3>3. QED
        BY <1>14, <3>1, <3>2 DEF Mint
    <2>4. QED
      BY <1>14, <2>2, <2>3, Unchanged, TypePartsPrime DEF Mint
  <1>15. CASE Respond(r)
    <2>1. ReqsOK'
      <3> DEFINE new == [q EXCEPT !.at = "done", !.found = {}]
      <3>1. new \in ReqType
        BY <1>0 DEF ReqType, RequestSteps
      <3>2. RequestOK(new)
        BY <1>0 DEF RequestOK, ReqType
      <3>3. QED
        BY <1>15, <3>1, <3>2, ReqHas, ReqMoves DEF Respond
    <2>2. JobsOK'
      <3> DEFINE step == IF q.found = {} THEN "off" ELSE "watch"
                 new == [job[r] EXCEPT !.at = step, !.entries = q.found]
      <3>1. job[r] \in JobType
        BY TypeParts DEF JobsOK, Jobs
      <3>2. new \in JobType
        BY <1>0, <3>1 DEF ReqType, JobType
      <3>3. JobOK(new)
        BY <3>1 DEF JobOK, JobType
      <3>4. job' = [job EXCEPT ![r] = new]
        BY <1>15 DEF Respond
      <3> HIDE DEF new
      <3>5. QED
        BY <3>2, <3>3, <3>4, TypeParts DEF JobsOK, Jobs
    <2>3. QED
      BY <1>15, <2>1, <2>2, Unchanged, TypePartsPrime DEF Respond
  <1>16. CASE FetchSecret(r)
    <2>1. ReqsOK'
      BY <1>16, GotoKeepsRow, ThrowTypes DEF FetchSecret
    <2>2. QED
      BY <1>16, <2>1, Unchanged, TypePartsPrime DEF FetchSecret
  <1>17. QED
    BY <1>1, <1>2, <1>3, <1>4, <1>5, <1>6, <1>7, <1>8, <1>9, <1>10, <1>11, <1>12, <1>13,
       <1>14, <1>15, <1>16 DEF RequestStep

\* A job that is replaced by a well-formed record leaves all well-formed.
LEMMA JobMoves ==
    ASSUME TypeInv, NEW j \in Jobs, NEW new \in JobType, JobOK(new),
           job' = [job EXCEPT ![j] = new]
    PROVE  JobsOK'
  BY TypeParts DEF JobsOK

LEMMA JobHas ==
    ASSUME TypeInv, NEW j \in Jobs
    PROVE  job[j] \in JobType /\ JobOK(job[j])
  BY TypeParts DEF JobsOK

LEMMA DropTypes ==
    ASSUME TypeInv, NEW j \in Jobs, Drop(j) PROVE JobsOK'
  <1> DEFINE rest == job[j].entries \ {job[j].cur}
             step == IF rest = {} THEN "off" ELSE "watch"
             new == [IdleJob EXCEPT !.at = step, !.entries = rest]
  <1>1. rest \in SUBSET Entry
    BY JobHas DEF JobType
  <1> HIDE DEF rest
  <1>2. new \in JobType
    BY <1>1, IdleJobType DEF JobType
  <1>3. JobOK(new)
    BY DEF JobOK, IdleJob
  <1>4. job' = [job EXCEPT ![j] = new]
    BY DEF Drop, rest
  <1> HIDE DEF new
  <1>5. QED
    BY <1>2, <1>3, <1>4, JobMoves

LEMMA JobThrowsTypes ==
    ASSUME TypeInv, NEW j \in Jobs, JobThrows(j) PROVE JobsOK'
  <1>1. JobOK(IdleJob)
    BY DEF JobOK, IdleJob
  <1>2. QED
    BY <1>1, IdleJobType, JobMoves DEF JobThrows

LEMMA JobTypes ==
    ASSUME TypeInv, NEW j \in Jobs, JobStep(j) PROVE TypeInv'
  <1> DEFINE g == job[j]
  <1>0. g \in JobType /\ JobOK(g)
    BY JobHas
  <1>1. CASE Scan(j)
    <2> DEFINE minting == {c \in Claims : claims[c].status = "MINTING"}
               entries == {[claim |-> c, code |-> claims[c].qrHash,
                            addr |-> claims[c].mintedAddress] : c \in minting}
               step == IF minting = {} THEN "off" ELSE "watch"
               new == [g EXCEPT !.at = step, !.entries = entries]
    <2>1. entries \in SUBSET Entry
      BY TypeParts DEF RestOK, ClaimType, Entry
    <2>2. job' = [job EXCEPT ![j] = new]
      BY <1>1 DEF Scan
    <2> HIDE DEF entries, minting
    <2>3. new \in JobType /\ JobOK(new)
      BY <1>0, <2>1 DEF JobType, JobOK
    <2> HIDE DEF new
    <2>4. JobsOK'
      BY <2>2, <2>3, JobMoves
    <2>5. RestOK'
      BY <1>1, TypeParts DEF Scan, RestOK, serverVars
    <2>6. QED
      BY <1>1, <2>4, <2>5, Unchanged, TypePartsPrime DEF Scan
  <1>2. CASE Watch(j)
    <2>1. PICK e \in g.entries :
             \/ job' = [job EXCEPT ![j].entries = @ \ {e},
                                   ![j].at = IF g.entries = {e} THEN "off" ELSE "watch"]
             \/ /\ e.code # NoCode /\ e.addr # NoAddress
                /\ \/ job' = [job EXCEPT ![j].at = "reset", ![j].cur = e]
                   \/ job' = [job EXCEPT ![j].at = "lookup", ![j].cur = e]
             \/ JobThrows(j)
      BY <1>2 DEF Watch
    <2>2. e \in Entry
      BY <1>0 DEF JobType
    <2>3. CASE job' = [job EXCEPT ![j].entries = @ \ {e},
                                  ![j].at = IF g.entries = {e} THEN "off" ELSE "watch"]
      <3> DEFINE step == IF g.entries = {e} THEN "off" ELSE "watch"
                 new == [g EXCEPT !.entries = @ \ {e}, !.at = step]
      <3>1. new \in JobType /\ JobOK(new)
        BY <1>0 DEF JobType, JobOK
      <3>2. job' = [job EXCEPT ![j] = new]
        BY <2>3
      <3> HIDE DEF new
      <3>3. QED
        BY <1>2, <3>1, <3>2, JobMoves, Unchanged, TypePartsPrime DEF Watch
    <2>4. ASSUME NEW step \in {"reset", "lookup"}, e.code # NoCode, e.addr # NoAddress,
                 job' = [job EXCEPT ![j].at = step, ![j].cur = e]
          PROVE  TypeInv'
      <3> DEFINE new == [g EXCEPT !.at = step, !.cur = e]
      <3>1. e.claim \in Claims /\ e.code \in Codes /\ e.addr \in Addresses
        BY <2>2, <2>4 DEF Entry
      <3>2. new \in JobType
        BY <1>0, <2>2 DEF JobType
      <3>3. JobOK(new)
        BY <1>0, <3>1 DEF JobType, JobOK
      <3>4. job' = [job EXCEPT ![j] = new]
        BY <2>4
      <3> HIDE DEF new
      <3>5. QED
        BY <1>2, <3>2, <3>3, <3>4, JobMoves, Unchanged, TypePartsPrime DEF Watch
    <2>5. CASE JobThrows(j)
      BY <1>2, <2>5, JobThrowsTypes, Unchanged, TypePartsPrime DEF Watch
    <2>6. QED
      BY <2>1, <2>3, <2>4, <2>5
  <1>3. CASE Reset(j)
    <2> DEFINE c == g.cur.claim
    <2>1. c \in Claims
      BY <1>0, <1>3 DEF Reset, JobOK
    <2>2. CASE JobThrows(j) /\ UNCHANGED claims
      BY <1>3, <2>2, JobThrowsTypes, Unchanged, TypePartsPrime DEF Reset
    <2>3. CASE /\ claims' = [claims EXCEPT ![c].status = "UNCLAIMED", ![c].qrHash = NoCode,
                                           ![c].mintedAddress = NoAddress]
               /\ job' = [job EXCEPT ![j].at = "restock"]
      <3> DEFINE new == [claims[c] EXCEPT !.status = "UNCLAIMED", !.qrHash = NoCode,
                                          !.mintedAddress = NoAddress]
                 newJob == [g EXCEPT !.at = "restock"]
      <3>1. new \in ClaimType
        BY <2>1, ClaimHas DEF ClaimType, Statuses
      <3>2. claims' = [claims EXCEPT ![c] = new]
        BY <2>1, <2>3, TypeParts DEF RestOK
      <3>3. RestOK'
        BY <1>3, <2>1, <3>1, <3>2, ClaimTypes DEF Reset
      <3>4. newJob \in JobType /\ JobOK(newJob)
        BY <1>0, <1>3 DEF Reset, JobType, JobOK
      <3>5. job' = [job EXCEPT ![j] = newJob]
        BY <2>3
      <3> HIDE DEF newJob
      <3>6. QED
        BY <1>3, <3>3, <3>4, <3>5, JobMoves, Unchanged, TypePartsPrime DEF Reset
    <2>4. QED
      BY <1>3, <2>2, <2>3 DEF Reset
  <1>4. CASE Restock(j)
    <2>1. g.cur.code \in Codes
      BY <1>0, <1>4 DEF Restock, JobOK
    <2>2. CodesTypeOK'
      BY <1>4, <2>1, StockTypes DEF Restock
    <2>3. QED
      BY <1>4, <2>2, DropTypes, Unchanged, TypePartsPrime DEF Restock
  <1>5. CASE Lookup(j)
    <2>1. JobsOK'
      <3>1. ASSUME NEW k \in Codes, job' = [job EXCEPT ![j].at = "finish", ![j].token = k]
            PROVE  JobsOK'
        <4> DEFINE new == [g EXCEPT !.at = "finish", !.token = k]
        <4>1. new \in JobType /\ JobOK(new)
          BY <1>0, <1>5 DEF Lookup, JobType, JobOK
        <4>2. job' = [job EXCEPT ![j] = new]
          BY <3>1
        <4> HIDE DEF new
        <4>3. QED
          BY <4>1, <4>2, JobMoves
      <3>2. CASE job' = [job EXCEPT ![j].at = "watch", ![j].cur = NoEntry]
        <4> DEFINE new == [g EXCEPT !.at = "watch", !.cur = NoEntry]
        <4>1. new \in JobType /\ JobOK(new)
          BY <1>0 DEF JobType, JobOK
        <4>2. job' = [job EXCEPT ![j] = new]
          BY <3>2
        <4> HIDE DEF new
        <4>3. QED
          BY <4>1, <4>2, JobMoves
      <3>3. g.cur.code \in Codes
        BY <1>0, <1>5 DEF Lookup, JobOK
      <3>4. QED
        BY <1>5, <3>1, <3>2, <3>3, JobThrowsTypes DEF Lookup
    <2>2. QED
      BY <1>5, <2>1, Unchanged, TypePartsPrime DEF Lookup
  <1>6. CASE Finish(j)
    <2> DEFINE c == g.cur.claim
    <2>1. c \in Claims /\ g.token \in Codes
      BY <1>0, <1>6 DEF Finish, JobOK
    <2>2. CASE JobThrows(j) /\ UNCHANGED claims
      BY <1>6, <2>2, JobThrowsTypes, Unchanged, TypePartsPrime DEF Finish
    <2>3. CASE /\ claims' = [claims EXCEPT ![c].status = "CLAIMED", ![c].poapTokenId = g.token]
               /\ Drop(j)
      <3> DEFINE new == [claims[c] EXCEPT !.status = "CLAIMED", !.poapTokenId = g.token]
      <3>1. new \in ClaimType
        BY <2>1, ClaimHas DEF ClaimType, Statuses
      <3>2. claims' = [claims EXCEPT ![c] = new]
        BY <2>1, <2>3, TypeParts DEF RestOK
      <3>3. RestOK'
        BY <1>6, <2>1, <3>1, <3>2, ClaimTypes DEF Finish
      <3>4. QED
        BY <1>6, <2>3, <3>3, DropTypes, Unchanged, TypePartsPrime DEF Finish
    <2>4. QED
      BY <1>6, <2>2, <2>3 DEF Finish
  <1>7. QED
    BY <1>1, <1>2, <1>3, <1>4, <1>5, <1>6 DEF JobStep

LEMMA EnvironmentTypes ==
    ASSUME TypeInv,
           \/ \E d \in Staff : CheckDeletable(d) \/ DeleteClaim(d)
           \/ \E k \in Codes : POAPStep(k) \/ POAPForget(k)
           \/ \E s \in Servers : Crash(s) \/ Boot(s)
           \/ UNCHANGED vars
    PROVE  TypeInv'
  <1>1. CASE \E d \in Staff : CheckDeletable(d)
    <2>1. RestOK'
      BY <1>1, TypeParts DEF CheckDeletable, RestOK, serverVars
    <2>2. QED
      BY <1>1, <2>1, Unchanged, TypePartsPrime DEF CheckDeletable
  <1>2. CASE \E d \in Staff : DeleteClaim(d)
    <2> DEFINE gone == [NewClaim EXCEPT !.status = "DELETED"]
    <2>1. gone \in ClaimType
      BY NewClaimType DEF ClaimType, Statuses
    <2>2. RestOK'
      BY <1>2, <2>1, TypeParts DEF DeleteClaim, RestOK, serverVars, history
    <2>3. QED
      BY <1>2, <2>2, Unchanged, TypePartsPrime DEF DeleteClaim
  <1>3. CASE \E k \in Codes : POAPStep(k)
    <2>1. CodesTypeOK'
      BY <1>3, TypeParts DEF POAPStep, POAPIssue, CodesTypeOK, POAPStates
    <2>2. QED
      BY <1>3, <2>1, Unchanged, TypePartsPrime DEF POAPStep
  <1>4. CASE \E k \in Codes : POAPForget(k)
    <2>1. CodesTypeOK'
      BY <1>4, TypeParts DEF POAPForget, CodesTypeOK, POAPStates
    <2>2. RestOK'
      BY <1>4, TypeParts DEF POAPForget, RestOK, serverVars
    <2>3. QED
      BY <1>4, <2>1, <2>2, Unchanged, TypePartsPrime DEF POAPForget
  <1>5. CASE \E s \in Servers : Crash(s)
    <2>1. PICK s \in Servers : Crash(s)
      BY <1>5
    <2> DEFINE cut == {r \in Requests : req[r].host = s /\ req[r].at \in {"next"} \cup WorkSteps}
               dead == [IdleRequest EXCEPT !.at = "dead"]
    <2>2. dead \in ReqType /\ RequestOK(dead)
      BY IdleRequestType
         DEF ReqType, RequestSteps, RequestOK, WorkSteps, CodeSteps, Pledged, IdleRequest
    <2>3. /\ req' = [r \in Requests |-> IF r \in cut THEN dead ELSE req[r]]
          /\ check' = [r \in Checkers |-> IF r \in cut THEN NoCheck ELSE check[r]]
          /\ job' = [j \in Jobs |-> IF Host(j) = s THEN IdleJob ELSE job[j]]
      BY <2>1 DEF Crash
    <2> HIDE DEF cut, dead
    <2>4. ReqsOK'
      BY <2>2, <2>3, TypeParts DEF ReqsOK
    <2>5. NoCheck \in CheckType /\ JobOK(IdleJob)
      BY DEF NoCheck, CheckType, CheckSteps, JobOK, IdleJob
    <2>6. CodesTypeOK'
      BY <2>1, <2>3, <2>5, TypeParts DEF CodesTypeOK, Crash
    <2>7. JobsOK'
      BY <2>3, <2>5, IdleJobType, TypeParts DEF JobsOK
    <2>8. RestOK'
      BY <2>1, TypeParts, ClaimMintingAssumption DEF RestOK, Crash, history
    <2>9. QED
      BY <2>4, <2>6, <2>7, <2>8, TypePartsPrime
  <1>6. CASE \E s \in Servers : Boot(s)
    <2>1. PICK s \in Servers : Boot(s)
      BY <1>6
    <2>2. s \in Jobs
      BY DEF Jobs
    <2> DEFINE new == [job[s] EXCEPT !.at = "scan"]
    <2>3. new \in JobType /\ JobOK(new)
      BY <2>2, JobHas DEF JobType, JobOK
    <2>4. job' = [job EXCEPT ![s] = new]
      BY <2>1 DEF Boot
    <2> HIDE DEF new
    <2>5. JobsOK'
      BY <2>2, <2>3, <2>4, JobMoves
    <2>6. RestOK'
      BY <2>1, TypeParts DEF RestOK, Boot, history
    <2>7. QED
      BY <2>1, <2>5, <2>6, Unchanged, TypePartsPrime DEF Boot
  <1>7. CASE UNCHANGED vars
    BY <1>7, Unchanged, TypePartsPrime DEF vars
  <1>8. QED
    BY <1>1, <1>2, <1>3, <1>4, <1>5, <1>6, <1>7

LEMMA TypeStart == Init => TypeInv
  <1>1. Init => HandlerInv
    BY DEF Init, HandlerInv, RequestOK, JobOK, IdleRequest, IdleJob, WorkSteps, CodeSteps, Pledged
  <1>2. QED
    BY <1>1, InitTypes DEF TypeInv

LEMMA TypeStep == TypeInv /\ [ForgetfulNext]_vars => TypeInv'
  BY RequestTypes, JobTypes, EnvironmentTypes DEF ForgetfulNext, Next

\* Every variable keeps its type and every handler has what its next step needs,
\* also on a POAP service that forgets redemptions.
THEOREM TypeCorrect == ForgetfulSpec => []TypeInv
  BY TypeStart, TypeStep, PTL DEF ForgetfulSpec

\* The type invariant, for the POAP service that keeps what it accepted.
THEOREM TypesHold == Spec => []TypeOK
  <1>1. Spec => ForgetfulSpec
    <2>1. [Next]_vars => [ForgetfulNext]_vars
      BY DEF ForgetfulNext
    <2>2. QED
      BY <2>1, PTL DEF Spec, ForgetfulSpec
  <1>2. TypeInv => TypeOK
    BY DEF TypeInv
  <1>3. QED
    BY <1>1, <1>2, TypeCorrect, PTL

-----------------------------------------------------------------------------
(* MintingIsBacked and CodeMintsOneClaim, from BackingInv.                 *)

\* What a step must not do to be harmless to handlers and jobs it does not move.
BackedNext(e) ==
    /\ e.code \in mints'[e.claim]
    /\ claims'[e.claim].status = "DELETED" \/ claims'[e.claim].qrHash # NoCode
Kept ==
    /\ \A c \in Claims : mints[c] \subseteq mints'[c]
    /\ \A e \in Entry : EntryBacked(e) => BackedNext(e)

LEMMA KeptUnchanged == UNCHANGED <<claims, mints>> => Kept
  BY DEF Kept, EntryBacked, BackedNext

LEMMA BackedHas ==
    ASSUME TypeInv, BackingInv
    PROVE  /\ \A c \in Claims : claims[c] \in ClaimType /\ BackedClaim(c)
           /\ \A r \in Requests : req[r] \in ReqType /\ RequestOK(req[r]) /\ BackedRequest(r)
           /\ \A j \in Jobs : job[j] \in JobType /\ JobOK(job[j]) /\ BackedJob(j)
  BY ClaimHas, ReqHas, JobHas DEF BackingInv


LEMMA JobEntries ==
    ASSUME NEW g \in JobType, JobOK(g)
    PROVE  g.entries \subseteq Entry /\ (g.at \in {"lookup", "finish"} => g.cur \in Entry)
  BY ClaimMintingAssumption DEF JobType, JobOK, NoEntry

\* A request that moves keeps its entries, or fewer, and only Redeem and Mint
\* make one that is about to mint or has a new entry.
RequestMoves(r) ==
    \/ req'[r] = req[r]
    \/ req'[r].found \subseteq req[r].found /\ req'[r].at # "mint"
    \/ /\ req'[r].at = "mint" => req'[r].row[1] \in mints'[req'[r].claim]
       /\ \A e \in req'[r].found : BackedNext(e)
JobMovesOn(j) ==
    \/ job'[j] = job[j]
    \/ /\ job'[j].at \notin {"reset", "restock"}
       /\ \A e \in job'[j].entries : EntryBacked(e)
       /\ job'[j].at \in {"lookup", "finish"} => EntryBacked(job'[j].cur)

LEMMA MovesAreBacked ==
    ASSUME TypeInv, TypeInv', BackingInv, Kept,
           \A r \in Requests : RequestMoves(r), \A j \in Jobs : JobMovesOn(j)
    PROVE  /\ \A r \in Requests : BackedRequest(r)'
           /\ \A j \in Jobs : BackedJob(j)'
  <1>1. ASSUME NEW r \in Requests PROVE BackedRequest(r)'
    <2>0. req[r] \in ReqType /\ RequestOK(req[r]) /\ BackedRequest(r) /\ RequestMoves(r)
      BY BackedHas
    <2>1. CASE req'[r] = req[r]
      <3>1. req[r].at = "mint" => req[r].claim \in Claims
        BY <2>0 DEF RequestOK, WorkSteps
      <3>2. req[r].found \subseteq Entry
        BY <2>0 DEF ReqType
      <3>3. QED
        BY <2>0, <2>1, <3>1, <3>2 DEF BackedRequest, EntryBacked, BackedNext, Kept, Code
    <2>2. CASE req'[r].found \subseteq req[r].found /\ req'[r].at # "mint"
      <3>1. req[r].found \subseteq Entry
        BY <2>0 DEF ReqType
      <3>2. QED
        BY <2>0, <2>2, <3>1 DEF BackedRequest, EntryBacked, BackedNext, Kept
    <2>3. CASE /\ req'[r].at = "mint" => req'[r].row[1] \in mints'[req'[r].claim]
               /\ \A e \in req'[r].found : BackedNext(e)
      BY <2>3 DEF BackedRequest, EntryBacked, BackedNext, Code
    <2>4. QED
      BY <2>0, <2>1, <2>2, <2>3 DEF RequestMoves
  <1>2. ASSUME NEW j \in Jobs PROVE BackedJob(j)'
    <2>0. job[j] \in JobType /\ JobOK(job[j]) /\ BackedJob(j) /\ JobMovesOn(j)
      BY BackedHas
    <2>1. /\ job'[j].entries \subseteq Entry
          /\ job'[j].at \in {"lookup", "finish"} => job'[j].cur \in Entry
      <3>1. job'[j] \in JobType /\ JobOK(job'[j])
        BY DEF TypeInv, TypeOK, HandlerInv
      <3>2. QED
        BY <3>1, JobEntries
    <2>2. CASE job'[j] = job[j]
      <3>1. Tracked(j)' = Tracked(j)
        BY <2>2 DEF Tracked
      <3>2. Tracked(j) \subseteq Entry
        BY <2>0, JobEntries DEF Tracked
      <3>3. QED
        BY <2>0, <2>2, <3>1, <3>2 DEF BackedJob, EntryBacked, BackedNext, Kept
    <2>3. CASE /\ job'[j].at \notin {"reset", "restock"}
               /\ \A e \in job'[j].entries : EntryBacked(e)
               /\ job'[j].at \in {"lookup", "finish"} => EntryBacked(job'[j].cur)
      <3>1. /\ \A e \in job'[j].entries : BackedNext(e)
            /\ job'[j].at \in {"lookup", "finish"} => BackedNext(job'[j].cur)
        BY <2>1, <2>3 DEF Kept
      <3>2. QED
        BY <2>3, <3>1 DEF BackedJob, EntryBacked, BackedNext, Tracked
    <2>4. QED
      BY <2>0, <2>2, <2>3 DEF JobMovesOn
  <1>3. QED
    BY <1>1, <1>2

\* The steps that neither redeem nor write a claim.
LEMMA QuietSteps ==
    ASSUME TypeInv, TypeInv', BackingInv, UNCHANGED <<claims, mints>>,
           \A k \in Codes : poap[k] \in Accepted => poap'[k] \in Accepted,
           \A r \in Requests : RequestMoves(r), \A j \in Jobs : JobMovesOn(j)
    PROVE  BackingInv'
  <1>1. BackedCodes'
    BY TypeParts DEF BackingInv, BackedCodes, RestOK
  <1>2. \A c \in Claims : BackedClaim(c)'
    BY BackedHas DEF BackedClaim
  <1>3. QED
    BY <1>1, <1>2, KeptUnchanged, MovesAreBacked DEF BackingInv

LEMMA UsualMoves ==
    ASSUME TypeInv, NEW r \in Requests, NEW step \in RequestSteps \ {"mint"}, NEW x,
           \/ Goto(r, step) \/ SkipClaim(r) \/ Throw(r)
           \/ req' = [req EXCEPT ![r].at = step, ![r].row = x]
           \/ req' = [req EXCEPT ![r].at = step, ![r].claim = x]
    PROVE  \A p \in Requests : RequestMoves(p)
  <1>0. req \in [Requests -> ReqType] /\ req[r] \in ReqType
    BY ReqHas DEF ReqsOK
  <1>1. ASSUME NEW p \in Requests, p # r PROVE req'[p] = req[p]
    BY <1>0, <1>1 DEF Goto, SkipClaim, Throw
  <1>2. req'[r].found \subseteq req[r].found /\ req'[r].at # "mint"
    <2>1. CASE Goto(r, step)
      BY <1>0, <2>1 DEF Goto, ReqType
    <2>2. CASE SkipClaim(r)
      BY <1>0, <2>2 DEF SkipClaim, ReqType
    <2>3. CASE Throw(r)
      BY <1>0, <2>3 DEF Throw, IdleRequest
    <2>4. CASE req' = [req EXCEPT ![r].at = step, ![r].row = x]
      BY <1>0, <2>4 DEF ReqType
    <2>5. CASE req' = [req EXCEPT ![r].at = step, ![r].claim = x]
      BY <1>0, <2>5 DEF ReqType
    <2>6. QED
      BY <2>1, <2>2, <2>3, <2>4, <2>5
  <1>3. QED
    BY <1>1, <1>2 DEF RequestMoves

LEMMA BackingRequests ==
    ASSUME TypeInv, TypeInv', BackingInv, NEW r \in Requests, Submit(r) \/ RequestStep(r)
    PROVE  BackingInv'
  <1> DEFINE q == req[r]
  <1>0. /\ req \in [Requests -> ReqType] /\ q \in ReqType /\ RequestOK(q) /\ BackedRequest(r)
        /\ job \in [Jobs -> JobType]
    BY BackedHas, TypeParts DEF ReqsOK, JobsOK
  <1>1. UNCHANGED job => \A j \in Jobs : JobMovesOn(j)
    BY DEF JobMovesOn
  <1>2. CASE Submit(r)
    <2>1. \A p \in Requests : RequestMoves(p)
      BY <1>0, <1>2 DEF Submit, RequestMoves, IdleRequest
    <2>2. QED
      BY <1>1, <1>2, <2>1, QuietSteps DEF Submit, codeVars, history
  <1>3. CASE Verify(r) \/ Rechoose(r) \/ ReadClaim(r) \/ FetchSecret(r)
    <2>1. \A p \in Requests : RequestMoves(p)
      <3>1. CASE Verify(r)
        BY <3>1, UsualMoves DEF Verify, RequestSteps, WorkSteps
      <3>2. CASE Rechoose(r)
        BY <3>2, UsualMoves DEF Rechoose, RequestSteps, WorkSteps
      <3>3. CASE ReadClaim(r)
        BY <3>3, UsualMoves DEF ReadClaim, RequestSteps, WorkSteps
      <3>4. CASE FetchSecret(r)
        BY <3>4, UsualMoves DEF FetchSecret, RequestSteps, WorkSteps
      <3>5. QED
        BY <1>3, <3>1, <3>2, <3>3, <3>4
    <2>2. QED
      BY <1>1, <1>3, <2>1, QuietSteps
         DEF Verify, Rechoose, ReadClaim, FetchSecret, codeVars, history
  <1>4. CASE Choose(r) \/ Discard(r) \/ CheckEnds(r) \/ Take(r)
    <2>1. \A p \in Requests : RequestMoves(p)
      <3>1. CASE Choose(r)
        BY <3>1, UsualMoves DEF Choose, RequestSteps, WorkSteps
      <3>2. CASE Discard(r)
        BY <3>2, UsualMoves DEF Discard, RequestSteps, WorkSteps
      <3>3. CASE CheckEnds(r)
        BY <3>3, UsualMoves DEF CheckEnds, RequestSteps, WorkSteps
      <3>4. CASE Take(r)
        BY <3>4, UsualMoves DEF Take, RequestSteps, WorkSteps
      <3>5. QED
        BY <1>4, <3>1, <3>2, <3>3, <3>4
    <2>2. QED
      BY <1>1, <1>4, <2>1, QuietSteps DEF Choose, Discard, CheckEnds, Take, history
  <1>5. CASE CheckCodes(r)
    <2>1. \A p \in Requests : RequestMoves(p)
      BY <1>5 DEF CheckCodes, RequestMoves
    <2>2. UNCHANGED poap
      BY <1>5 DEF CheckCodes, CheckStep, CheckCount, CheckFetch, CheckFetchFails, CheckFind,
                  CheckDelete, CheckUpsert, CheckRecount
    <2>3. QED
      BY <1>1, <1>5, <2>1, <2>2, QuietSteps DEF CheckCodes, history
  <1>6. CASE Restore(r)
    <2>1. \A p \in Requests : RequestMoves(p)
      BY <1>0, <1>6 DEF Restore, Goto, RequestMoves
    <2>2. QED
      BY <1>1, <1>6, <2>1, QuietSteps DEF Restore, history
  <1>7. CASE Respond(r)
    <2>1. \A p \in Requests : RequestMoves(p)
      BY <1>0, <1>7 DEF Respond, RequestMoves
    <2>2. \A j \in Jobs : JobMovesOn(j)
      BY <1>0, <1>7 DEF Respond, JobMovesOn, Jobs, BackedRequest
    <2>3. QED
      BY <1>7, <2>1, <2>2, QuietSteps DEF Respond, codeVars, history
  <1>8. CASE Pend(r) \/ Unpend(r)
    <2>1. \A p \in Requests : RequestMoves(p)
      <3>1. CASE Pend(r)
        BY <3>1, UsualMoves DEF Pend, RequestSteps, WorkSteps
      <3>2. CASE Unpend(r)
        BY <3>2, UsualMoves DEF Unpend, RequestSteps, WorkSteps
      <3>3. QED
        BY <1>8, <3>1, <3>2
    <2>2. /\ \A c \in Claims : /\ claims'[c].qrHash = claims[c].qrHash
                               /\ \/ claims'[c].status = claims[c].status
                                  \/ /\ claims[c].status # "DELETED"
                                     /\ claims'[c].status \in {"PENDING", "UNCLAIMED"}
          /\ UNCHANGED <<poap, mints>>
      BY <1>8, TypeParts DEF Pend, Unpend, RestOK, ClaimType, codeVars, history
    <2>3. Kept
      BY <2>2, ClaimMintingAssumption DEF Kept, EntryBacked, BackedNext, Entry
    <2>4. BackedCodes' /\ \A c \in Claims : BackedClaim(c)'
      BY <2>2 DEF BackingInv, BackedCodes, BackedClaim
    <2>5. UNCHANGED job
      BY <1>8 DEF Pend, Unpend
    <2>6. QED
      BY <1>1, <2>1, <2>3, <2>4, <2>5, MovesAreBacked DEF BackingInv
  <1>9. CASE Redeem(r)
    <2>0. Code(r) \in Codes /\ q.claim \in Claims
      BY <1>0, <1>9 DEF Redeem, RequestOK, Rows, Code, CodeSteps, Pledged, WorkSteps
    <2>1. CASE UNCHANGED <<poap, mints>> /\ (Goto(r, "restore") \/ Throw(r))
      <3>1. \A p \in Requests : RequestMoves(p)
        <4>1. CASE Goto(r, "restore")
          BY <4>1, UsualMoves DEF RequestSteps, WorkSteps
        <4>2. CASE Throw(r)
          BY <1>0, <4>2 DEF Throw, IdleRequest, RequestMoves
        <4>3. QED
          BY <2>1, <4>1, <4>2
      <3>2. QED
        BY <1>1, <1>9, <2>1, <3>1, QuietSteps DEF Redeem
    <2>2. CASE Accept(r) /\ (Goto(r, "mint") \/ Goto(r, "restore"))
      <3> DEFINE k == Code(r)
      <3>1. /\ poap[k] = "free" /\ poap' = [poap EXCEPT ![k] = "submitted"]
            /\ mints' = [mints EXCEPT ![q.claim] = @ \cup {k}]
            /\ UNCHANGED <<claims, job>>
        BY <1>9, <2>2 DEF Accept, Redeem
      <3>2. mints \in [Claims -> SUBSET Codes] /\ poap \in [Codes -> POAPStates]
        BY TypeParts DEF RestOK, CodesTypeOK
      <3>3. \A c \in Claims : mints[c] \subseteq mints'[c]
        BY <3>1, <3>2
      <3>4. Kept
        BY <3>1, <3>3 DEF Kept, EntryBacked, BackedNext, Entry
      <3>5. BackedCodes'
        <4>1. \A c \in Claims : k \notin mints[c]
          BY <3>1 DEF BackingInv, BackedCodes, Accepted
        <4>2. QED
          BY <2>0, <3>1, <3>2, <4>1 DEF BackingInv, BackedCodes, Accepted
      <3>6. \A c \in Claims : BackedClaim(c)'
        BY <3>1, <3>3, BackedHas DEF BackedClaim
      <3>7. \A p \in Requests : RequestMoves(p)
        <4>1. ASSUME NEW p \in Requests, p # r PROVE RequestMoves(p)
          BY <1>0, <2>2, <4>1 DEF Goto, RequestMoves
        <4>2. /\ req'[r].row = q.row /\ req'[r].claim = q.claim /\ req'[r].found = q.found
          BY <1>0, <2>2 DEF Goto, ReqType
        <4>3. k \in mints'[q.claim]
          BY <2>0, <3>1, <3>2
        <4>4. \A e \in q.found : BackedNext(e)
          BY <1>0, <3>4 DEF BackedRequest, Kept, ReqType
        <4>5. RequestMoves(r)
          BY <4>2, <4>3, <4>4 DEF RequestMoves, Code
        <4>6. QED
          BY <4>1, <4>5
      <3>8. QED
        BY <1>1, <3>1, <3>4, <3>5, <3>6, <3>7, MovesAreBacked DEF BackingInv
    <2>3. QED
      BY <1>9, <2>1, <2>2 DEF Redeem
  <1>10. CASE Mint(r)
    <2>0. Code(r) \in mints[q.claim] /\ q.claim \in Claims /\ Code(r) \in Codes
      BY <1>0, <1>10 DEF Mint, BackedRequest, RequestOK, WorkSteps, CodeSteps, Pledged, Rows, Code
    <2>1. CASE Throw(r) /\ UNCHANGED claims
      <3>1. \A p \in Requests : RequestMoves(p)
        BY <1>0, <2>1 DEF Throw, IdleRequest, RequestMoves
      <3>2. QED
        BY <1>1, <1>10, <2>1, <3>1, QuietSteps DEF Mint, codeVars, history
    <2>2. CASE claims[q.claim].status # "DELETED"
      <3> DEFINE e == [claim |-> q.claim, code |-> Code(r), addr |-> q.addr]
      <3>1. /\ claims'[q.claim].qrHash = Code(r)
            /\ \A c \in Claims : c # q.claim => claims'[c] = claims[c]
            /\ UNCHANGED <<poap, mints, job>>
        BY <1>10, <2>0, <2>2, TypeParts DEF Mint, RestOK, ClaimType, codeVars, history
      <3>2. Code(r) # NoCode
        BY <2>0, CodesAssumption
      <3>3. Kept
        BY <3>1, <3>2 DEF Kept, EntryBacked, BackedNext, Entry
      <3>4. BackedCodes' /\ \A c \in Claims : BackedClaim(c)'
        BY <2>0, <3>1, <3>2 DEF BackingInv, BackedCodes, BackedClaim
      <3>5. \A p \in Requests : RequestMoves(p)
        <4>1. ASSUME NEW p \in Requests, p # r PROVE RequestMoves(p)
          BY <1>0, <1>10, <2>2, <4>1 DEF Mint, RequestMoves
        <4>2. req'[r].at = "next" /\ req'[r].found = q.found \cup {e}
          BY <1>0, <1>10, <2>2 DEF Mint, ReqType
        <4>3. \A f \in q.found : BackedNext(f)
          BY <1>0, <3>3 DEF BackedRequest, Kept, ReqType
        <4>4. BackedNext(e)
          BY <2>0, <3>1, <3>2 DEF BackedNext
        <4>5. RequestMoves(r)
          BY <4>2, <4>3, <4>4 DEF RequestMoves
        <4>6. QED
          BY <4>1, <4>5
      <3>6. QED
        BY <1>1, <3>1, <3>3, <3>4, <3>5, MovesAreBacked DEF BackingInv
    <2>3. QED
      BY <1>10, <2>1, <2>2 DEF Mint
  <1>11. QED
    BY <1>2, <1>3, <1>4, <1>5, <1>6, <1>7, <1>8, <1>9, <1>10 DEF RequestStep

LEMMA BackingJobs ==
    ASSUME TypeInv, TypeInv', BackingInv, NEW j \in Jobs, JobStep(j)
    PROVE  BackingInv'
  <1> DEFINE g == job[j]
  <1>0. /\ job \in [Jobs -> JobType] /\ g \in JobType /\ JobOK(g) /\ BackedJob(j)
        /\ \A e \in g.entries : EntryBacked(e)
        /\ g.at \in {"lookup", "finish"} => EntryBacked(g.cur)
    BY BackedHas, TypeParts DEF JobsOK, BackedJob, Tracked
  <1>1. UNCHANGED req => \A r \in Requests : RequestMoves(r)
    BY DEF RequestMoves
  <1>2. ASSUME NEW i \in Jobs, i # j PROVE JobMovesOn(i)
    BY <1>0, <1>2 DEF JobStep, Scan, Watch, Reset, Restock, Lookup, Finish, Drop, JobThrows,
                      JobMovesOn
  <1>3. CASE Scan(j)
    <2> DEFINE minting == {c \in Claims : claims[c].status = "MINTING"}
               entries == {[claim |-> c, code |-> claims[c].qrHash,
                            addr |-> claims[c].mintedAddress] : c \in minting}
    <2>1. \A e \in entries : EntryBacked(e)
      BY BackedHas DEF EntryBacked, BackedClaim
    <2>2. job'[j].entries = entries /\ job'[j].at \in {"off", "watch"}
      BY <1>0, <1>3 DEF Scan, JobType
    <2> HIDE DEF entries
    <2>3. JobMovesOn(j)
      BY <2>1, <2>2 DEF JobMovesOn
    <2>4. QED
      BY <1>1, <1>2, <1>3, <2>3, QuietSteps DEF Scan, codeVars
  <1>4. CASE Watch(j)
    <2>1. \A e \in g.entries : e.code \in Codes => poap[e.code] # "free"
      <3>1. g.entries \subseteq Entry
        BY <1>0 DEF JobType
      <3>2. QED
        BY <1>0, <3>1 DEF EntryBacked, BackingInv, BackedCodes, Entry, Accepted
    <2>2. /\ job'[j].entries \subseteq g.entries
          /\ \/ job'[j].at \in {"off", "watch"}
             \/ job'[j].at = "lookup" /\ job'[j].cur \in g.entries
      <3>1. PICK e \in g.entries :
               \/ job' = [job EXCEPT ![j].entries = @ \ {e},
                                     ![j].at = IF g.entries = {e} THEN "off" ELSE "watch"]
               \/ job' = [job EXCEPT ![j].at = "lookup", ![j].cur = e]
               \/ e.code # NoCode /\ poap[e.code] = "free"
               \/ JobThrows(j)
        BY <1>4 DEF Watch
      <3>2. e \in Entry
        BY <1>0 DEF JobType
      <3>3. ~(e.code # NoCode /\ poap[e.code] = "free")
        BY <2>1, <3>2 DEF Entry
      <3>4. CASE job' = [job EXCEPT ![j].entries = @ \ {e},
                                    ![j].at = IF g.entries = {e} THEN "off" ELSE "watch"]
        BY <1>0, <3>4 DEF JobType
      <3>5. CASE job' = [job EXCEPT ![j].at = "lookup", ![j].cur = e]
        BY <1>0, <3>5 DEF JobType
      <3>6. CASE JobThrows(j)
        BY <1>0, <3>6 DEF JobThrows, IdleJob
      <3>7. QED
        BY <3>1, <3>3, <3>4, <3>5, <3>6
    <2>3. JobMovesOn(j)
      BY <1>0, <2>2 DEF JobMovesOn
    <2>4. QED
      BY <1>1, <1>2, <1>4, <2>3, QuietSteps DEF Watch, codeVars, history
  <1>5. CASE Reset(j) \/ Restock(j)
    BY <1>0, <1>5 DEF Reset, Restock, BackedJob
  <1>6. CASE Lookup(j)
    <2>1. \/ job'[j].entries = g.entries /\ (\/ job'[j].at = "watch"
                                             \/ job'[j].at = "finish" /\ job'[j].cur = g.cur)
          \/ job'[j].entries = {} /\ job'[j].at = "off"
      <3>1. CASE JobThrows(j)
        BY <1>0, <3>1 DEF JobThrows, IdleJob
      <3>2. CASE ~JobThrows(j)
        BY <1>0, <1>6, <3>2 DEF Lookup, JobType
      <3>3. QED
        BY <3>1, <3>2
    <2>2. JobMovesOn(j)
      BY <1>0, <1>6, <2>1 DEF Lookup, JobMovesOn
    <2>3. QED
      BY <1>1, <1>2, <1>6, <2>2, QuietSteps DEF Lookup, codeVars, history
  <1>7. CASE Finish(j)
    <2> DEFINE c == g.cur.claim
    <2>1. JobMovesOn(j)
      <3>1. job'[j].entries \subseteq g.entries /\ job'[j].at \in {"off", "watch"}
        <4>1. CASE Drop(j)
          BY <1>0, <4>1 DEF Drop, IdleJob
        <4>2. CASE JobThrows(j)
          BY <1>0, <4>2 DEF JobThrows, IdleJob
        <4>3. QED
          BY <1>7, <4>1, <4>2 DEF Finish
      <3>2. QED
        BY <1>0, <3>1 DEF JobMovesOn
    <2>2. CASE UNCHANGED claims
      BY <1>1, <1>2, <1>7, <2>1, <2>2, QuietSteps DEF Finish, codeVars, history
    <2>3. CASE /\ claims[c].status # "DELETED"
               /\ claims' = [claims EXCEPT ![c].status = "CLAIMED", ![c].poapTokenId = g.token]
      <3>1. claims[c].qrHash # NoCode
        BY <1>0, <1>7, <2>3 DEF Finish, EntryBacked
      <3>2. \A d \in Claims : /\ claims'[d].qrHash = claims[d].qrHash
                              /\ d # c => claims'[d].status = claims[d].status
        BY <2>3, TypeParts DEF RestOK, ClaimType
      <3>3. UNCHANGED <<poap, mints, req>>
        BY <1>7 DEF Finish, codeVars, history
      <3>4. Kept
        <4>1. ASSUME NEW e \in Entry, EntryBacked(e) PROVE BackedNext(e)
          BY <3>1, <3>2, <3>3, <4>1 DEF EntryBacked, BackedNext, Entry
        <4>2. QED
          BY <3>3, <4>1 DEF Kept
      <3>5. BackedCodes' /\ \A d \in Claims : BackedClaim(d)'
        BY <3>1, <3>2, <3>3 DEF BackingInv, BackedCodes, BackedClaim
      <3>6. QED
        BY <1>1, <1>2, <2>1, <3>3, <3>4, <3>5, MovesAreBacked DEF BackingInv
    <2>4. QED
      BY <1>7, <2>2, <2>3 DEF Finish
  <1>8. QED
    BY <1>3, <1>4, <1>5, <1>6, <1>7 DEF JobStep

LEMMA BackingEnvironment ==
    ASSUME TypeInv, TypeInv', BackingInv,
           \/ \E d \in Staff : CheckDeletable(d) \/ DeleteClaim(d)
           \/ \E k \in Codes : POAPStep(k)
           \/ \E s \in Servers : Crash(s) \/ Boot(s)
           \/ UNCHANGED vars
    PROVE  BackingInv'
  <1>1. UNCHANGED req => \A r \in Requests : RequestMoves(r)
    BY DEF RequestMoves
  <1>2. UNCHANGED job => \A j \in Jobs : JobMovesOn(j)
    BY DEF JobMovesOn
  <1>3. CASE \E d \in Staff : CheckDeletable(d)
    BY <1>1, <1>2, <1>3, QuietSteps DEF CheckDeletable, codeVars
  <1>4. CASE \E d \in Staff : DeleteClaim(d)
    <2>1. PICK d \in Staff : DeleteClaim(d)
      BY <1>4
    <2>2. /\ \A c \in Claims : \/ claims'[c] = claims[c]
                               \/ claims'[c].status = "DELETED" /\ claims'[c].qrHash = NoCode
          /\ UNCHANGED <<poap, mints, req, job>>
      BY <2>1, TypeParts DEF DeleteClaim, RestOK, NewClaim, codeVars, history
    <2>3. Kept
      BY <2>2 DEF Kept, EntryBacked, BackedNext, Entry
    <2>4. BackedCodes' /\ \A c \in Claims : BackedClaim(c)'
      BY <2>2 DEF BackingInv, BackedCodes, BackedClaim
    <2>5. QED
      BY <1>1, <1>2, <2>2, <2>3, <2>4, MovesAreBacked DEF BackingInv
  <1>5. CASE \E k \in Codes : POAPStep(k)
    <2>1. \A k \in Codes : poap[k] \in Accepted => poap'[k] \in Accepted
      BY <1>5, TypeParts DEF POAPStep, POAPIssue, Accepted, CodesTypeOK
    <2>2. QED
      BY <1>1, <1>2, <1>5, <2>1, QuietSteps DEF POAPStep, history
  <1>6. CASE \E s \in Servers : Crash(s)
    <2>1. \A r \in Requests : RequestMoves(r)
      BY <1>6 DEF Crash, RequestMoves, IdleRequest
    <2>2. \A j \in Jobs : JobMovesOn(j)
      BY <1>6 DEF Crash, JobMovesOn, IdleJob
    <2>3. QED
      BY <1>6, <2>1, <2>2, QuietSteps DEF Crash, history
  <1>7. CASE \E s \in Servers : Boot(s)
    <2>1. PICK s \in Servers : Boot(s)
      BY <1>7
    <2>2. \A j \in Jobs : \/ job'[j] = job[j]
                          \/ job'[j].at = "scan" /\ job'[j].entries = job[j].entries
      BY <2>1, TypeParts DEF Boot, JobsOK, JobType
    <2>3. \A j \in Jobs : \A e \in job[j].entries : EntryBacked(e)
      BY BackedHas DEF BackedJob, Tracked
    <2>4. \A j \in Jobs : JobMovesOn(j)
      BY <2>2, <2>3 DEF JobMovesOn
    <2>5. QED
      BY <1>1, <2>1, <2>4, QuietSteps DEF Boot, codeVars, history
  <1>8. CASE UNCHANGED vars
    BY <1>1, <1>2, <1>8, QuietSteps DEF vars, codeVars, history
  <1>9. QED
    BY <1>3, <1>4, <1>5, <1>6, <1>7, <1>8

LEMMA BackingStart == Init => BackingInv
  BY DEF Init, BackingInv, BackedCodes, BackedClaim, BackedRequest, BackedJob, Tracked, NewClaim,
         IdleRequest, IdleJob

LEMMA BackingStep == TypeInv /\ BackingInv /\ [Next]_vars => BackingInv'
  <1>1. [Next]_vars => [ForgetfulNext]_vars
    BY DEF ForgetfulNext
  <1>2. QED
    BY <1>1, TypeStep, BackingRequests, BackingJobs, BackingEnvironment DEF Next

\* The code a claim carries, and every code that a loop follows, was accepted for that
\* claim and for no other: the invariant behind the next two theorems.
THEOREM BackingHolds == Spec => [](TypeInv /\ BackingInv)
  <1>1. Init => TypeInv /\ BackingInv
    BY TypeStart, BackingStart
  <1>2. [Next]_vars => [ForgetfulNext]_vars
    BY DEF ForgetfulNext
  <1>3. TypeInv /\ BackingInv /\ [Next]_vars => (TypeInv /\ BackingInv)'
    BY <1>2, TypeStep, BackingStep
  <1>4. QED
    BY <1>1, <1>3, PTL DEF Spec

\* A MINTING or CLAIMED claim carries a code that POAP accepted for that claim,
\* whatever the interleaving of requests, loops, deletions and restarts.
THEOREM MintingBacked == Spec => []MintingIsBacked
  <1>1. BackingInv => MintingIsBacked
    BY DEF BackingInv, BackedClaim, MintingIsBacked
  <1>2. QED
    BY <1>1, BackingHolds, PTL

\* No two claims of the GitPOAP ever carry the same redeem code.
THEOREM CodesAreNotShared == Spec => []CodeMintsOneClaim
  <1>1. BackingInv => CodeMintsOneClaim
    BY DEF BackingInv, BackedCodes, BackedClaim, CodeMintsOneClaim
  <1>2. QED
    BY <1>1, BackingHolds, PTL

-----------------------------------------------------------------------------
(* SingleMint, from WorkInv.                                               *)

\* A request that moves without starting on a claim, redeeming a code or minting.
NormalMove(r) ==
    /\ \A p \in Requests \ {r} : req'[p] = req[p]
    /\ req'[r].found \subseteq req[r].found
    /\ req'[r].at \in WorkSteps =>
          /\ req[r].at \in WorkSteps /\ req[r].at # "mint" /\ req'[r].at # "mint"
          /\ req'[r].claim = req[r].claim /\ req'[r].addr = req[r].addr
          /\ req'[r].at \in Pledged <=> req[r].at \in Pledged

\* What a step keeps of a claim's workers, deleters and followers: it adds none.
ReqKeeps(c) ==
    \A r \in Requests : Working(r, c)' =>
        /\ Working(r, c)
        /\ req'[r].at \in Pledged <=> req[r].at \in Pledged
        /\ req'[r].at = "mint" <=> req[r].at = "mint"
StaffKeeps(c) == \A d \in Staff : staff'[d] = c => staff[d] = c
FollowKeeps(c) == Followed(c)' => Followed(c)

LEMMA WorkFrame ==
    ASSUME NEW c \in Claims, WorkOn(c), ReqKeeps(c), StaffKeeps(c), FollowKeeps(c),
           claims'[c].status = claims[c].status, mints'[c] = mints[c], lost \subseteq lost'
    PROVE  WorkOn(c)'
  <1>1. OneWorker(c)'
    BY DEF WorkOn, OneWorker, ReqKeeps
  <1>2. ClaimOK(c)'
    BY DEF WorkOn, ClaimOK, FollowKeeps
  <1>3. \A r \in Requests : WorkerOK(r, c)'
    BY DEF WorkOn, WorkerOK, ReqKeeps
  <1>4. \A d \in Staff : DeleterOK(d, c)'
    BY DEF WorkOn, DeleterOK, ReqKeeps, StaffKeeps
  <1>5. QED
    BY <1>1, <1>2, <1>3, <1>4 DEF WorkOn

LEMMA NormalKeeps ==
    ASSUME NEW r \in Requests, NormalMove(r)
    PROVE  /\ \A c \in Claims : ReqKeeps(c)
           /\ \A p \in Requests : req'[p].at = "mint" => req'[p] = req[p]
  BY DEF NormalMove, ReqKeeps, Working, WorkSteps

LEMMA FollowersKept ==
    ASSUME \A r \in Requests : req'[r].found \subseteq req[r].found,
           \A j \in Jobs : Tracked(j)' \subseteq Tracked(j)
    PROVE  \A c \in Claims : FollowKeeps(c)
  BY DEF FollowKeeps, Followed, Follows, Found

LEMMA NormalWork ==
    ASSUME WorkInv, NEW r \in Requests, NormalMove(r),
           UNCHANGED <<claims, mints, lost, racy, staff, job>>
    PROVE  WorkInv'
  <1>1. \A p \in Requests : req'[p].found \subseteq req[p].found
    BY DEF NormalMove
  <1>2. \A j \in Jobs : Tracked(j)' \subseteq Tracked(j)
    BY DEF Tracked
  <1>3. ASSUME NEW c \in Claims \ racy' PROVE WorkOn(c)'
    BY <1>1, <1>2, <1>3, WorkFrame, NormalKeeps, FollowersKept DEF WorkInv, StaffKeeps
  <1>4. QED
    BY <1>3 DEF WorkInv

\* Most of a request's steps are of this kind.
Writes(r) == ReadClaim(r) \/ Redeem(r) \/ Mint(r) \/ Pend(r) \/ Unpend(r) \/ Respond(r)

LEMMA StopIsNormal ==
    ASSUME TypeInv, NEW r \in Requests, SkipClaim(r) \/ Throw(r)
    PROVE  NormalMove(r)
  <1>1. req \in [Requests -> ReqType] /\ req[r] \in ReqType
    BY ReqHas DEF ReqsOK
  <1>2. CASE SkipClaim(r)
    BY <1>1, <1>2 DEF SkipClaim, NormalMove, WorkSteps, ReqType
  <1>3. CASE Throw(r)
    BY <1>1, <1>3 DEF Throw, IdleRequest, NormalMove, WorkSteps
  <1>4. QED
    BY <1>2, <1>3

LEMMA GotoIsNormal ==
    ASSUME TypeInv, NEW r \in Requests, NEW step,
           req[r].at \in WorkSteps, req[r].at # "mint", step # "mint",
           step \in Pledged <=> req[r].at \in Pledged, Goto(r, step)
    PROVE  NormalMove(r)
  <1>1. req \in [Requests -> ReqType] /\ req[r] \in ReqType
    BY ReqHas DEF ReqsOK
  <1>2. QED
    BY <1>1 DEF Goto, NormalMove, ReqType

LEMMA RowIsNormal ==
    ASSUME TypeInv, NEW r \in Requests, req[r].at \in WorkSteps \ Pledged,
           NEW x, NEW step \in {"verify", "check", "take"},
           req' = [req EXCEPT ![r].at = step, ![r].row = x]
    PROVE  NormalMove(r)
  <1>1. req \in [Requests -> ReqType] /\ req[r] \in ReqType
    BY ReqHas DEF ReqsOK
  <1>2. QED
    BY <1>1 DEF NormalMove, ReqType, WorkSteps, Pledged

LEMMA UsualIsNormal ==
    ASSUME TypeInv, NEW r \in Requests, Submit(r) \/ RequestStep(r), ~Writes(r)
    PROVE  /\ NormalMove(r)
           /\ UNCHANGED <<claims, mints, lost, racy, shared, staff, job, poapOwner>>
  <1> USE DEF WorkSteps, Pledged
  <1>1. req \in [Requests -> ReqType]
    BY ReqHas DEF ReqsOK
  <1>2. CASE Submit(r)
    <2>1. req'[r].at = "next" /\ req'[r].found = {} /\ \A p \in Requests \ {r} : req'[p] = req[p]
      BY <1>1, <1>2 DEF Submit, IdleRequest
    <2>2. QED
      BY <1>2, <2>1 DEF Submit, NormalMove, history
  <1>3. CASE CheckCodes(r)
    <2>1. req' = req /\ req[r].at = "check"
      BY <1>3 DEF CheckCodes
    <2>2. QED
      BY <1>3, <2>1 DEF CheckCodes, NormalMove, history
  <1>4. CASE Choose(r)
    <2>1. CASE Goto(r, "check")
      BY <1>4, <2>1, GotoIsNormal DEF Choose, history
    <2>2. CASE \E k \in redeemCodes : req' = [req EXCEPT ![r].at = "verify", ![r].row = Row(k)]
      BY <1>4, <2>2, RowIsNormal DEF Choose, history
    <2>3. QED
      BY <1>4, <2>1, <2>2 DEF Choose
  <1>5. CASE Verify(r)
    BY <1>5, GotoIsNormal, StopIsNormal DEF Verify, history
  <1>6. CASE Discard(r)
    BY <1>6, RowIsNormal DEF Discard, history
  <1>7. CASE CheckEnds(r)
    BY <1>7, GotoIsNormal, StopIsNormal DEF CheckEnds, history
  <1>8. CASE Rechoose(r)
    <2>1. CASE SkipClaim(r)
      BY <1>8, <2>1, StopIsNormal DEF Rechoose, history
    <2>2. CASE \E k \in redeemCodes : req' = [req EXCEPT ![r].at = "take", ![r].row = Row(k)]
      BY <1>8, <2>2, RowIsNormal DEF Rechoose, history
    <2>3. QED
      BY <1>8, <2>1, <2>2 DEF Rechoose
  <1>9. CASE Take(r)
    BY <1>9, GotoIsNormal, StopIsNormal DEF Take, history
  <1>10. CASE Restore(r)
    BY <1>10, GotoIsNormal DEF Restore, history
  <1>11. CASE FetchSecret(r)
    BY <1>11, GotoIsNormal, StopIsNormal DEF FetchSecret, history
  <1>12. QED
    BY <1>2, <1>3, <1>4, <1>5, <1>6, <1>7, <1>8, <1>9, <1>10, <1>11 DEF RequestStep, Writes

\* The claims that a request is not working on.
LEMMA WorkElsewhere ==
    ASSUME WorkInv, NEW r \in Requests, NEW c \in Claims \ racy, FollowKeeps(c),
           \A p \in Requests \ {r} : req'[p] = req[p],
           req'[r].at \in WorkSteps => req'[r].claim # c,
           claims'[c].status = claims[c].status, mints'[c] = mints[c], lost \subseteq lost',
           UNCHANGED staff
    PROVE  WorkOn(c)'
  <1>1. ReqKeeps(c) /\ StaffKeeps(c)
    BY DEF ReqKeeps, StaffKeeps, Working
  <1>2. QED
    BY <1>1, WorkFrame DEF WorkInv

\* Who works on a claim that is not racy has it alone.
LEMMA WorkerAlone ==
    ASSUME WorkInv, NEW r \in Requests, NEW c \in Claims \ racy, Working(r, c)
    PROVE  /\ \A p \in Requests : Working(p, c) => p = r
           /\ \A d \in Staff : staff[d] # c
           /\ claims[c].status = IF req[r].at \in Pledged THEN "PENDING" ELSE "UNCLAIMED"
           /\ req[r].at # "mint" => mints[c] \subseteq lost
           /\ ~Followed(c)
  BY DEF WorkInv, WorkOn, OneWorker, WorkerOK, DeleterOK, ClaimOK

LEMMA WorkReadClaim ==
    ASSUME TypeInv, WorkInv, NEW r \in Requests, ReadClaim(r) PROVE WorkInv'
  <1>0. req \in [Requests -> ReqType] /\ req[r] \in ReqType
    BY ReqHas DEF ReqsOK
  <1>a. PICK c \in Claims : c = Head(req[r].todo)
    BY <1>0 DEF ReadClaim, ReqType, Lists
  <1>1. CASE SkipClaim(r) /\ UNCHANGED racy
    BY <1>1, StopIsNormal, NormalWork DEF ReadClaim
  <1>2. CASE /\ claims[c].status = "UNCLAIMED"
             /\ req' = [req EXCEPT ![r].at = "choose", ![r].claim = c]
             /\ racy' = IF Busy(c) THEN racy \cup {c} ELSE racy
    <2>1. /\ \A p \in Requests \ {r} : req'[p] = req[p]
          /\ req'[r].at = "choose" /\ req'[r].claim = c /\ req'[r].found = req[r].found
          /\ UNCHANGED <<claims, mints, lost, staff, job>>
      BY <1>0, <1>2 DEF ReadClaim, ReqType
    <2>2. \A d \in Claims : FollowKeeps(d)
      <3>1. \A j \in Jobs : Tracked(j)' \subseteq Tracked(j)
        BY <2>1 DEF Tracked
      <3>2. QED
        BY <2>1, <3>1, FollowersKept
    <2>3. ASSUME NEW d \in Claims \ racy' PROVE WorkOn(d)'
      <3>1. d \notin racy
        BY <1>2, <2>3
      <3>2. CASE d # c
        BY <2>1, <2>2, <3>1, <3>2, WorkElsewhere
      <3>3. CASE d = c
        <4>1. ~Busy(c)
          BY <1>2, <2>3, <3>3
        <4>2. \A p \in Requests : Working(p, c)' => p = r
          BY <2>1, <4>1 DEF Working, Busy
        <4>3. mints[c] \subseteq lost /\ ~Followed(c)
          BY <1>2, <3>1, <3>3 DEF WorkInv, WorkOn, ClaimOK
        <4>4. OneWorker(c)' /\ \A e \in Staff : DeleterOK(e, c)'
          BY <2>1, <4>1, <4>2 DEF OneWorker, DeleterOK, Busy
        <4>5. \A p \in Requests : WorkerOK(p, c)'
          BY <1>2, <2>1, <4>2, <4>3 DEF WorkerOK, Pledged
        <4>6. ClaimOK(c)'
          BY <1>2, <2>1, <2>2, <3>3, <4>3 DEF ClaimOK, FollowKeeps
        <4>7. QED
          BY <3>3, <4>4, <4>5, <4>6 DEF WorkOn
      <3>4. QED
        BY <3>2, <3>3
    <2>4. QED
      BY <2>3 DEF WorkInv
  <1>3. QED
    BY <1>a, <1>1, <1>2 DEF ReadClaim

LEMMA WorkWrites ==
    ASSUME TypeInv, WorkInv, NEW r \in Requests, Pend(r) \/ Unpend(r) \/ Redeem(r) \/ Mint(r)
    PROVE  WorkInv'
  <1> USE DEF WorkSteps, Pledged
  <1> DEFINE q == req[r]
  <1>0. /\ req \in [Requests -> ReqType] /\ q \in ReqType /\ RequestOK(q)
        /\ claims \in [Claims -> ClaimType] /\ mints \in [Claims -> SUBSET Codes]
    BY ReqHas, TypeParts DEF ReqsOK, RestOK
  <1>1. PICK c \in Claims : c = q.claim /\ Working(r, c)
    BY <1>0 DEF Pend, Unpend, Redeem, Mint, Working, RequestOK
  <1>2. CASE Throw(r) /\ UNCHANGED <<claims, mints, lost, racy, staff, job>>
    BY <1>2, StopIsNormal, NormalWork
  <1>3. /\ \A p \in Requests \ {r} : req'[p] = req[p]
        /\ UNCHANGED <<racy, staff, job>> /\ lost \subseteq lost'
    BY <1>0 DEF Pend, Unpend, Redeem, Mint, Goto, SkipClaim, Throw, history
  <1>4. \A j \in Jobs : Tracked(j)' = Tracked(j)
    BY <1>3 DEF Tracked
  <1>5. ASSUME NEW d \in Claims \ racy, d # c, claims'[d].status = claims[d].status,
               mints'[d] = mints[d], req'[r].at \in WorkSteps => req'[r].claim = c,
               \A e \in req'[r].found : e \in q.found \/ e.claim = c
        PROVE  WorkOn(d)'
    <2>1. FollowKeeps(d)
      BY <1>3, <1>4, <1>5 DEF FollowKeeps, Followed, Follows, Found
    <2>2. QED
      BY <1>3, <1>5, <2>1, WorkElsewhere
  <1>6. ASSUME c \notin racy
        PROVE  \A p \in Requests \ {r} : ~Working(p, c)'
    BY <1>1, <1>3, <1>6, WorkerAlone DEF Working
  <1>7. ASSUME c \notin racy,
               Working(r, c)' => /\ claims'[c].status = IF req'[r].at \in Pledged THEN "PENDING"
                                                                                ELSE "UNCLAIMED"
                                 /\ req'[r].at # "mint" => mints'[c] \subseteq lost',
               ClaimOK(c)'
        PROVE  WorkOn(c)'
    <2>1. OneWorker(c)' /\ \A p \in Requests : WorkerOK(p, c)'
      BY <1>6, <1>7 DEF OneWorker, WorkerOK
    <2>2. \A d \in Staff : DeleterOK(d, c)'
      BY <1>1, <1>3, <1>7, WorkerAlone DEF DeleterOK
    <2>3. QED
      BY <1>7, <2>1, <2>2 DEF WorkOn
  <1>8. CASE Pend(r) /\ ~Throw(r)
    <2>1. /\ claims'[c].status = "PENDING" /\ req'[r].at = "redeem"
          /\ req'[r].claim = c /\ req'[r].found = q.found
          /\ \A d \in Claims : d # c => claims'[d] = claims[d]
          /\ UNCHANGED <<mints, lost>> /\ q.at = "pend"
      BY <1>0, <1>1, <1>8 DEF Pend, Goto, ReqType, ClaimType, history
    <2>2. ASSUME c \notin racy PROVE WorkOn(c)'
      <3>1. mints[c] \subseteq lost
        BY <1>1, <2>1, <2>2, WorkerAlone
      <3>2. ~Followed(c)'
        BY <1>1, <1>3, <1>4, <2>1, <2>2, WorkerAlone DEF Followed, Follows, Found
      <3>3. ClaimOK(c)'
        BY <2>1, <3>1, <3>2 DEF ClaimOK
      <3>4. QED
        BY <1>7, <2>1, <2>2, <3>1, <3>3
    <2>3. QED
      BY <1>3, <1>5, <2>1, <2>2 DEF WorkInv
  <1>9. CASE Unpend(r) /\ ~Throw(r)
    <2>1. /\ claims'[c].status = "UNCLAIMED" /\ req'[r].at = "next" /\ req'[r].found = q.found
          /\ \A d \in Claims : d # c => claims'[d] = claims[d]
          /\ UNCHANGED <<mints, lost>> /\ q.at = "unpend"
      BY <1>0, <1>1, <1>9 DEF Unpend, SkipClaim, ReqType, ClaimType, history
    <2>2. ASSUME c \notin racy PROVE WorkOn(c)'
      <3>1. mints[c] \subseteq lost
        BY <1>1, <2>1, <2>2, WorkerAlone
      <3>2. ~Followed(c)'
        BY <1>1, <1>3, <1>4, <2>1, <2>2, WorkerAlone DEF Followed, Follows, Found
      <3>3. ClaimOK(c)'
        BY <2>1, <3>1, <3>2 DEF ClaimOK
      <3>4. QED
        BY <1>7, <2>1, <2>2, <3>3 DEF Working
    <2>3. QED
      BY <1>3, <1>5, <2>1, <2>2 DEF WorkInv
  <1>10. CASE Redeem(r) /\ ~Throw(r)
    <2> DEFINE k == Code(r)
    <2>1. /\ req'[r].at \in {"mint", "restore"} /\ req'[r].claim = c /\ req'[r].found = q.found
          /\ UNCHANGED claims /\ q.at = "post"
          /\ \A d \in Claims : d # c => mints'[d] = mints[d]
          /\ mints'[c] \subseteq mints[c] \cup {k}
          /\ req'[r].at # "mint" => mints'[c] \subseteq mints[c] \cup lost'
      BY <1>0, <1>1, <1>10 DEF Redeem, Accept, Goto, ReqType
    <2>2. ASSUME c \notin racy PROVE WorkOn(c)'
      <3>1. mints[c] \subseteq lost /\ claims[c].status = "PENDING"
        BY <1>1, <2>1, <2>2, WorkerAlone
      <3>2. ~Followed(c)'
        BY <1>1, <1>3, <1>4, <2>1, <2>2, WorkerAlone DEF Followed, Follows, Found
      <3>3. \A l, m \in mints'[c] \ lost' : l = m
        BY <1>3, <2>1, <3>1
      <3>4. ClaimOK(c)'
        BY <2>1, <3>1, <3>2, <3>3 DEF ClaimOK
      <3>5. QED
        BY <1>3, <1>7, <2>1, <2>2, <3>1, <3>4
    <2>3. QED
      BY <1>3, <1>5, <2>1, <2>2 DEF WorkInv
  <1>11. CASE Mint(r) /\ ~Throw(r)
    <2>1. /\ claims'[c].status = "MINTING" /\ req'[r].at = "next"
          /\ \A e \in req'[r].found : e \in q.found \/ e.claim = c
          /\ \A d \in Claims : d # c => claims'[d] = claims[d]
          /\ UNCHANGED <<mints, lost>>
      BY <1>0, <1>1, <1>11 DEF Mint, ReqType, ClaimType, history
    <2>2. ASSUME c \notin racy PROVE WorkOn(c)'
      <3>1. ClaimOK(c)'
        BY <2>1, <2>2 DEF ClaimOK, WorkInv, WorkOn
      <3>2. QED
        BY <1>7, <2>1, <2>2, <3>1 DEF Working
    <2>3. QED
      BY <1>3, <1>5, <2>1, <2>2 DEF WorkInv
  <1>12. Throw(r) => UNCHANGED <<claims, mints, lost, racy, staff, job>>
    <2>1. Throw(r) => req'[r].at = "threw"
      BY <1>0 DEF Throw, IdleRequest
    <2>2. QED
      BY <1>0, <2>1 DEF Pend, Unpend, Redeem, Mint, Goto, SkipClaim, history, ReqType
  <1>13. QED
    BY <1>2, <1>8, <1>9, <1>10, <1>11, <1>12

LEMMA WorkRespond ==
    ASSUME TypeInv, WorkInv, NEW r \in Requests, Respond(r) PROVE WorkInv'
  <1>0. /\ req \in [Requests -> ReqType] /\ job \in [Jobs -> JobType] /\ r \in Jobs
    BY TypeParts DEF ReqsOK, JobsOK, Jobs
  <1>1. /\ \A p \in Requests \ {r} : req'[p] = req[p]
        /\ req'[r].at = "done" /\ req'[r].found = {}
        /\ \A j \in Jobs \ {r} : job'[j] = job[j]
        /\ job'[r].entries = req[r].found /\ job'[r].at \in {"off", "watch"}
        /\ UNCHANGED <<claims, mints, lost, racy, staff>>
    BY <1>0 DEF Respond, history, ReqType, JobType
  <1>2. \A j \in Jobs : Tracked(j)' = IF j = r THEN req[r].found ELSE Tracked(j)
    BY <1>1 DEF Tracked
  <1>3. \A c \in Claims : FollowKeeps(c)
    BY <1>1, <1>2 DEF FollowKeeps, Followed, Follows, Found
  <1>4. ASSUME NEW c \in Claims \ racy' PROVE WorkOn(c)'
    <2>1. ReqKeeps(c) /\ StaffKeeps(c)
      BY <1>1 DEF ReqKeeps, StaffKeeps, Working, WorkSteps
    <2>2. QED
      BY <1>1, <1>3, <1>4, <2>1, WorkFrame DEF WorkInv
  <1>5. QED
    BY <1>4 DEF WorkInv

LEMMA WorkRequests ==
    ASSUME TypeInv, WorkInv, NEW r \in Requests, Submit(r) \/ RequestStep(r) PROVE WorkInv'
  BY WorkReadClaim, WorkWrites, WorkRespond, UsualIsNormal, NormalWork DEF Writes

\* A loop writes the claims it follows, which have no worker, and follows minted ones.
LEMMA WorkJobs ==
    ASSUME TypeInv, BackingInv, WorkInv, NEW j \in Jobs, JobStep(j) PROVE WorkInv'
  <1> DEFINE g == job[j]
  <1>0. /\ job \in [Jobs -> JobType] /\ g \in JobType /\ JobOK(g) /\ BackedJob(j)
        /\ claims \in [Claims -> ClaimType]
    BY BackedHas, TypeParts DEF JobsOK, RestOK
  <1>1. /\ \A i \in Jobs \ {j} : job'[i] = job[i]
        /\ UNCHANGED <<req, mints, lost, racy, staff>>
    BY <1>0 DEF JobStep, Scan, Watch, Reset, Restock, Lookup, Finish, Drop, JobThrows, history
  <1>2. \A c \in Claims : ReqKeeps(c) /\ StaffKeeps(c)
    BY <1>1 DEF ReqKeeps, StaffKeeps, Working
  <1>3. \A i \in Jobs \ {j} : Tracked(i)' = Tracked(i)
    BY <1>1 DEF Tracked
  <1>4. ASSUME Tracked(j)' \subseteq Tracked(j) PROVE \A c \in Claims : FollowKeeps(c)
    BY <1>1, <1>3, <1>4, FollowersKept
  <1>5. ASSUME Tracked(j)' \subseteq Tracked(j), UNCHANGED claims PROVE WorkInv'
    BY <1>1, <1>2, <1>4, <1>5, WorkFrame DEF WorkInv
  <1>6. CASE Scan(j)
    <2>1. /\ \A e \in job'[j].entries : e.claim \in Claims => claims[e.claim].status = "MINTING"
          /\ job'[j].at \in {"off", "watch"} /\ UNCHANGED claims
      BY <1>0, <1>6 DEF Scan, JobType
    <2>2. ASSUME NEW c \in Claims \ racy' PROVE WorkOn(c)'
      <3>1. Followed(c)' => claims[c].status = "MINTING" \/ Followed(c)
        BY <1>1, <1>3, <2>1 DEF Followed, Follows, Found, Tracked
      <3>2. ClaimOK(c)'
        BY <1>1, <2>1, <3>1 DEF ClaimOK, WorkInv, WorkOn
      <3>3. /\ OneWorker(c)' /\ \A r \in Requests : WorkerOK(r, c)'
            /\ \A d \in Staff : DeleterOK(d, c)'
        BY <1>1, <2>1 DEF OneWorker, WorkerOK, DeleterOK, Working, WorkInv, WorkOn
      <3>4. QED
        BY <3>2, <3>3 DEF WorkOn
    <2>3. QED
      BY <2>2 DEF WorkInv
  <1>7. CASE Watch(j)
    <2>1. PICK e \in g.entries :
             \/ job' = [job EXCEPT ![j].entries = @ \ {e},
                                   ![j].at = IF g.entries = {e} THEN "off" ELSE "watch"]
             \/ job' = [job EXCEPT ![j].at = "reset", ![j].cur = e]
             \/ job' = [job EXCEPT ![j].at = "lookup", ![j].cur = e]
             \/ JobThrows(j)
      BY <1>7 DEF Watch
    <2>2. \/ job'[j].entries \subseteq g.entries /\ job'[j].at \in {"off", "watch", "reset"}
          \/ job'[j].entries = g.entries /\ job'[j].cur = e
      BY <1>0, <2>1 DEF JobType, JobThrows, IdleJob
    <2>3. Tracked(j)' \subseteq Tracked(j)
      <3>1. g.entries \subseteq Tracked(j)
        BY DEF Tracked
      <3>2. Tracked(j)' \subseteq g.entries
        BY <2>2 DEF Tracked
      <3>3. QED
        BY <3>1, <3>2
    <2>4. QED
      BY <1>5, <1>7, <2>3 DEF Watch
  <1>8. CASE Lookup(j)
    <2>1. \/ job'[j].entries = g.entries /\ (job'[j].at = "watch" \/ job'[j].cur = g.cur)
          \/ job'[j].entries = {} /\ job'[j].at = "off"
      <3>1. CASE JobThrows(j)
        BY <1>0, <3>1 DEF JobThrows, IdleJob
      <3>2. CASE ~JobThrows(j)
        BY <1>0, <1>8, <3>2 DEF Lookup, JobType
      <3>3. QED
        BY <3>1, <3>2
    <2>2. Tracked(j)' \subseteq Tracked(j)
      BY <1>8, <2>1 DEF Tracked, Lookup
    <2>3. QED
      BY <1>5, <1>8, <2>2 DEF Lookup
  <1>9. CASE Finish(j)
    <2>1. job'[j].entries \subseteq g.entries /\ job'[j].at \in {"off", "watch"}
      <3>1. CASE Drop(j)
        BY <1>0, <3>1 DEF Drop, IdleJob
      <3>2. CASE JobThrows(j)
        BY <1>0, <3>2 DEF JobThrows, IdleJob
      <3>3. QED
        BY <1>9, <3>1, <3>2 DEF Finish
    <2>2. Tracked(j)' \subseteq Tracked(j)
      <3>1. g.entries \subseteq Tracked(j)
        BY DEF Tracked
      <3>2. Tracked(j)' = job'[j].entries
        BY <2>1 DEF Tracked
      <3>3. QED
        BY <2>1, <3>1, <3>2
    <2>3. PICK c \in Claims : c = g.cur.claim
      BY <1>0, <1>9 DEF Finish, JobOK
    <2>4. Followed(c)
      BY <1>9, <2>3 DEF Followed, Follows, Tracked, Finish
    <2>5. CASE UNCHANGED claims
      BY <1>5, <2>2, <2>5
    <2>6. CASE claims' = [claims EXCEPT ![c].status = "CLAIMED", ![c].poapTokenId = g.token]
      <3>1. /\ claims'[c].status = "CLAIMED"
            /\ \A d \in Claims : d # c => claims'[d] = claims[d]
        BY <1>0, <2>6 DEF ClaimType
      <3>2. ASSUME NEW d \in Claims \ racy', d # c PROVE WorkOn(d)'
        BY <1>1, <1>2, <1>4, <2>2, <3>1, <3>2, WorkFrame DEF WorkInv
      <3>3. ASSUME c \notin racy' PROVE WorkOn(c)'
        <4>1. WorkOn(c) /\ claims[c].status \in {"MINTING", "CLAIMED"}
          BY <1>1, <2>4, <3>3 DEF WorkInv, WorkOn, ClaimOK
        <4>2. (\A r \in Requests : ~Working(r, c)) /\ \A d \in Staff : staff[d] # c
          BY <4>1 DEF WorkOn, WorkerOK, DeleterOK
        <4>3. /\ OneWorker(c)' /\ \A r \in Requests : WorkerOK(r, c)'
              /\ \A d \in Staff : DeleterOK(d, c)'
          BY <1>1, <4>2 DEF OneWorker, WorkerOK, DeleterOK, Working
        <4>4. ClaimOK(c)'
          BY <1>1, <3>1, <4>1 DEF ClaimOK, WorkOn
        <4>5. QED
          BY <4>3, <4>4 DEF WorkOn
      <3>4. QED
        BY <3>2, <3>3 DEF WorkInv
    <2>7. QED
      BY <1>9, <2>3, <2>5, <2>6 DEF Finish
  <1>10. CASE Reset(j) \/ Restock(j)
    BY <1>0, <1>10 DEF Reset, Restock, BackedJob
  <1>11. QED
    BY <1>6, <1>7, <1>8, <1>9, <1>10 DEF JobStep

LEMMA WorkEnvironment ==
    ASSUME TypeInv, WorkInv,
           \/ \E d \in Staff : CheckDeletable(d) \/ DeleteClaim(d)
           \/ \E k \in Codes : POAPStep(k)
           \/ \E s \in Servers : Crash(s) \/ Boot(s)
           \/ UNCHANGED vars
    PROVE  WorkInv'
  <1>1. ASSUME UNCHANGED <<claims, mints, lost, racy, staff>>,
               \A r \in Requests : \/ req'[r] = req[r]
                                   \/ req'[r].at = "dead" /\ req'[r].found = {},
               \A j \in Jobs : Tracked(j)' \subseteq Tracked(j)
        PROVE  WorkInv'
    <2>1. \A r \in Requests : req'[r].found \subseteq req[r].found
      BY <1>1
    <2>2. \A c \in Claims : FollowKeeps(c)
      BY <1>1, <2>1, FollowersKept
    <2>3. \A c \in Claims : ReqKeeps(c) /\ StaffKeeps(c)
      BY <1>1 DEF ReqKeeps, StaffKeeps, Working, WorkSteps
    <2>4. QED
      BY <1>1, <2>2, <2>3, WorkFrame DEF WorkInv
  <1>2. UNCHANGED job => \A j \in Jobs : Tracked(j)' \subseteq Tracked(j)
    BY DEF Tracked
  <1>3. UNCHANGED <<req, job>> => \A c \in Claims : FollowKeeps(c) /\ ReqKeeps(c)
    BY DEF FollowKeeps, ReqKeeps, Followed, Follows, Found, Tracked, Working
  <1>4. CASE \E d \in Staff : CheckDeletable(d)
    <2>1. PICK d \in Staff : CheckDeletable(d)
      BY <1>4
    <2>2. PICK c \in Claims : /\ claims[c].status = "UNCLAIMED"
                              /\ staff' = [staff EXCEPT ![d] = c]
                              /\ racy' = IF Busy(c) THEN racy \cup {c} ELSE racy
      BY <2>1 DEF CheckDeletable
    <2>3. UNCHANGED <<claims, mints, lost, req, job>>
      BY <2>1 DEF CheckDeletable
    <2>4. ASSUME NEW b \in Claims \ racy', b # c PROVE WorkOn(b)'
      <3>1. StaffKeeps(b) /\ b \notin racy
        BY <2>2, <2>4, TypeParts DEF StaffKeeps, RestOK
      <3>2. QED
        BY <1>3, <2>3, <3>1, WorkFrame DEF WorkInv
    <2>5. ASSUME c \notin racy' PROVE WorkOn(c)'
      <3>1. c \notin racy /\ ~Busy(c)
        BY <2>2, <2>5
      <3>2. \A r \in Requests : ~Working(r, c)
        BY <3>1 DEF Busy, Working
      <3>3. /\ OneWorker(c)' /\ \A r \in Requests : WorkerOK(r, c)'
            /\ \A e \in Staff : DeleterOK(e, c)'
        BY <2>2, <2>3, <3>2 DEF OneWorker, WorkerOK, DeleterOK, Working
      <3>4. ClaimOK(c)'
        BY <1>3, <2>3, <3>1 DEF ClaimOK, FollowKeeps, WorkInv, WorkOn
      <3>5. QED
        BY <3>3, <3>4 DEF WorkOn
    <2>6. QED
      BY <2>4, <2>5 DEF WorkInv
  <1>5. CASE \E d \in Staff : DeleteClaim(d)
    <2>1. PICK d \in Staff : DeleteClaim(d)
      BY <1>5
    <2>2. PICK c \in Claims : c = staff[d]
      BY <2>1, TypeParts DEF DeleteClaim, RestOK
    <2>3. /\ claims'[c].status = "DELETED" /\ \A b \in Claims : b # c => claims'[b] = claims[b]
          /\ UNCHANGED <<mints, lost, racy, req, job>>
          /\ \A b \in Claims : StaffKeeps(b)
      BY <2>1, <2>2, TypeParts, ClaimMintingAssumption
         DEF DeleteClaim, RestOK, NewClaim, StaffKeeps, history
    <2>4. ASSUME NEW b \in Claims \ racy', b # c PROVE WorkOn(b)'
      BY <1>3, <2>3, <2>4, WorkFrame DEF WorkInv
    <2>5. ASSUME c \notin racy' PROVE WorkOn(c)'
      <3>1. /\ WorkOn(c) /\ claims[c].status \in {"UNCLAIMED", "DELETED"}
            /\ \A r \in Requests : ~Working(r, c)
        BY <2>2, <2>3, <2>5 DEF WorkInv, WorkOn, DeleterOK
      <3>2. /\ OneWorker(c)' /\ \A r \in Requests : WorkerOK(r, c)'
            /\ \A e \in Staff : DeleterOK(e, c)'
        BY <2>3, <3>1 DEF OneWorker, WorkerOK, DeleterOK, Working
      <3>3. ~Followed(c)
        BY <3>1 DEF WorkOn, ClaimOK
      <3>4. ClaimOK(c)'
        BY <1>3, <2>3, <3>1, <3>3 DEF ClaimOK, FollowKeeps, WorkOn
      <3>5. QED
        BY <3>2, <3>4 DEF WorkOn
    <2>6. QED
      BY <2>4, <2>5 DEF WorkInv
  <1>6. CASE \E k \in Codes : POAPStep(k)
    BY <1>1, <1>2, <1>6 DEF POAPStep, history
  <1>7. CASE \E s \in Servers : Crash(s)
    <2>1. PICK s \in Servers : Crash(s)
      BY <1>7
    <2>2. \A r \in Requests : \/ req'[r] = req[r]
                              \/ req'[r].at = "dead" /\ req'[r].found = {}
      BY <2>1 DEF Crash, IdleRequest
    <2>3. \A j \in Jobs : job'[j] = job[j] \/ (job'[j].entries = {} /\ job'[j].at = "off")
      BY <2>1 DEF Crash, IdleJob
    <2>4. \A j \in Jobs : Tracked(j)' \subseteq Tracked(j)
      BY <2>3 DEF Tracked
    <2>5. QED
      BY <1>1, <2>1, <2>2, <2>4 DEF Crash, history
  <1>8. CASE \E s \in Servers : Boot(s)
    <2>1. PICK s \in Servers : Boot(s)
      BY <1>8
    <2>2. \A j \in Jobs : \/ job'[j] = job[j]
                          \/ job'[j].entries = job[j].entries /\ job'[j].at = "scan"
      BY <2>1, TypeParts DEF Boot, JobsOK, JobType
    <2>3. \A j \in Jobs : Tracked(j)' \subseteq Tracked(j)
      BY <2>2 DEF Tracked
    <2>4. QED
      BY <1>1, <2>1, <2>3 DEF Boot, history
  <1>9. CASE UNCHANGED vars
    BY <1>1, <1>2, <1>9 DEF vars, history
  <1>10. QED
    BY <1>4, <1>5, <1>6, <1>7, <1>8, <1>9

LEMMA WorkStart == Init => WorkInv
  BY DEF Init, WorkInv, WorkOn, OneWorker, WorkerOK, DeleterOK, ClaimOK, Working, Followed, Follows,
         Found, Tracked, NewClaim, IdleRequest, IdleJob, WorkSteps, Pledged

LEMMA WorkStep == TypeInv /\ BackingInv /\ WorkInv /\ [Next]_vars => WorkInv'
  BY WorkRequests, WorkJobs, WorkEnvironment DEF Next

\* A claim that is not racy has one worker at a time, and its status tells how far.
THEOREM WorkHolds == Spec => [](TypeInv /\ BackingInv /\ WorkInv)
  <1>1. TypeInv /\ BackingInv /\ WorkInv /\ [Next]_vars => WorkInv'
    BY WorkStep
  <1>2. QED
    BY <1>1, BackingHolds, WorkStart, PTL DEF Spec

\* POAP accepts one code for a claim, unless two handlers worked on the claim at
\* once, and but for redemptions whose reply was lost.
THEOREM MintsAreSingle == Spec => []SingleMint
  <1>1. WorkInv => SingleMint
    BY DEF WorkInv, WorkOn, ClaimOK, SingleMint
  <1>2. QED
    BY <1>1, WorkHolds, PTL

\* A claim is never taken out of CLAIMED, nor given another code, unless two handlers
\* worked on it at once: who writes a claim works on it, follows it or deletes it.
LEMMA ClaimedStep ==
    ASSUME TypeInv, BackingInv, WorkInv, [Next]_vars,
           NEW c \in Claims \ racy, claims[c].status = "CLAIMED"
    PROVE  claims'[c].status = "CLAIMED" /\ claims'[c].qrHash = claims[c].qrHash
  <1> DEFINE Stays == claims'[c].status = "CLAIMED" /\ claims'[c].qrHash = claims[c].qrHash
  <1>0. claims \in [Claims -> ClaimType]
    BY TypeParts DEF RestOK
  <1>1. claims'[c] = claims[c] => Stays
    OBVIOUS
  <1>2. ASSUME NEW r \in Requests, Submit(r) \/ RequestStep(r) PROVE Stays
    <2>1. CASE ~Writes(r)
      BY <1>1, <1>2, <2>1, UsualIsNormal
    <2>2. CASE ReadClaim(r) \/ Respond(r) \/ Redeem(r)
      BY <1>1, <2>2 DEF ReadClaim, Respond, Redeem
    <2>3. CASE Pend(r) \/ Unpend(r) \/ Mint(r)
      <3>1. claims'[c] # claims[c] => Working(r, c)
        BY <1>0, <2>3 DEF Pend, Unpend, Mint, Working, WorkSteps
      <3>2. Working(r, c) => claims[c].status # "CLAIMED"
        BY WorkerAlone
      <3>3. QED
        BY <1>1, <3>1, <3>2
    <2>4. QED
      BY <2>1, <2>2, <2>3 DEF Writes
  <1>3. ASSUME NEW j \in Jobs, JobStep(j) PROVE Stays
    <2>1. CASE Finish(j)
      BY <1>0, <2>1 DEF Finish, ClaimType
    <2>2. CASE Reset(j) \/ Restock(j)
      BY <2>2, BackedHas DEF Reset, Restock, BackedJob
    <2>3. CASE Scan(j) \/ Watch(j) \/ Lookup(j)
      BY <1>1, <2>3 DEF Scan, Watch, Lookup
    <2>4. QED
      BY <1>3, <2>1, <2>2, <2>3 DEF JobStep
  <1>4. ASSUME NEW d \in Staff, CheckDeletable(d) \/ DeleteClaim(d) PROVE Stays
    <2>1. staff[d] = c => claims[c].status # "CLAIMED"
      BY DEF WorkInv, WorkOn, DeleterOK
    <2>2. QED
      BY <1>0, <1>1, <1>4, <2>1 DEF CheckDeletable, DeleteClaim
  <1>5. CASE \/ \E k \in Codes : POAPStep(k)
             \/ \E s \in Servers : Crash(s) \/ Boot(s)
             \/ UNCHANGED vars
    BY <1>1, <1>5 DEF POAPStep, Crash, Boot, vars
  <1>6. QED
    BY <1>2, <1>3, <1>4, <1>5 DEF Next

-----------------------------------------------------------------------------
(* OnePOAPPerAddress, from AddressInv.                                     *)

Shown == {"PENDING", "MINTING", "CLAIMED"}

\* What a step keeps of the addresses: of claims, of codes, of requests.
AddressesKept ==
    \A c \in Claims : /\ claims'[c].mintedAddress = claims[c].mintedAddress
                      /\ claims'[c].status # "DELETED" => claims[c].status # "DELETED"
CodesKept ==
    /\ UNCHANGED poapOwner
    /\ \A c \in Claims : /\ mints[c] \subseteq mints'[c]
                         /\ claims[c].status \in Shown /\ mints[c] # {} =>
                               /\ claims'[c].status \in Shown
                               /\ claims'[c].mintedAddress = claims[c].mintedAddress
PledgeKept(r) ==
    req'[r].at \in Pledged =>
        /\ req[r].at \in Pledged
        /\ req'[r].claim = req[r].claim /\ req'[r].addr = req[r].addr
        /\ claims'[req[r].claim].mintedAddress = claims[req[r].claim].mintedAddress

Careful == racy = {} /\ lost = {}
PairedAddresses ==
    (\A r \in Requests : PledgedAddress(r)) /\ (\A k \in Codes : OwnedThroughClaim(k))

LEMMA UniqueKept ==
    ASSUME UniqueAddresses, AddressesKept PROVE UniqueAddresses'
  BY DEF UniqueAddresses, AddressesKept

LEMMA CodesKeptPaired ==
    ASSUME \A k \in Codes : OwnedThroughClaim(k), CodesKept
    PROVE  \A k \in Codes : OwnedThroughClaim(k)'
  <1>1. ASSUME NEW k \in Codes, poapOwner[k] # NoAddress PROVE OwnedThroughClaim(k)'
    <2>1. PICK c \in Claims : /\ k \in mints[c] /\ claims[c].status \in Shown
                              /\ claims[c].mintedAddress = poapOwner[k]
      BY <1>1 DEF OwnedThroughClaim, Shown
    <2>2. QED
      BY <2>1 DEF OwnedThroughClaim, CodesKept, Shown
  <1>2. QED
    BY <1>1 DEF OwnedThroughClaim, CodesKept

LEMMA PledgesKeptPaired ==
    ASSUME NEW r \in Requests, PledgedAddress(r), PledgeKept(r)
    PROVE  PledgedAddress(r)'
  BY DEF PledgedAddress, PledgeKept

LEMMA AddressFrame ==
    ASSUME AddressInv, AddressesKept, Careful' => Careful,
           Careful => CodesKept /\ \A r \in Requests : PledgeKept(r)
    PROVE  AddressInv'
  BY UniqueKept, CodesKeptPaired, PledgesKeptPaired DEF AddressInv, Careful

\* The steps that write no claim and redeem no code.
LEMMA AddressQuiet ==
    ASSUME AddressInv, UNCHANGED <<claims, mints, poapOwner, lost>>, racy \subseteq racy',
           \A r \in Requests : req'[r].at \in Pledged =>
               req[r].at \in Pledged /\ req'[r].claim = req[r].claim /\ req'[r].addr = req[r].addr
    PROVE  AddressInv'
  <1>1. AddressesKept /\ CodesKept /\ (\A r \in Requests : PledgeKept(r)) /\ (Careful' => Careful)
    BY DEF AddressesKept, CodesKept, PledgeKept, Careful
  <1>2. QED
    BY <1>1, AddressFrame

LEMMA AddressRequests ==
    ASSUME TypeInv, BackingInv, WorkInv, AddressInv, NEW r \in Requests,
           Submit(r) \/ RequestStep(r)
    PROVE  AddressInv'
  <1> USE DEF WorkSteps, Pledged
  <1> DEFINE q == req[r]
  <1>0. /\ req \in [Requests -> ReqType] /\ q \in ReqType /\ RequestOK(q)
        /\ claims \in [Claims -> ClaimType] /\ mints \in [Claims -> SUBSET Codes]
        /\ poapOwner \in [Codes -> Addresses \cup {NoAddress}]
    BY ReqHas, TypeParts DEF ReqsOK, RestOK
  <1>1. CASE ~Writes(r)
    <2>1. \A p \in Requests : req'[p].at \in Pledged =>
              req[p].at \in Pledged /\ req'[p].claim = req[p].claim /\ req'[p].addr = req[p].addr
      BY <1>1, UsualIsNormal DEF NormalMove
    <2>2. QED
      BY <1>1, <2>1, UsualIsNormal, AddressQuiet
  <1>2. CASE ReadClaim(r) \/ Respond(r)
    <2>1. /\ \A p \in Requests \ {r} : req'[p] = req[p]
          /\ req'[r].at \notin Pledged
      BY <1>0, <1>2 DEF ReadClaim, Respond, SkipClaim, ReqType
    <2>2. UNCHANGED <<claims, mints, poapOwner, lost>> /\ racy \subseteq racy'
      BY <1>2 DEF ReadClaim, Respond, history
    <2>3. QED
      BY <2>1, <2>2, AddressQuiet
  <1>3. CASE (Pend(r) \/ Redeem(r) \/ Unpend(r) \/ Mint(r)) /\ Throw(r)
    <2>1. /\ \A p \in Requests \ {r} : req'[p] = req[p]
          /\ req'[r].at = "threw"
      BY <1>0, <1>3 DEF Throw, IdleRequest
    <2>2. UNCHANGED <<claims, mints, poapOwner, lost, racy>>
      BY <1>0, <1>3, <2>1 DEF Pend, Redeem, Unpend, Mint, Goto, SkipClaim, history, ReqType
    <2>3. QED
      BY <2>1, <2>2, AddressQuiet
  <1>4. CASE Redeem(r) /\ ~Throw(r)
    <2>1. PICK c \in Claims : c = q.claim
      BY <1>0, <1>4 DEF Redeem, RequestOK
    <2>2. PICK k \in Codes : k = Code(r)
      BY <1>0, <1>4 DEF Redeem, RequestOK, CodeSteps, Pledged, Code, Rows
    <2>3. /\ \A p \in Requests \ {r} : req'[p] = req[p]
          /\ q.at = "post" /\ req'[r].at \in {"mint", "restore"}
          /\ req'[r].claim = c /\ req'[r].addr = q.addr
          /\ UNCHANGED <<claims, racy>> /\ lost \subseteq lost'
          /\ \A d \in Claims : mints[d] \subseteq mints'[d]
          /\ \A l \in Codes : poapOwner'[l] # poapOwner[l] =>
                 l = k /\ poapOwner'[k] = q.addr /\ k \in mints'[c]
      BY <1>0, <1>4, <2>1, <2>2 DEF Redeem, Accept, Goto, ReqType
    <2>4. UniqueAddresses'
      BY <2>3, UniqueKept DEF AddressInv, AddressesKept
    <2>5. ASSUME Careful' PROVE PairedAddresses'
      <3>1. PairedAddresses /\ c \notin racy
        BY <2>3, <2>5 DEF AddressInv, Careful, PairedAddresses
      <3>2. claims[c].status = "PENDING" /\ claims[c].mintedAddress = q.addr
        <4>1. Working(r, c)
          BY <2>1, <2>3 DEF Working
        <4>2. QED
          BY <2>1, <2>3, <3>1, <4>1, WorkerAlone DEF PledgedAddress, PairedAddresses
      <3>3. \A p \in Requests : PledgedAddress(p)'
        BY <2>1, <2>3, <3>1, <3>2 DEF PledgedAddress, PairedAddresses
      <3>4. ASSUME NEW l \in Codes PROVE OwnedThroughClaim(l)'
        <4>1. CASE poapOwner'[l] = poapOwner[l]
          BY <2>3, <3>1, <4>1 DEF OwnedThroughClaim, PairedAddresses
        <4>2. CASE poapOwner'[l] # poapOwner[l]
          BY <2>3, <3>2, <4>2 DEF OwnedThroughClaim
        <4>3. QED
          BY <4>1, <4>2
      <3>5. QED
        BY <3>3, <3>4 DEF PairedAddresses
    <2>6. QED
      BY <2>4, <2>5 DEF AddressInv, Careful, PairedAddresses
  <1>5. CASE Pend(r) /\ ~Throw(r)
    <2>1. PICK c \in Claims : c = q.claim
      BY <1>0, <1>5 DEF Pend, RequestOK
    <2>2. /\ \A p \in Requests \ {r} : req'[p] = req[p]
          /\ q.at = "pend" /\ req'[r].at = "redeem"
          /\ req'[r].claim = c /\ req'[r].addr = q.addr
          /\ claims[c].status # "DELETED" /\ ~AddressTaken(c, q.addr)
          /\ claims'[c].status = "PENDING" /\ claims'[c].mintedAddress = q.addr
          /\ \A d \in Claims : d # c => claims'[d] = claims[d]
          /\ UNCHANGED <<mints, lost, racy, poapOwner>>
      <3>1. /\ claims[c].status # "DELETED" /\ ~AddressTaken(c, q.addr)
            /\ claims' = [claims EXCEPT ![c].status = "PENDING", ![c].mintedAddress = q.addr]
            /\ req' = [req EXCEPT ![r].at = "redeem"]
            /\ UNCHANGED <<mints, lost, racy, poapOwner>> /\ q.at = "pend"
        BY <1>5, <2>1 DEF Pend, Goto, history
      <3>2. req'[r].at = "redeem" /\ req'[r].claim = c /\ req'[r].addr = q.addr
        BY <1>0, <2>1, <3>1 DEF ReqType
      <3>3. claims'[c].status = "PENDING" /\ claims'[c].mintedAddress = q.addr
        BY <1>0, <3>1 DEF ClaimType
      <3>4. QED
        BY <1>0, <3>1, <3>2, <3>3
    <2>3. UniqueAddresses'
      <3>1. \A d \in Claims \ {c} :
               /\ claims'[d] = claims[d]
               /\ claims[d].status # "DELETED" => claims[d].mintedAddress # q.addr
        BY <2>2 DEF AddressTaken
      <3>2. ASSUME NEW d \in Claims, NEW e \in Claims, d # e,
                   claims'[d].status # "DELETED", claims'[e].status # "DELETED",
                   claims'[d].mintedAddress # NoAddress
            PROVE  claims'[d].mintedAddress # claims'[e].mintedAddress
        <4>1. CASE d = c \/ e = c
          BY <2>2, <3>1, <3>2, <4>1
        <4>2. CASE d # c /\ e # c
          BY <3>1, <3>2, <4>2 DEF AddressInv, UniqueAddresses
        <4>3. QED
          BY <4>1, <4>2
      <3>3. QED
        BY <3>2 DEF UniqueAddresses
    <2>4. ASSUME Careful' PROVE PairedAddresses'
      <3>1. PairedAddresses /\ c \notin racy
        BY <2>2, <2>4 DEF AddressInv, Careful, PairedAddresses
      <3>2. Working(r, c)
        BY <2>1, <2>2 DEF Working
      <3>3. (\A p \in Requests : Working(p, c) => p = r) /\ mints[c] = {}
        BY <2>2, <2>4, <3>1, <3>2, WorkerAlone DEF Careful
      <3>4. CodesKept
        BY <2>2, <3>3 DEF CodesKept
      <3>5. ASSUME NEW p \in Requests PROVE PledgedAddress(p)'
        <4>1. p # r /\ req[p].at \in Pledged => req[p].claim \in Claims \ {c}
          BY <3>3, ReqHas DEF Working, RequestOK
        <4>2. QED
          BY <2>2, <3>1, <4>1 DEF PledgedAddress, PairedAddresses
      <3>6. QED
        BY <3>1, <3>4, <3>5, CodesKeptPaired DEF PairedAddresses
    <2>5. QED
      BY <2>3, <2>4 DEF AddressInv, Careful, PairedAddresses
  <1>6. CASE (Unpend(r) \/ Mint(r)) /\ ~Throw(r)
    <2>1. PICK c \in Claims : c = q.claim
      BY <1>0, <1>6 DEF Unpend, Mint, RequestOK
    <2>2. /\ \A p \in Requests \ {r} : req'[p] = req[p]
          /\ q.at \in {"unpend", "mint"} /\ req'[r].at = "next"
          /\ claims[c].status # "DELETED" /\ claims'[c].mintedAddress = claims[c].mintedAddress
          /\ claims'[c].status = IF q.at = "unpend" THEN "UNCLAIMED" ELSE "MINTING"
          /\ \A d \in Claims : d # c => claims'[d] = claims[d]
          /\ UNCHANGED <<mints, lost, racy, poapOwner>>
      <3>1. CASE Unpend(r)
        BY <1>0, <1>6, <2>1, <3>1 DEF Unpend, SkipClaim, ReqType, ClaimType, history
      <3>2. CASE Mint(r)
        BY <1>0, <1>6, <2>1, <3>2 DEF Mint, ReqType, ClaimType, history
      <3>3. QED
        BY <1>6, <3>1, <3>2
    <2>3. AddressesKept
      BY <2>2 DEF AddressesKept
    <2>4. ASSUME Careful PROVE CodesKept /\ \A p \in Requests : PledgeKept(p)
      <3>1. Working(r, c) /\ c \notin racy
        BY <2>1, <2>2, <2>4 DEF Working, Careful
      <3>2. q.at = "unpend" => mints[c] = {}
        BY <2>4, <3>1, WorkerAlone DEF Careful
      <3>3. CodesKept
        BY <2>2, <3>2 DEF CodesKept, Shown
      <3>4. QED
        BY <2>2, <2>3, <3>3, ReqHas DEF PledgeKept, AddressesKept, RequestOK
    <2>5. QED
      BY <2>2, <2>3, <2>4, AddressFrame DEF Careful
  <1>7. QED
    BY <1>1, <1>2, <1>3, <1>4, <1>5, <1>6 DEF Writes

LEMMA AddressJobs ==
    ASSUME TypeInv, BackingInv, AddressInv, NEW j \in Jobs, JobStep(j)
    PROVE  AddressInv'
  <1>0. claims \in [Claims -> ClaimType]
    BY TypeParts DEF RestOK
  <1>1. CASE UNCHANGED claims
    BY <1>1, AddressQuiet DEF JobStep, Scan, Watch, Reset, Restock, Lookup, Finish, history
  <1>2. CASE Finish(j) /\ ~UNCHANGED claims
    <2>1. PICK c \in Claims : c = job[j].cur.claim
      BY <1>2, JobHas DEF Finish, JobOK
    <2>2. /\ claims[c].status # "DELETED" /\ claims'[c].status = "CLAIMED"
          /\ claims'[c].mintedAddress = claims[c].mintedAddress
          /\ \A d \in Claims : d # c => claims'[d] = claims[d]
          /\ UNCHANGED <<mints, lost, racy, poapOwner, req>>
      BY <1>0, <1>2, <2>1 DEF Finish, ClaimType, history
    <2>3. AddressesKept /\ CodesKept
      BY <2>2 DEF AddressesKept, CodesKept, Shown
    <2>4. \A r \in Requests : PledgeKept(r)
      BY <2>2, <2>3, ReqHas DEF PledgeKept, AddressesKept, RequestOK, WorkSteps, Pledged
    <2>5. QED
      BY <2>2, <2>3, <2>4, AddressFrame DEF Careful
  <1>3. ~Reset(j)
    BY BackedHas DEF Reset, BackedJob
  <1>4. QED
    BY <1>1, <1>2, <1>3 DEF JobStep, Scan, Watch, Restock, Lookup

LEMMA AddressEnvironment ==
    ASSUME TypeInv, WorkInv, AddressInv,
           \/ \E d \in Staff : CheckDeletable(d) \/ DeleteClaim(d)
           \/ \E k \in Codes : POAPStep(k)
           \/ \E s \in Servers : Crash(s) \/ Boot(s)
           \/ UNCHANGED vars
    PROVE  AddressInv'
  <1>1. CASE \E d \in Staff : CheckDeletable(d)
    BY <1>1, AddressQuiet DEF CheckDeletable
  <1>2. CASE \E d \in Staff : DeleteClaim(d)
    <2>1. PICK d \in Staff : DeleteClaim(d)
      BY <1>2
    <2>2. PICK c \in Claims : c = staff[d]
      BY <2>1, TypeParts DEF DeleteClaim, RestOK
    <2>3. /\ claims'[c].status = "DELETED" /\ \A b \in Claims : b # c => claims'[b] = claims[b]
          /\ UNCHANGED <<mints, lost, racy, poapOwner, req>>
      BY <2>1, <2>2, TypeParts DEF DeleteClaim, RestOK, NewClaim, history
    <2>4. UniqueAddresses'
      BY <2>3 DEF AddressInv, UniqueAddresses
    <2>5. ASSUME Careful' PROVE PairedAddresses'
      <3>1. PairedAddresses /\ c \notin racy
        BY <2>3, <2>5 DEF AddressInv, Careful, PairedAddresses
      <3>2. claims[c].status \in {"UNCLAIMED", "DELETED"} /\ \A r \in Requests : ~Working(r, c)
        BY <2>2, <3>1 DEF WorkInv, WorkOn, DeleterOK
      <3>3. CodesKept
        BY <2>3, <3>2 DEF CodesKept, Shown
      <3>4. \A r \in Requests : PledgedAddress(r)'
        <4>1. \A r \in Requests : req[r].at \in Pledged => req[r].claim \in Claims \ {c}
          BY <3>2, ReqHas DEF Working, RequestOK, WorkSteps, Pledged
        <4>2. QED
          BY <2>3, <3>1, <4>1 DEF PledgedAddress, PairedAddresses
      <3>5. QED
        BY <3>1, <3>3, <3>4, CodesKeptPaired DEF PairedAddresses
    <2>6. QED
      BY <2>4, <2>5 DEF AddressInv, Careful, PairedAddresses
  <1>3. CASE \E k \in Codes : POAPStep(k)
    BY <1>3, AddressQuiet DEF POAPStep, history
  <1>4. CASE \E s \in Servers : Crash(s)
    <2>1. PICK s \in Servers : Crash(s)
      BY <1>4
    <2>2. \A r \in Requests : req'[r] = req[r] \/ req'[r].at = "dead"
      BY <2>1 DEF Crash, IdleRequest
    <2>3. QED
      BY <2>1, <2>2, AddressQuiet DEF Crash, history, Pledged
  <1>5. CASE \E s \in Servers : Boot(s)
    BY <1>5, AddressQuiet DEF Boot, history
  <1>6. CASE UNCHANGED vars
    BY <1>6, AddressQuiet DEF vars, history
  <1>7. QED
    BY <1>1, <1>2, <1>3, <1>4, <1>5, <1>6

LEMMA AddressStart == Init => AddressInv
  BY DEF Init, AddressInv, UniqueAddresses, PledgedAddress, OwnedThroughClaim, NewClaim,
         IdleRequest, Pledged

LEMMA AddressStep == TypeInv /\ BackingInv /\ WorkInv /\ AddressInv /\ [Next]_vars => AddressInv'
  BY AddressRequests, AddressJobs, AddressEnvironment DEF Next

\* Without handlers that worked on one claim at once and without lost replies, an
\* address gets one POAP of the GitPOAP at most.
THEOREM AddressesGetOne == Spec => []OnePOAPPerAddress
  <1>1. WorkInv /\ AddressInv => OnePOAPPerAddress
    <2> SUFFICES ASSUME WorkInv, AddressInv, Careful, NEW k \in Codes, NEW l \in Codes,
                        poapOwner[k] # NoAddress, poapOwner[k] = poapOwner[l]
                 PROVE  k = l
      BY DEF OnePOAPPerAddress, Careful
    <2>1. PICK c \in Claims : /\ k \in mints[c] /\ claims[c].status \in Shown
                              /\ claims[c].mintedAddress = poapOwner[k]
      BY DEF AddressInv, Careful, OwnedThroughClaim, Shown
    <2>2. PICK d \in Claims : /\ l \in mints[d] /\ claims[d].status \in Shown
                              /\ claims[d].mintedAddress = poapOwner[k]
      BY DEF AddressInv, Careful, OwnedThroughClaim, Shown
    <2>3. c = d
      BY <2>1, <2>2 DEF AddressInv, UniqueAddresses, Shown
    <2>4. QED
      BY <2>1, <2>2, <2>3 DEF WorkInv, WorkOn, ClaimOK, Careful
  <1>2. TypeInv /\ BackingInv /\ WorkInv /\ AddressInv /\ [Next]_vars => AddressInv'
    BY AddressStep
  <1>3. QED
    BY <1>1, <1>2, WorkHolds, AddressStart, PTL DEF Spec

-----------------------------------------------------------------------------
(* MintingHasCode, also when POAP forgets redemptions.                     *)

\* A claim with status MINTING has a code, so that the startup scan never meets one
\* without, even when POAP forgets redemptions and claims are given back.
THEOREM MintingClaimsHaveCodes == ForgetfulSpec => []MintingHasCode
  <1>1. Init => MintingHasCode
    BY DEF Init, MintingHasCode, NewClaim
  <1>2. ASSUME TypeInv, MintingHasCode, [ForgetfulNext]_vars PROVE MintingHasCode'
    <2>0. claims \in [Claims -> ClaimType]
      BY <1>2, TypeParts DEF RestOK
    <2>1. UNCHANGED claims => MintingHasCode'
      BY <1>2 DEF MintingHasCode
    <2>2. ASSUME NEW r \in Requests, Submit(r) \/ RequestStep(r) PROVE MintingHasCode'
      <3>1. CASE Mint(r)
        <4>1. Code(r) \in Codes
          BY <1>2, <3>1, ReqHas DEF Mint, RequestOK, CodeSteps, Pledged, Rows, Code
        <4>2. QED
          BY <1>2, <2>0, <3>1, <4>1, CodesAssumption DEF Mint, MintingHasCode, ClaimType
      <3>2. CASE Pend(r) \/ Unpend(r)
        BY <1>2, <2>0, <3>2 DEF Pend, Unpend, MintingHasCode, ClaimType
      <3>3. CASE ~(Mint(r) \/ Pend(r) \/ Unpend(r))
        BY <1>2, <2>1, <2>2, <3>3, UsualIsNormal DEF Writes, ReadClaim, Redeem, Respond
      <3>4. QED
        BY <3>1, <3>2, <3>3
    <2>3. ASSUME NEW j \in Jobs, JobStep(j) PROVE MintingHasCode'
      <3>1. CASE Reset(j) \/ Finish(j)
        <4>1. CASE Reset(j)
          BY <1>2, <2>0, <4>1 DEF Reset, MintingHasCode, ClaimType
        <4>2. CASE Finish(j)
          BY <1>2, <2>0, <4>2 DEF Finish, MintingHasCode, ClaimType
        <4>3. QED
          BY <3>1, <4>1, <4>2
      <3>2. CASE ~(Reset(j) \/ Finish(j))
        BY <2>1, <2>3, <3>2 DEF JobStep, Scan, Watch, Restock, Lookup
      <3>3. QED
        BY <3>1, <3>2
    <2>4. ASSUME NEW d \in Staff, CheckDeletable(d) \/ DeleteClaim(d) PROVE MintingHasCode'
      BY <1>2, <2>0, <2>1, <2>4 DEF CheckDeletable, DeleteClaim, MintingHasCode, NewClaim
    <2>5. CASE \/ \E k \in Codes : POAPStep(k) \/ POAPForget(k)
               \/ \E s \in Servers : Crash(s) \/ Boot(s)
               \/ UNCHANGED vars
      BY <2>1, <2>5 DEF POAPStep, POAPForget, Crash, Boot, vars
    <2>6. QED
      BY <1>2, <2>2, <2>3, <2>4, <2>5 DEF ForgetfulNext, Next
  <1>3. QED
    BY <1>1, <1>2, TypeCorrect, PTL DEF ForgetfulSpec

-----------------------------------------------------------------------------
(* MintsAreKept on a POAP service that forgets redemptions, from KeptInv.  *)

EntriesKept ==
    /\ \A j \in Jobs : Held(j)' \subseteq Held(j)
    /\ \A r \in Requests : req'[r].found \subseteq req[r].found

\* A step after which POAP holds no more mints that nobody knows of.
NoNewMints(c) ==
    /\ mints'[c] \ lost' \subseteq mints[c] \ lost
    /\ \A r \in Requests : Working(r, c)' /\ req'[r].at = "mint" => req'[r] = req[r]

LEMMA KnownFrame ==
    ASSUME NEW c \in Claims, KnownMints(c), ReqKeeps(c), NoNewMints(c),
           claims'[c].status = claims[c].status, claims'[c].qrHash = claims[c].qrHash
    PROVE  KnownMints(c)'
  BY DEF KnownMints, Reclaimable, NoNewMints, ReqKeeps, Code

\* A claim that the step does not write, and nobody starts to work on or to follow.
LEMMA KeptFrame ==
    ASSUME NEW c \in Claims, KeptOn(c), ReqKeeps(c), StaffKeeps(c), EntriesKept, NoNewMints(c),
           claims'[c].status = claims[c].status, claims'[c].qrHash = claims[c].qrHash,
           \A j \in Jobs : ResetRight(j, c)'
    PROVE  KeptOn(c)'
  <1>1. OneWorker(c)' /\ \A r \in Requests : WorkerStatus(r, c)'
    BY DEF KeptOn, OneWorker, WorkerStatus, ReqKeeps
  <1>2. HeldOnce(c)'
    BY DEF KeptOn, HeldOnce, EntriesKept
  <1>3. EntriesTrue(c)'
    BY DEF KeptOn, EntriesTrue, EntryTrue, EntriesKept
  <1>4. \A d \in Staff : DeleterOK(d, c)'
    BY DEF KeptOn, DeleterOK, ReqKeeps, StaffKeeps
  <1>5. KnownMints(c)'
    BY KnownFrame DEF KeptOn
  <1>6. QED
    BY <1>1, <1>2, <1>3, <1>4, <1>5 DEF KeptOn

LEMMA KeptHas ==
    ASSUME TypeInv, KeptInv
    PROVE  /\ \A j \in Jobs : Held(j) \subseteq job[j].entries /\ job[j].entries \subseteq Entry
           /\ \A r \in Requests : req[r].found \subseteq Entry
           /\ \A j \in Jobs : job[j].at \in {"reset", "lookup", "finish"} =>
                  job[j].cur \in Held(j) /\ job[j].cur.claim \in Claims
  <1>1. ASSUME NEW j \in Jobs
        PROVE  Held(j) \subseteq job[j].entries /\ job[j].entries \subseteq Entry
    BY JobHas DEF Held, JobType
  <1>2. ASSUME NEW r \in Requests PROVE req[r].found \subseteq Entry
    BY ReqHas DEF ReqType
  <1>3. ASSUME NEW j \in Jobs, job[j].at \in {"reset", "lookup", "finish"}
        PROVE  job[j].cur \in Held(j) /\ job[j].cur.claim \in Claims
    BY <1>3, JobHas DEF KeptInv, Held, JobOK
  <1>4. QED
    BY <1>1, <1>2, <1>3

\* A claim that is not minting is followed by nobody.
LEMMA NobodyHolds ==
    ASSUME TypeInv, KeptInv, NEW c \in Claims \ (racy \cup shared),
           claims[c].status # "MINTING"
    PROVE  /\ \A j \in Jobs : \A e \in Held(j) : e.claim # c
           /\ \A r \in Requests : \A e \in req[r].found : e.claim # c
           /\ \A j \in Jobs : job[j].at \in {"reset", "lookup", "finish"} => job[j].cur.claim # c
  <1>1. EntriesTrue(c)
    BY DEF KeptInv, KeptOn
  <1>2. /\ \A j \in Jobs : \A e \in Held(j) : e.claim # c
        /\ \A r \in Requests : \A e \in req[r].found : e.claim # c
    BY <1>1 DEF EntriesTrue, EntryTrue
  <1>3. QED
    BY <1>2, KeptHas

\* The steps that write neither a claim nor a mint, nor move a loop.
LEMMA KeptQuiet ==
    ASSUME TypeInv, KeptInv, UNCHANGED <<claims, mints, lost, racy, shared, staff, job, up>>,
           \A k \in Codes : poap[k] \in Accepted => poap'[k] \in Accepted,
           \A r \in Requests : /\ req'[r].found \subseteq req[r].found
                               /\ req'[r].at = "mint" => req'[r] = req[r],
           \A c \in Claims : ReqKeeps(c)
    PROVE  KeptInv'
  <1>1. EntriesKept
    BY DEF EntriesKept, Held
  <1>2. ASSUME NEW c \in Claims \ (racy' \cup shared') PROVE KeptOn(c)'
    <2>1. KeptOn(c) /\ StaffKeeps(c) /\ \A j \in Jobs : ResetRight(j, c)'
      BY <1>2 DEF KeptInv, KeptOn, StaffKeeps, ResetRight
    <2>2. NoNewMints(c)
      BY DEF NoNewMints
    <2>3. QED
      BY <1>1, <2>1, <2>2, KeptFrame
  <1>3. \A c \in Claims : \A k \in mints'[c] : poap'[k] \in Accepted
    BY TypeParts DEF KeptInv, RestOK
  <1>4. QED
    BY <1>2, <1>3 DEF KeptInv

LEMMA KeptReadClaim ==
    ASSUME TypeInv, KeptInv, NEW r \in Requests, ReadClaim(r) PROVE KeptInv'
  <1>0. req \in [Requests -> ReqType] /\ req[r] \in ReqType
    BY ReqHas DEF ReqsOK
  <1>1. PICK c \in Claims : c = Head(req[r].todo)
    BY <1>0 DEF ReadClaim, ReqType, Lists
  <1>2. UNCHANGED <<claims, mints, lost, shared, staff, job, up, poap>>
    BY DEF ReadClaim, codeVars, serverVars
  <1>3. CASE SkipClaim(r) /\ UNCHANGED <<racy, shared>>
    <2>1. NormalMove(r)
      BY <1>3, StopIsNormal
    <2>2. \A p \in Requests : req'[p].found \subseteq req[p].found
      BY <2>1 DEF NormalMove
    <2>3. QED
      BY <1>2, <1>3, <2>1, <2>2, NormalKeeps, KeptQuiet
  <1>4. CASE /\ claims[c].status = "UNCLAIMED"
             /\ req' = [req EXCEPT ![r].at = "choose", ![r].claim = c]
             /\ racy' = IF Busy(c) THEN racy \cup {c} ELSE racy
    <2>1. /\ \A p \in Requests \ {r} : req'[p] = req[p]
          /\ req'[r].at = "choose" /\ req'[r].claim = c /\ req'[r].found = req[r].found
          /\ req[r].at = "next"
      BY <1>0, <1>4 DEF ReadClaim, ReqType
    <2>2. EntriesKept
      BY <1>2, <2>1 DEF EntriesKept, Held
    <2>3. ASSUME NEW d \in Claims \ (racy' \cup shared') PROVE KeptOn(d)'
      <3>1. KeptOn(d) /\ (\A j \in Jobs : ResetRight(j, d)')
        BY <1>2, <1>4, <2>3 DEF KeptInv, KeptOn, ResetRight
      <3>2. CASE d # c
        <4>1. ReqKeeps(d) /\ StaffKeeps(d) /\ NoNewMints(d)
          BY <1>2, <2>1, <3>2 DEF ReqKeeps, StaffKeeps, Working, NoNewMints
        <4>2. QED
          BY <1>2, <2>2, <3>1, <4>1, KeptFrame
      <3>3. CASE d = c
        <4>1. ~Busy(c)
          BY <1>4, <2>3, <3>3
        <4>2. \A p \in Requests : Working(p, c)' => p = r
          BY <2>1, <4>1 DEF Working, Busy
        <4>3. OneWorker(c)' /\ \A e \in Staff : DeleterOK(e, c)'
          BY <1>2, <4>1, <4>2 DEF OneWorker, DeleterOK, Busy
        <4>4. \A p \in Requests : WorkerStatus(p, c)'
          BY <1>2, <1>4, <2>1, <4>2 DEF WorkerStatus, Pledged
        <4>5. HeldOnce(c)' /\ EntriesTrue(c)'
          BY <1>2, <2>2, <3>1, <3>3 DEF KeptOn, HeldOnce, EntriesTrue, EntryTrue, EntriesKept
        <4>6. KnownMints(c)'
          BY <1>2, <1>4, <2>1, <3>1, <3>3, <4>2 DEF KeptOn, KnownMints, Reclaimable
        <4>7. QED
          BY <1>2, <3>1, <3>3, <4>3, <4>4, <4>5, <4>6 DEF KeptOn
      <3>4. QED
        BY <3>2, <3>3
    <2>4. QED
      BY <1>2, <2>3 DEF KeptInv
  <1>5. QED
    BY <1>1, <1>3, <1>4 DEF ReadClaim

LEMMA KeptAlone ==
    ASSUME KeptInv, NEW r \in Requests, NEW c \in Claims \ (racy \cup shared), Working(r, c)
    PROVE  /\ \A p \in Requests : Working(p, c) => p = r
           /\ \A d \in Staff : staff[d] # c
           /\ claims[c].status = IF req[r].at \in Pledged THEN "PENDING" ELSE "UNCLAIMED"
           /\ mints[c] \subseteq lost \cup (IF req[r].at = "mint" THEN {Code(r)} ELSE {})
  BY DEF KeptInv, KeptOn, OneWorker, WorkerStatus, DeleterOK, KnownMints

LEMMA KeptWrites ==
    ASSUME TypeInv, KeptInv, NEW r \in Requests, Pend(r) \/ Unpend(r) \/ Redeem(r) \/ Mint(r)
    PROVE  KeptInv'
  <1> USE DEF WorkSteps, Pledged
  <1> DEFINE q == req[r]
  <1>0. /\ req \in [Requests -> ReqType] /\ q \in ReqType /\ RequestOK(q)
        /\ claims \in [Claims -> ClaimType] /\ mints \in [Claims -> SUBSET Codes]
        /\ poap \in [Codes -> POAPStates]
    BY ReqHas, TypeParts DEF ReqsOK, RestOK, CodesTypeOK
  <1>1. PICK c \in Claims : c = q.claim /\ Working(r, c)
    BY <1>0 DEF Pend, Unpend, Redeem, Mint, Working, RequestOK
  <1>2. CASE Throw(r)
    <2>1. NormalMove(r) /\ req'[r].at = "threw"
      BY <1>0, <1>2, StopIsNormal DEF Throw, IdleRequest
    <2>2. UNCHANGED <<claims, mints, lost, racy, shared, staff, job, up, poap>>
      BY <1>0, <2>1 DEF Pend, Unpend, Redeem, Mint, Goto, SkipClaim, history, codeVars, serverVars,
                        ReqType
    <2>3. \A p \in Requests : req'[p].found \subseteq req[p].found
      BY <2>1 DEF NormalMove
    <2>4. QED
      BY <2>1, <2>2, <2>3, NormalKeeps, KeptQuiet
  <1>3. /\ \A p \in Requests \ {r} : req'[p] = req[p]
        /\ UNCHANGED <<racy, shared, staff, job, up>> /\ lost \subseteq lost'
    BY <1>0 DEF Pend, Unpend, Redeem, Mint, Goto, SkipClaim, Throw, history, serverVars
  <1>4. \A j \in Jobs : Held(j)' = Held(j)
    BY <1>3 DEF Held
  <1>5. ASSUME NEW d \in Claims \ (racy \cup shared), d # c,
               claims'[d] = claims[d], mints'[d] = mints[d],
               req'[r].at \in WorkSteps => req'[r].claim = c,
               \A e \in req'[r].found : e \in q.found \/ e.claim = c
        PROVE  KeptOn(d)'
    <2>1. KeptOn(d) /\ ReqKeeps(d) /\ StaffKeeps(d)
      BY <1>1, <1>3, <1>5 DEF KeptInv, ReqKeeps, StaffKeeps, Working
    <2>2. OneWorker(d)' /\ \A p \in Requests : WorkerStatus(p, d)'
      BY <1>5, <2>1 DEF KeptOn, OneWorker, WorkerStatus, ReqKeeps
    <2>3. HeldOnce(d)'
      BY <1>3, <1>4, <1>5, <2>1 DEF KeptOn, HeldOnce
    <2>4. EntriesTrue(d)'
      BY <1>3, <1>4, <1>5, <2>1 DEF KeptOn, EntriesTrue, EntryTrue
    <2>5. (\A e \in Staff : DeleterOK(e, d)') /\ \A j \in Jobs : ResetRight(j, d)'
      BY <1>3, <1>5, <2>1 DEF KeptOn, DeleterOK, ReqKeeps, StaffKeeps, ResetRight
    <2>6. KnownMints(d)'
      <3>1. NoNewMints(d)
        BY <1>3, <1>5 DEF NoNewMints, Working
      <3>2. QED
        BY <1>5, <2>1, <3>1, KnownFrame DEF KeptOn
    <2>7. QED
      BY <1>5, <2>1, <2>2, <2>3, <2>4, <2>5, <2>6 DEF KeptOn
  <1>6. ASSUME c \notin racy \cup shared
        PROVE  /\ \A p \in Requests \ {r} : ~Working(p, c)'
               /\ \A d \in Staff : DeleterOK(d, c)'
               /\ claims[c].status = IF q.at \in Pledged THEN "PENDING" ELSE "UNCLAIMED"
               /\ \A j \in Jobs : \A e \in Held(j) : e.claim # c
               /\ \A p \in Requests : \A e \in req[p].found : e.claim # c
               /\ \A j \in Jobs : ResetRight(j, c)'
               /\ claims[c].qrHash = NoCode
               /\ mints[c] \subseteq lost \cup (IF q.at = "mint" THEN {Code(r)} ELSE {})
    <2>1. /\ \A p \in Requests : Working(p, c) => p = r
          /\ \A d \in Staff : staff[d] # c
          /\ claims[c].status = IF q.at \in Pledged THEN "PENDING" ELSE "UNCLAIMED"
          /\ mints[c] \subseteq lost \cup (IF q.at = "mint" THEN {Code(r)} ELSE {})
      BY <1>1, <1>6, KeptAlone
    <2>2. /\ \A j \in Jobs : \A e \in Held(j) : e.claim # c
          /\ \A p \in Requests : \A e \in req[p].found : e.claim # c
          /\ \A j \in Jobs : job[j].at \in {"reset", "lookup", "finish"} => job[j].cur.claim # c
      BY <1>6, <2>1, NobodyHolds
    <2>3. QED
      BY <1>3, <1>6, <2>1, <2>2 DEF Working, DeleterOK, ResetRight, KeptInv, KeptOn
  <1>9. Redeem(r) => Code(r) \in Codes
    BY <1>0 DEF Redeem, RequestOK, CodeSteps, Pledged, Rows, Code
  <1>7. CASE (Pend(r) \/ Unpend(r) \/ Redeem(r)) /\ ~Throw(r)
    <2>1. /\ \A d \in Claims : d # c => claims'[d] = claims[d] /\ mints'[d] = mints[d]
          /\ claims'[c].qrHash = claims[c].qrHash
          /\ req'[r].found = q.found
          /\ \/ req'[r].at = "redeem" /\ claims'[c].status = "PENDING"
             \/ req'[r].at = "next" /\ claims'[c].status = "UNCLAIMED"
             \/ req'[r].at \in {"mint", "restore"} /\ UNCHANGED claims /\ q.at = "post"
          /\ req'[r].at \in WorkSteps => req'[r].claim = c
          /\ q.at # "mint" /\ (Code(r)' = Code(r) \/ req'[r].at = "next")
          /\ mints'[c] \subseteq
                 mints[c] \cup lost' \cup (IF req'[r].at = "mint" THEN {Code(r)} ELSE {})
      <3>1. CASE Pend(r)
        BY <1>0, <1>1, <1>7, <3>1 DEF Pend, Goto, ReqType, ClaimType, history, Code
      <3>2. CASE Unpend(r)
        BY <1>0, <1>1, <1>7, <3>2 DEF Unpend, SkipClaim, ReqType, ClaimType, history
      <3>3. CASE Redeem(r)
        <4>1. /\ req'[r].at \in {"mint", "restore"} /\ req'[r].found = q.found
              /\ req'[r].row = q.row /\ req'[r].claim = c
              /\ UNCHANGED claims /\ q.at = "post"
          BY <1>0, <1>1, <1>7, <3>3 DEF Redeem, Goto, ReqType
        <4>2. \A d \in Claims : d # c => mints'[d] = mints[d]
          BY <1>0, <1>1, <3>3 DEF Redeem, Accept
        <4>3. mints'[c] \subseteq
                  mints[c] \cup lost' \cup (IF req'[r].at = "mint" THEN {Code(r)} ELSE {})
          <5>1. mints'[c] \subseteq mints[c] \cup {Code(r)}
            BY <1>0, <1>1, <3>3 DEF Redeem, Accept
          <5>2. CASE req'[r].at = "mint"
            BY <5>1, <5>2
          <5>3. CASE req'[r].at # "mint"
            <6>1. ~Goto(r, "mint")
              BY <1>0, <5>3 DEF Goto, ReqType
            <6>2. lost' = lost \cup {Code(r)} \/ mints' = mints
              BY <3>3, <6>1 DEF Redeem
            <6>3. QED
              BY <5>1, <6>2
          <5>4. QED
            BY <5>2, <5>3
        <4>4. QED
          BY <4>1, <4>2, <4>3 DEF Code
      <3>4. QED
        BY <1>7, <3>1, <3>2, <3>3
    <2>2. ASSUME c \notin racy \cup shared PROVE KeptOn(c)'
      <3>1. OneWorker(c)' /\ \A p \in Requests : WorkerStatus(p, c)'
        BY <1>6, <2>1, <2>2 DEF OneWorker, WorkerStatus
      <3>2. HeldOnce(c)' /\ EntriesTrue(c)'
        <4>1. \A p \in Requests : \A e \in req'[p].found : e.claim # c
          BY <1>3, <1>6, <2>1, <2>2
        <4>2. QED
          BY <1>4, <1>6, <2>2, <4>1 DEF HeldOnce, EntriesTrue
      <3>3. KnownMints(c)'
        <4>1. mints'[c] \subseteq lost' \cup (IF req'[r].at = "mint" THEN {Code(r)} ELSE {})
          BY <1>3, <1>6, <2>1, <2>2
        <4>2. claims'[c].status = "UNCLAIMED" => req'[r].at # "mint"
          BY <1>6, <2>1, <2>2
        <4>3. claims'[c].status \in {"UNCLAIMED", "PENDING"}
          BY <1>6, <2>1, <2>2
        <4>4. Reclaimable(c)'
          BY <4>1, <4>2 DEF Reclaimable
        <4>5. ASSUME NEW p \in Requests, Working(p, c)'
              PROVE  mints'[c] \subseteq
                         lost' \cup (IF req'[p].at = "mint" THEN {Code(p)'} ELSE {})
          <5>1. p = r /\ req'[r].at # "next"
            BY <1>6, <2>2, <4>5 DEF Working
          <5>2. QED
            BY <2>1, <4>1, <5>1
        <4>6. QED
          BY <4>3, <4>4, <4>5 DEF KnownMints
      <3>4. QED
        BY <1>6, <2>1, <2>2, <3>1, <3>2, <3>3 DEF KeptOn
    <2>3. \A d \in Claims : \A k \in mints'[d] : poap'[k] \in Accepted
      <3>1. CASE UNCHANGED <<mints, poap>>
        BY <3>1 DEF KeptInv
      <3>2. CASE Redeem(r) /\ Accept(r)
        <4>1. PICK k : k = Code(r)
          OBVIOUS
        <4>2. /\ mints' = [mints EXCEPT ![c] = @ \cup {k}]
              /\ poap' = [poap EXCEPT ![k] = "submitted"]
          BY <1>1, <3>2, <4>1 DEF Accept
        <4>3. \A d \in Claims : \A l \in mints'[d] : l = k \/ l \in mints[d]
          BY <1>0, <4>2
        <4>6. k \in Codes
          BY <1>9, <3>2, <4>1
        <4>4. \A d \in Claims : \A l \in mints'[d] : l \in Codes
          BY <1>0, <1>9, <4>1, <4>3, <4>6
        <4>5. QED
          BY <1>0, <4>2, <4>3, <4>4 DEF KeptInv, Accepted
      <3>3. QED
        BY <1>7, <3>1, <3>2 DEF Pend, Unpend, Redeem, history, codeVars
    <2>4. QED
      BY <1>3, <1>5, <2>1, <2>2, <2>3 DEF KeptInv
  <1>8. CASE Mint(r) /\ ~Throw(r)
    <2>1. PICK e : e = [claim |-> c, code |-> Code(r), addr |-> q.addr]
      OBVIOUS
    <2>2. /\ claims'[c].status = "MINTING" /\ claims'[c].qrHash = Code(r)
          /\ req'[r].at = "next" /\ req'[r].found = q.found \cup {e}
          /\ \A d \in Claims : d # c => claims'[d] = claims[d]
          /\ UNCHANGED <<mints, lost, poap>> /\ q.at = "mint"
      <3>1. /\ claims' = [claims EXCEPT ![c].status = "MINTING", ![c].qrHash = Code(r)]
            /\ req' = [req EXCEPT ![r].at = "next", ![r].todo = Tail(@),
                                  ![r].claim = NoClaim, ![r].row = NoRow,
                                  ![r].found = @ \cup {[claim |-> c, code |-> Code(r),
                                                        addr |-> q.addr]}]
        BY <1>1, <1>8 DEF Mint
      <3>2. UNCHANGED <<mints, lost, poap>> /\ q.at = "mint"
        BY <1>8 DEF Mint, history, codeVars
      <3>3. claims'[c].status = "MINTING" /\ claims'[c].qrHash = Code(r)
        BY <1>0, <3>1 DEF ClaimType
      <3>4. \A d \in Claims : d # c => claims'[d] = claims[d]
        BY <1>0, <3>1
      <3>5. req'[r].at = "next" /\ req'[r].found = q.found \cup {e}
        BY <1>0, <2>1, <3>1 DEF ReqType
      <3>6. QED
        BY <3>2, <3>3, <3>4, <3>5
    <2>3. ASSUME c \notin racy \cup shared PROVE KeptOn(c)'
      <3>1. OneWorker(c)' /\ \A p \in Requests : WorkerStatus(p, c)'
        BY <1>6, <2>2, <2>3 DEF OneWorker, WorkerStatus, Working
      <3>2. \A p \in Requests : \A f \in req'[p].found : f.claim = c => p = r /\ f = e
        BY <1>3, <1>6, <2>2, <2>3
      <3>3. HeldOnce(c)'
        BY <1>4, <1>6, <2>3, <3>2 DEF HeldOnce
      <3>4. EntriesTrue(c)'
        <4>1. EntryTrue(e)'
          BY <2>1, <2>2 DEF EntryTrue
        <4>2. QED
          BY <1>4, <1>6, <2>3, <3>2, <4>1 DEF EntriesTrue
      <3>5. KnownMints(c)'
        <4>1. \A p \in Requests : ~Working(p, c)'
          BY <1>6, <2>2, <2>3 DEF Working
        <4>2. mints'[c] \subseteq lost' \cup {claims'[c].qrHash}
          BY <1>6, <2>2, <2>3
        <4>3. QED
          BY <2>2, <4>1, <4>2 DEF KnownMints, Reclaimable
      <3>6. QED
        BY <1>6, <2>2, <2>3, <3>1, <3>3, <3>4, <3>5 DEF KeptOn
    <2>4. QED
      BY <1>3, <1>5, <2>1, <2>2, <2>3 DEF KeptInv
  <1>10. QED
    BY <1>2, <1>7, <1>8


LEMMA KeptRespond ==
    ASSUME TypeInv, KeptInv, NEW r \in Requests, Respond(r) PROVE KeptInv'
  <1>0. req \in [Requests -> ReqType] /\ job \in [Jobs -> JobType] /\ r \in Jobs \ Servers
    BY TypeParts, ClaimMintingAssumption DEF ReqsOK, JobsOK, Jobs
  <1>1. /\ \A p \in Requests \ {r} : req'[p] = req[p]
        /\ \A j \in Jobs \ {r} : job'[j] = job[j]
        /\ req'[r].at = "done" /\ req'[r].found = {}
        /\ job'[r].entries = req[r].found /\ job'[r].at \in {"off", "watch"}
        /\ UNCHANGED <<claims, mints, lost, racy, shared, staff, up, poap>>
    BY <1>0 DEF Respond, ReqType, JobType, history, serverVars, codeVars
  <1>2. /\ \A j \in Jobs \ {r} : Held(j)' = Held(j)
        /\ Held(r)' = req[r].found
    BY <1>0, <1>1 DEF Held
  <1>3. ASSUME NEW c \in Claims \ (racy' \cup shared') PROVE KeptOn(c)'
    <2>1. KeptOn(c) /\ ReqKeeps(c) /\ StaffKeeps(c)
      BY <1>1, <1>3 DEF KeptInv, ReqKeeps, StaffKeeps, Working, WorkSteps
    <2>2. OneWorker(c)' /\ \A p \in Requests : WorkerStatus(p, c)'
      BY <1>1, <2>1 DEF KeptOn, OneWorker, WorkerStatus, ReqKeeps
    <2>3. HeldOnce(c)'
      <3>1. HeldOnce(c)
        BY <2>1 DEF KeptOn
      <3>2. \A i, j \in Jobs : \A e \in Held(i)', f \in Held(j)' :
               e.claim = c /\ f.claim = c => i = j /\ e = f
        BY <1>0, <1>2, <3>1 DEF HeldOnce
      <3>3. \A p, q \in Requests : \A e \in req'[p].found, f \in req'[q].found :
               e.claim = c /\ f.claim = c => p = q /\ e = f
        BY <1>1, <3>1 DEF HeldOnce
      <3>4. \A j \in Jobs, p \in Requests : \A e \in Held(j)', f \in req'[p].found :
               ~(e.claim = c /\ f.claim = c)
        <4>1. ASSUME NEW j \in Jobs, NEW p \in Requests, NEW e \in Held(j)',
                     NEW f \in req'[p].found, e.claim = c, f.claim = c
              PROVE  FALSE
          <5>1. p # r /\ f \in req[p].found
            BY <1>1, <4>1
          <5>2. CASE j = r
            BY <1>2, <3>1, <4>1, <5>1, <5>2 DEF HeldOnce
          <5>3. CASE j # r
            BY <1>2, <3>1, <4>1, <5>1, <5>3 DEF HeldOnce
          <5>4. QED
            BY <5>2, <5>3
        <4>2. QED
          BY <4>1
      <3>5. QED
        BY <3>2, <3>3, <3>4 DEF HeldOnce
    <2>4. EntriesTrue(c)'
      BY <1>0, <1>1, <1>2, <2>1 DEF KeptOn, EntriesTrue, EntryTrue
    <2>5. (\A d \in Staff : DeleterOK(d, c)') /\ \A j \in Jobs : ResetRight(j, c)'
      BY <1>1, <2>1 DEF KeptOn, DeleterOK, ReqKeeps, StaffKeeps, ResetRight
    <2>6. KnownMints(c)'
      <3>1. NoNewMints(c)
        BY <1>1 DEF NoNewMints
      <3>2. QED
        BY <1>1, <2>1, <3>1, KnownFrame DEF KeptOn
    <2>7. QED
      BY <1>1, <2>1, <2>2, <2>3, <2>4, <2>5, <2>6 DEF KeptOn
  <1>4. QED
    BY <1>0, <1>1, <1>3 DEF KeptInv, Jobs

\* What a step of a loop leaves alone; whether it writes a claim is left open.
LoopStep(j) ==
    /\ job[j].at # "off"
    /\ \A i \in Jobs \ {j} : job'[i] = job[i]
    /\ UNCHANGED <<req, mints, lost, racy, shared, staff, up, poap>>
    /\ Held(j)' \subseteq Held(j)
    /\ job'[j].at \in {"reset", "lookup", "finish"} => job'[j].cur \in job'[j].entries
    /\ \A c \in Claims \ (racy \cup shared) : ResetRight(j, c)'

LEMMA LoopKeeps ==
    ASSUME TypeInv, KeptInv, NEW j \in Jobs, LoopStep(j)
    PROVE  /\ EntriesKept
           /\ \A c \in Claims : ReqKeeps(c) /\ StaffKeeps(c) /\ NoNewMints(c)
           /\ \A c \in Claims \ (racy \cup shared) : \A i \in Jobs : ResetRight(i, c)'
           /\ (\A c \in Claims \ (racy \cup shared) : KeptOn(c)') => KeptInv'
  <1>1. EntriesKept
    BY DEF EntriesKept, LoopStep, Held
  <1>2. \A c \in Claims : ReqKeeps(c) /\ StaffKeeps(c) /\ NoNewMints(c)
    BY DEF LoopStep, ReqKeeps, StaffKeeps, Working, NoNewMints
  <1>3. \A c \in Claims \ (racy \cup shared) : \A i \in Jobs : ResetRight(i, c)'
    BY DEF KeptInv, KeptOn, LoopStep, ResetRight
  <1>4. j \notin Servers \ up
    BY DEF KeptInv, LoopStep, IdleJob
  <1>5. ASSUME \A c \in Claims \ (racy \cup shared) : KeptOn(c)' PROVE KeptInv'
    BY <1>4, <1>5 DEF KeptInv, LoopStep, Jobs
  <1>6. QED
    BY <1>1, <1>2, <1>3, <1>5

LEMMA KeptLoop ==
    ASSUME TypeInv, KeptInv, NEW j \in Jobs, LoopStep(j), UNCHANGED claims PROVE KeptInv'
  <1>1. ASSUME NEW c \in Claims \ (racy \cup shared) PROVE KeptOn(c)'
    BY <1>1, LoopKeeps, KeptFrame DEF KeptInv
  <1>2. QED
    BY <1>1, LoopKeeps

\* A claim that a loop writes: nobody works on it, and only this loop follows it.
LEMMA KeptFollowed ==
    ASSUME TypeInv, KeptInv, NEW j \in Jobs, job[j].at \in {"reset", "finish"},
           NEW c \in Claims \ (racy \cup shared), c = job[j].cur.claim
    PROVE  /\ claims[c].status = "MINTING" /\ claims[c].qrHash = job[j].cur.code
           /\ \A r \in Requests : ~Working(r, c)
           /\ \A d \in Staff : staff[d] # c
           /\ \A i \in Jobs : \A e \in Held(i) : e.claim = c => i = j /\ e = job[j].cur
           /\ \A r \in Requests : \A e \in req[r].found : e.claim # c
  <1>1. job[j].cur \in Held(j) /\ KeptOn(c)
    BY KeptHas DEF KeptInv
  <1>2. claims[c].status = "MINTING" /\ claims[c].qrHash = job[j].cur.code
    BY <1>1 DEF KeptOn, EntriesTrue, EntryTrue
  <1>3. (\A r \in Requests : ~Working(r, c)) /\ \A d \in Staff : staff[d] # c
    BY <1>1, <1>2 DEF KeptOn, WorkerStatus, DeleterOK
  <1>4. QED
    BY <1>1, <1>2, <1>3 DEF KeptOn, HeldOnce


\* The startup scan: a claim that somebody follows already becomes a shared one.
LEMMA KeptScan ==
    ASSUME TypeInv, KeptInv, NEW j \in Jobs, Scan(j) PROVE KeptInv'
  <1>0. job \in [Jobs -> JobType]
    BY TypeParts DEF JobsOK
  <1>1. /\ job[j].at = "scan" /\ job'[j].at \in {"off", "watch"}
        /\ job'[j].entries = {[claim |-> c, code |-> claims[c].qrHash,
                               addr |-> claims[c].mintedAddress] :
                                  c \in {c \in Claims : claims[c].status = "MINTING"}}
        /\ \A i \in Jobs \ {j} : job'[i] = job[i]
        /\ UNCHANGED <<claims, req, mints, lost, racy, staff, up, poap>>
        /\ shared' = shared \cup {c \in Claims : claims[c].status = "MINTING" /\ Followed(c)}
    BY <1>0 DEF Scan, JobType, history, serverVars, codeVars
  <1>2. /\ \A i \in Jobs \ {j} : Held(i)' = Held(i)
        /\ Held(j)' = job'[j].entries
    BY <1>1 DEF Held
  <1>3. \A e \in Held(j)' : /\ e.claim \in Claims /\ claims[e.claim].status = "MINTING"
                            /\ e = [claim |-> e.claim, code |-> claims[e.claim].qrHash,
                                    addr |-> claims[e.claim].mintedAddress]
    BY <1>1, <1>2
  <1>4. ASSUME NEW c \in Claims \ shared', claims[c].status = "MINTING"
        PROVE  /\ \A i \in Jobs : \A e \in Held(i) : e.claim # c
               /\ \A r \in Requests : \A e \in req[r].found : e.claim # c
    <2>1. ~Followed(c)
      BY <1>1, <1>4
    <2>2. \A i \in Jobs : Held(i) \subseteq Tracked(i)
      BY DEF Held, Tracked
    <2>3. QED
      BY <2>1, <2>2 DEF Followed, Follows, Found
  <1>5. ASSUME NEW c \in Claims \ (racy' \cup shared') PROVE KeptOn(c)'
    <2>1. KeptOn(c)
      BY <1>1, <1>5 DEF KeptInv
    <2>2. OneWorker(c)' /\ \A r \in Requests : WorkerStatus(r, c)'
      BY <1>1, <2>1 DEF KeptOn, OneWorker, WorkerStatus, Working
    <2>3. (\A d \in Staff : DeleterOK(d, c)') /\ \A i \in Jobs : ResetRight(i, c)'
      BY <1>1, <2>1 DEF KeptOn, DeleterOK, Working, ResetRight
    <2>4. EntriesTrue(c)'
      <3>1. \A e \in Held(j)' : EntryTrue(e)'
        BY <1>1, <1>3 DEF EntryTrue
      <3>2. QED
        BY <1>1, <1>2, <2>1, <3>1 DEF KeptOn, EntriesTrue, EntryTrue
    <2>5. HeldOnce(c)'
      <3>1. CASE claims[c].status # "MINTING"
        <4>1. \A e \in Held(j)' : e.claim # c
          BY <1>3, <3>1
        <4>2. QED
          BY <1>1, <1>2, <2>1, <4>1 DEF KeptOn, HeldOnce
      <3>2. CASE claims[c].status = "MINTING"
        <4>1. \A i \in Jobs \ {j} : \A e \in Held(i)' : e.claim # c
          BY <1>2, <1>4, <1>5, <3>2
        <4>2. \A r \in Requests : \A e \in req'[r].found : e.claim # c
          BY <1>1, <1>4, <1>5, <3>2
        <4>3. \A e, f \in Held(j)' : e.claim = c /\ f.claim = c => e = f
          BY <1>3
        <4>4. QED
          BY <4>1, <4>2, <4>3 DEF HeldOnce
      <3>3. QED
        BY <3>1, <3>2
    <2>6. KnownMints(c)'
      <3>1. NoNewMints(c) /\ ReqKeeps(c)
        BY <1>1 DEF NoNewMints, ReqKeeps, Working
      <3>2. QED
        BY <1>1, <2>1, <3>1, KnownFrame DEF KeptOn
    <2>7. QED
      BY <1>1, <2>1, <2>2, <2>3, <2>4, <2>5, <2>6 DEF KeptOn
  <1>6. j \notin Servers \ up
    BY <1>1 DEF KeptInv, IdleJob
  <1>7. QED
    BY <1>1, <1>5, <1>6 DEF KeptInv, Jobs

LEMMA KeptReset ==
    ASSUME TypeInv, KeptInv, NEW j \in Jobs, Reset(j) PROVE KeptInv'
  <1>0. job \in [Jobs -> JobType] /\ claims \in [Claims -> ClaimType]
    BY TypeParts DEF JobsOK, RestOK
  <1>1. PICK c \in Claims : c = job[j].cur.claim
    BY KeptHas DEF Reset
  <1>2. UNCHANGED <<req, mints, lost, racy, shared, staff, up, poap>> /\ job[j].at = "reset"
    BY DEF Reset, history, serverVars, codeVars
  <1>3. CASE JobThrows(j) /\ UNCHANGED claims
    <2>1. job'[j] = IdleJob /\ \A i \in Jobs \ {j} : job'[i] = job[i]
      BY <1>0, <1>3 DEF JobThrows
    <2>2. LoopStep(j)
      BY <1>2, <2>1 DEF LoopStep, Held, IdleJob, ResetRight
    <2>3. QED
      BY <1>3, <2>2, KeptLoop
  <1>4. CASE /\ claims' = [claims EXCEPT ![c].status = "UNCLAIMED", ![c].qrHash = NoCode,
                                         ![c].mintedAddress = NoAddress]
             /\ job' = [job EXCEPT ![j].at = "restock"]
    <2>1. /\ job'[j].at = "restock" /\ job'[j].entries = job[j].entries
          /\ job'[j].cur = job[j].cur /\ \A i \in Jobs \ {j} : job'[i] = job[i]
      BY <1>0, <1>4 DEF JobType
    <2>2. Held(j)' = Held(j) \ {job[j].cur}
      BY <1>2, <2>1 DEF Held
    <2>3. LoopStep(j)
      BY <1>2, <2>1, <2>2 DEF LoopStep, ResetRight
    <2>4. /\ claims'[c].status = "UNCLAIMED" /\ claims'[c].qrHash = NoCode
          /\ \A d \in Claims : d # c => claims'[d] = claims[d]
      BY <1>0, <1>4 DEF ClaimType
    <2>5. ASSUME NEW d \in Claims \ (racy \cup shared), d # c PROVE KeptOn(d)'
      BY <2>3, <2>4, <2>5, LoopKeeps, KeptFrame DEF KeptInv
    <2>6. ASSUME c \notin racy \cup shared PROVE KeptOn(c)'
      <3>1. /\ \A r \in Requests : ~Working(r, c)'
            /\ \A d \in Staff : staff'[d] # c
            /\ \A r \in Requests : \A e \in req'[r].found : e.claim # c
        BY <1>1, <1>2, <2>6, KeptFollowed DEF Working
      <3>2. \A i \in Jobs : \A e \in Held(i)' : e.claim # c
        <4>1. \A i \in Jobs : \A e \in Held(i) : e.claim = c => i = j /\ e = job[j].cur
          BY <1>1, <1>2, <2>6, KeptFollowed
        <4>2. \A i \in Jobs : Held(i)' \subseteq Held(i)
          BY <2>3, LoopKeeps DEF EntriesKept
        <4>3. QED
          BY <2>2, <4>1, <4>2
      <3>3. HeldOnce(c)' /\ EntriesTrue(c)'
        BY <3>1, <3>2 DEF HeldOnce, EntriesTrue
      <3>4. /\ OneWorker(c)' /\ \A r \in Requests : WorkerStatus(r, c)'
            /\ \A d \in Staff : DeleterOK(d, c)'
        BY <3>1 DEF OneWorker, WorkerStatus, DeleterOK
      <3>5. KnownMints(c)'
        <4>1. claims[c].status = "MINTING" /\ claims[c].qrHash = job[j].cur.code /\ KeptOn(c)
          BY <1>1, <1>2, <2>6, KeptFollowed DEF KeptInv
        <4>2. mints[c] \subseteq lost \cup {job[j].cur.code} /\ job[j].cur.code \notin mints[c]
          BY <1>1, <1>2, <4>1 DEF KeptOn, KnownMints, ResetRight
        <4>3. QED
          BY <1>2, <2>4, <3>1, <4>2 DEF KnownMints, Reclaimable
      <3>6. QED
        BY <2>3, <2>4, <2>6, <3>3, <3>4, <3>5, LoopKeeps DEF KeptOn
    <2>7. QED
      BY <2>3, <2>5, <2>6, LoopKeeps
  <1>5. QED
    BY <1>1, <1>3, <1>4 DEF Reset

LEMMA KeptFinish ==
    ASSUME TypeInv, KeptInv, NEW j \in Jobs, Finish(j) PROVE KeptInv'
  <1>0. job \in [Jobs -> JobType] /\ claims \in [Claims -> ClaimType]
    BY TypeParts DEF JobsOK, RestOK
  <1>1. PICK c \in Claims : c = job[j].cur.claim
    BY KeptHas DEF Finish
  <1>2. UNCHANGED <<req, mints, lost, racy, shared, staff, up, poap>> /\ job[j].at = "finish"
    BY DEF Finish, history, serverVars, codeVars
  <1>3. job'[j].at \in {"off", "watch"} /\ job'[j].entries \subseteq job[j].entries
    <2>1. CASE Drop(j)
      BY <1>0, <2>1 DEF Drop, IdleJob
    <2>2. CASE JobThrows(j)
      BY <1>0, <2>2 DEF JobThrows, IdleJob
    <2>3. QED
      BY <2>1, <2>2 DEF Finish
  <1>4. \A i \in Jobs \ {j} : job'[i] = job[i]
    BY <1>0 DEF Finish, Drop, JobThrows
  <1>5. LoopStep(j)
    BY <1>2, <1>3, <1>4 DEF LoopStep, Held, ResetRight
  <1>6. CASE UNCHANGED claims
    BY <1>5, <1>6, KeptLoop
  <1>7. CASE claims' = [claims EXCEPT ![c].status = "CLAIMED", ![c].poapTokenId = job[j].token]
    <2>1. /\ claims'[c].status = "CLAIMED" /\ claims'[c].qrHash = claims[c].qrHash
          /\ \A d \in Claims : d # c => claims'[d] = claims[d]
      BY <1>0, <1>7 DEF ClaimType
    <2>2. ASSUME NEW d \in Claims \ (racy \cup shared), d # c PROVE KeptOn(d)'
      BY <1>5, <2>1, <2>2, LoopKeeps, KeptFrame DEF KeptInv
    <2>3. ASSUME c \notin racy \cup shared PROVE KeptOn(c)'
      <3>1. (\A r \in Requests : ~Working(r, c)') /\ \A d \in Staff : staff'[d] # c
        BY <1>1, <1>2, <2>3, KeptFollowed DEF Working
      <3>2. /\ \A i \in Jobs : \A e \in Held(i)' : e.claim # c
            /\ \A r \in Requests : \A e \in req'[r].found : e.claim # c
        <4>1. /\ \A i \in Jobs : \A e \in Held(i) : e.claim = c => i = j /\ e = job[j].cur
              /\ \A r \in Requests : \A e \in req[r].found : e.claim # c
          BY <1>1, <1>2, <2>3, KeptFollowed
        <4>2. job[j].cur \notin Held(j)'
          <5>1. claims[c].status = "MINTING"
            BY <1>1, <1>2, <2>3, KeptFollowed
          <5>2. Drop(j)
            BY <1>1, <2>1, <5>1 DEF Finish
          <5>3. job'[j].entries = job[j].entries \ {job[j].cur}
            BY <1>0, <5>2 DEF Drop, IdleJob
          <5>4. QED
            BY <1>3, <5>3 DEF Held
        <4>3. \A i \in Jobs : Held(i)' \subseteq Held(i)
          BY <1>5, LoopKeeps DEF EntriesKept
        <4>4. QED
          BY <1>2, <4>1, <4>2, <4>3
      <3>3. HeldOnce(c)' /\ EntriesTrue(c)'
        BY <3>2 DEF HeldOnce, EntriesTrue
      <3>4. KnownMints(c)'
        BY <2>1, <3>1 DEF KnownMints, Reclaimable
      <3>5. /\ OneWorker(c)' /\ \A r \in Requests : WorkerStatus(r, c)'
            /\ \A d \in Staff : DeleterOK(d, c)'
        BY <3>1 DEF OneWorker, WorkerStatus, DeleterOK
      <3>6. QED
        BY <1>5, <2>1, <2>3, <3>3, <3>4, <3>5, LoopKeeps DEF KeptOn
    <2>4. QED
      BY <1>5, <2>2, <2>3, LoopKeeps
  <1>8. QED
    BY <1>1, <1>6, <1>7 DEF Finish


LEMMA KeptJobs ==
    ASSUME TypeInv, KeptInv, NEW j \in Jobs, JobStep(j) PROVE KeptInv'
  <1>0. job \in [Jobs -> JobType] /\ mints \in [Claims -> SUBSET Codes]
    BY TypeParts DEF JobsOK, RestOK
  <1>1. CASE Watch(j)
    <2>1. PICK e \in job[j].entries :
             \/ job' = [job EXCEPT ![j].entries = @ \ {e},
                                   ![j].at = IF job[j].entries = {e} THEN "off" ELSE "watch"]
             \/ /\ poap[e.code] = "free"
                /\ job' = [job EXCEPT ![j].at = "reset", ![j].cur = e]
             \/ job' = [job EXCEPT ![j].at = "lookup", ![j].cur = e]
             \/ JobThrows(j)
      BY <1>1 DEF Watch
    <2>2. \/ job'[j].at \in {"off", "watch"} /\ job'[j].entries \subseteq job[j].entries
          \/ /\ job'[j].at \in {"reset", "lookup"} /\ job'[j].entries = job[j].entries
             /\ job'[j].cur = e /\ (job'[j].at = "reset" => poap[e.code] = "free")
      BY <1>0, <2>1 DEF JobType, JobThrows, IdleJob
    <2>3. \A i \in Jobs \ {j} : job'[i] = job[i]
      BY <1>0, <2>1 DEF JobThrows
    <2>4. /\ UNCHANGED <<claims, req, mints, lost, racy, shared, staff, up, poap>>
          /\ job[j].at = "watch"
      BY <1>1 DEF Watch, history, serverVars, codeVars
    <2>5. Held(j)' \subseteq Held(j)
      BY <2>2, <2>4 DEF Held
    <2>6. \A c \in Claims \ (racy \cup shared) : ResetRight(j, c)'
      BY <2>2, <2>4 DEF ResetRight, KeptInv, Accepted
    <2>7. QED
      BY <2>2, <2>3, <2>4, <2>5, <2>6, KeptLoop DEF LoopStep
  <1>2. CASE Restock(j)
    <2>1. /\ job'[j].at \in {"off", "watch"} /\ job'[j].entries = job[j].entries \ {job[j].cur}
          /\ \A i \in Jobs \ {j} : job'[i] = job[i]
          /\ job[j].at = "restock"
      BY <1>0, <1>2 DEF Restock, Drop, IdleJob
    <2>2. UNCHANGED <<claims, req, mints, lost, racy, shared, staff, up, poap>>
      BY <1>2 DEF Restock, history, serverVars
    <2>3. Held(j)' = Held(j)
      BY <2>1 DEF Held
    <2>4. QED
      BY <2>1, <2>2, <2>3, KeptLoop DEF LoopStep, ResetRight
  <1>3. CASE Lookup(j)
    <2>1. \/ /\ job'[j].entries = job[j].entries
             /\ \/ job'[j].at = "finish" /\ job'[j].cur = job[j].cur
                \/ job'[j].at = "watch"
          \/ job'[j].entries = {} /\ job'[j].at = "off"
      <3>1. CASE JobThrows(j)
        BY <1>0, <3>1 DEF JobThrows, IdleJob
      <3>2. CASE ~JobThrows(j)
        BY <1>0, <1>3, <3>2 DEF Lookup, JobType
      <3>3. QED
        BY <3>1, <3>2
    <2>3. \A i \in Jobs \ {j} : job'[i] = job[i]
      BY <1>0, <1>3 DEF Lookup, JobThrows
    <2>4. /\ UNCHANGED <<claims, req, mints, lost, racy, shared, staff, up, poap>>
          /\ job[j].at = "lookup" /\ job[j].cur \in job[j].entries
      BY <1>3 DEF Lookup, history, serverVars, codeVars, KeptInv
    <2>5. Held(j)' \subseteq Held(j)
      BY <2>1, <2>4 DEF Held
    <2>6. QED
      BY <2>1, <2>3, <2>4, <2>5, KeptLoop DEF LoopStep, ResetRight
  <1>4. QED
    BY <1>1, <1>2, <1>3, KeptScan, KeptReset, KeptFinish DEF JobStep

\* Steps that leave the claims as they are, and of the handlers and loops end some.
LEMMA KeptEnds ==
    ASSUME TypeInv, KeptInv, UNCHANGED <<claims, racy, shared, staff>>,
           \A c \in Claims : /\ mints'[c] \subseteq mints[c]
                             /\ mints'[c] \ lost' \subseteq mints[c] \ lost
                             /\ \A k \in mints'[c] : poap'[k] \in Accepted,
           \A r \in Requests : req'[r] = req[r] \/ (req'[r].at = "dead" /\ req'[r].found = {}),
           \A j \in Jobs : \/ job'[j] = job[j]
                           \/ job'[j] = IdleJob
                           \/ job[j] = IdleJob /\ job'[j] = [IdleJob EXCEPT !.at = "scan"],
           \A s \in Servers \ up' : job'[s] = IdleJob
    PROVE  KeptInv'
  <1>1. \A j \in Jobs : /\ Held(j)' \subseteq Held(j)
                        /\ (job'[j] = job[j] \/ job'[j].at \in {"off", "scan"})
    BY DEF Held, IdleJob
  <1>2. EntriesKept
    BY <1>1 DEF EntriesKept
  <1>3. \A c \in Claims : ReqKeeps(c) /\ StaffKeeps(c) /\ NoNewMints(c)
    BY DEF ReqKeeps, StaffKeeps, NoNewMints, Working, WorkSteps
  <1>4. ASSUME NEW c \in Claims \ (racy \cup shared) PROVE KeptOn(c)'
    <2>1. \A j \in Jobs : ResetRight(j, c)'
      BY <1>1, <1>4 DEF KeptInv, KeptOn, ResetRight
    <2>2. QED
      BY <1>2, <1>3, <1>4, <2>1, KeptFrame DEF KeptInv
  <1>5. \A j \in Jobs :
           job'[j].at \in {"reset", "lookup", "finish"} => job'[j].cur \in job'[j].entries
    BY <1>1 DEF KeptInv
  <1>6. QED
    BY <1>4, <1>5 DEF KeptInv

LEMMA KeptStaff ==
    ASSUME TypeInv, KeptInv, NEW d \in Staff, CheckDeletable(d) \/ DeleteClaim(d) PROVE KeptInv'
  <1>0. staff \in [Staff -> Claims \cup {NoClaim}] /\ claims \in [Claims -> ClaimType]
    BY TypeParts DEF RestOK
  <1>1. UNCHANGED <<mints, lost, shared, req, job, up, poap>>
    BY DEF CheckDeletable, DeleteClaim, history, serverVars, codeVars
  <1>2. EntriesKept
    BY <1>1 DEF EntriesKept, Held
  <1>3. \A c \in Claims : ReqKeeps(c) /\ NoNewMints(c)
    BY <1>1 DEF ReqKeeps, NoNewMints, Working
  <1>4. \A c \in Claims \ (racy \cup shared) : \A j \in Jobs : ResetRight(j, c)'
    BY <1>1 DEF KeptInv, KeptOn, ResetRight
  <1>5. ASSUME \A c \in Claims \ (racy' \cup shared') : KeptOn(c)' PROVE KeptInv'
    BY <1>1, <1>5 DEF KeptInv
  <1>6. CASE CheckDeletable(d)
    <2>1. PICK c \in Claims : /\ claims[c].status = "UNCLAIMED"
                              /\ staff' = [staff EXCEPT ![d] = c]
                              /\ racy' = IF Busy(c) THEN racy \cup {c} ELSE racy
      BY <1>6 DEF CheckDeletable
    <2>2. UNCHANGED claims
      BY <1>6 DEF CheckDeletable
    <2>3. ASSUME NEW b \in Claims \ (racy' \cup shared'), b # c PROVE KeptOn(b)'
      <3>1. StaffKeeps(b) /\ b \notin racy \cup shared
        BY <1>0, <1>1, <2>1, <2>3 DEF StaffKeeps
      <3>2. QED
        BY <1>2, <1>3, <1>4, <2>2, <3>1, KeptFrame DEF KeptInv
    <2>4. ASSUME c \notin racy' \cup shared' PROVE KeptOn(c)'
      <3>1. c \notin racy \cup shared /\ ~Busy(c)
        BY <1>1, <2>1, <2>4
      <3>2. \A r \in Requests : ~Working(r, c)
        BY <3>1 DEF Busy, Working
      <3>3. /\ OneWorker(c)' /\ \A r \in Requests : WorkerStatus(r, c)'
            /\ \A e \in Staff : DeleterOK(e, c)'
        BY <1>1, <2>1, <2>2, <3>2 DEF OneWorker, WorkerStatus, DeleterOK, Working
      <3>4. HeldOnce(c)' /\ EntriesTrue(c)'
        BY <1>2, <2>2, <3>1 DEF KeptInv, KeptOn, HeldOnce, EntriesTrue, EntryTrue, EntriesKept
      <3>5. KnownMints(c)'
        BY <1>3, <2>2, <3>1, KnownFrame DEF KeptInv, KeptOn
      <3>6. QED
        BY <1>4, <2>2, <3>1, <3>3, <3>4, <3>5 DEF KeptOn, KeptInv
    <2>5. QED
      BY <1>5, <2>3, <2>4
  <1>7. CASE DeleteClaim(d)
    <2>1. PICK c \in Claims : c = staff[d]
      BY <1>0, <1>7 DEF DeleteClaim
    <2>2. /\ claims'[c].status = "DELETED" /\ \A b \in Claims : b # c => claims'[b] = claims[b]
          /\ UNCHANGED <<racy, shared>> /\ \A b \in Claims : StaffKeeps(b)
      BY <1>0, <1>7, <2>1, ClaimMintingAssumption DEF DeleteClaim, NewClaim, StaffKeeps, history
    <2>3. ASSUME NEW b \in Claims \ (racy \cup shared), b # c PROVE KeptOn(b)'
      BY <1>2, <1>3, <1>4, <2>2, <2>3, KeptFrame DEF KeptInv
    <2>4. ASSUME c \notin racy \cup shared PROVE KeptOn(c)'
      <3>1. claims[c].status \in {"UNCLAIMED", "DELETED"} /\ \A r \in Requests : ~Working(r, c)
        BY <2>1, <2>4 DEF KeptInv, KeptOn, DeleterOK
      <3>2. /\ OneWorker(c)' /\ \A r \in Requests : WorkerStatus(r, c)'
            /\ \A e \in Staff : DeleterOK(e, c)'
        BY <1>1, <2>2, <3>1 DEF OneWorker, WorkerStatus, DeleterOK, Working
      <3>3. (\A j \in Jobs : \A e \in Held(j) : e.claim # c)
            /\ \A r \in Requests : \A e \in req[r].found : e.claim # c
        BY <2>4, <3>1, NobodyHolds
      <3>4. HeldOnce(c)' /\ EntriesTrue(c)'
        BY <1>2, <3>3 DEF HeldOnce, EntriesTrue, EntriesKept
      <3>5. KnownMints(c)'
        BY <1>1, <2>2, <3>1 DEF KnownMints, Reclaimable, Working
      <3>6. QED
        BY <1>4, <2>2, <2>4, <3>2, <3>4, <3>5 DEF KeptOn
    <2>5. QED
      BY <1>5, <2>2, <2>3, <2>4
  <1>8. QED
    BY <1>6, <1>7

LEMMA KeptEnvironment ==
    ASSUME TypeInv, KeptInv,
           \/ \E k \in Codes : POAPStep(k) \/ POAPForget(k)
           \/ \E s \in Servers : Crash(s) \/ Boot(s)
           \/ UNCHANGED vars
    PROVE  KeptInv'
  <1>0. /\ poap \in [Codes -> POAPStates] /\ mints \in [Claims -> SUBSET Codes]
        /\ job \in [Jobs -> JobType] /\ up \subseteq Servers
    BY TypeParts DEF CodesTypeOK, RestOK, JobsOK
  <1>1. CASE \E k \in Codes : POAPStep(k)
    <2>1. \A k \in Codes : poap[k] \in Accepted => poap'[k] \in Accepted
      BY <1>0, <1>1 DEF POAPStep, POAPIssue, Accepted
    <2>2. UNCHANGED <<claims, mints, lost, racy, shared, staff, req, job, up>>
      BY <1>1 DEF POAPStep, history, serverVars
    <2>3. QED
      BY <1>0, <2>1, <2>2, KeptEnds DEF KeptInv
  <1>2. CASE \E k \in Codes : POAPForget(k)
    <2>1. PICK k \in Codes : POAPForget(k)
      BY <1>2
    <2>2. lost' = lost \ {k} /\ \A c \in Claims : mints'[c] = mints[c] \ {k}
      BY <2>1 DEF POAPForget
    <2>3. \A l \in Codes : l # k => poap'[l] = poap[l]
      BY <1>0, <2>1 DEF POAPForget
    <2>4. UNCHANGED <<claims, racy, shared, staff, req, job, up>>
      BY <2>1 DEF POAPForget, serverVars
    <2>5. \A c \in Claims : /\ mints'[c] \subseteq mints[c]
                            /\ mints'[c] \ lost' \subseteq mints[c] \ lost
                            /\ \A l \in mints'[c] : poap'[l] \in Accepted
      BY <1>0, <2>2, <2>3 DEF KeptInv
    <2>6. QED
      BY <2>4, <2>5, KeptEnds DEF KeptInv
  <1>3. CASE \E s \in Servers : Crash(s)
    <2>1. PICK s \in Servers : Crash(s)
      BY <1>3
    <2>2. \A r \in Requests : req'[r] = req[r] \/ (req'[r].at = "dead" /\ req'[r].found = {})
      BY <2>1 DEF Crash, IdleRequest
    <2>3. \A j \in Jobs : job'[j] = IF Host(j) = s THEN IdleJob ELSE job[j]
      BY <2>1 DEF Crash
    <2>4. UNCHANGED <<claims, racy, shared, staff, mints, lost, poap>> /\ up' = up \ {s}
      BY <2>1 DEF Crash, history
    <2>5. \A i \in Servers \ up' : job'[i] = IdleJob
      BY <2>3, <2>4 DEF Jobs, Host, KeptInv
    <2>6. \A j \in Jobs : job'[j] = job[j] \/ job'[j] = IdleJob
      BY <2>3
    <2>7. QED
      BY <2>2, <2>4, <2>5, <2>6, KeptEnds DEF KeptInv
  <1>4. CASE \E s \in Servers : Boot(s)
    <2>1. PICK s \in Servers : Boot(s)
      BY <1>4
    <2>2. s \in Jobs /\ job[s] = IdleJob
      BY <2>1 DEF Jobs, Boot, KeptInv
    <2>3. \A j \in Jobs : \/ job'[j] = job[j]
                          \/ job[j] = IdleJob /\ job'[j] = [IdleJob EXCEPT !.at = "scan"]
      BY <1>0, <2>1, <2>2 DEF Boot
    <2>4. UNCHANGED <<claims, racy, shared, staff, mints, lost, poap, req>> /\ up' = up \cup {s}
      BY <2>1 DEF Boot, history, codeVars
    <2>5. \A i \in Servers \ up' : job'[i] = IdleJob
      BY <1>0, <2>1, <2>4 DEF Jobs, Boot, KeptInv
    <2>6. QED
      BY <2>3, <2>4, <2>5, KeptEnds DEF KeptInv
  <1>5. CASE UNCHANGED vars
    BY <1>5, KeptEnds DEF vars, history, serverVars, codeVars, KeptInv
  <1>6. QED
    BY <1>1, <1>2, <1>3, <1>4, <1>5

LEMMA KeptRequests ==
    ASSUME TypeInv, KeptInv, NEW r \in Requests, Submit(r) \/ RequestStep(r) PROVE KeptInv'
  <1>1. CASE Writes(r)
    BY <1>1, KeptReadClaim, KeptWrites, KeptRespond DEF Writes
  <1>2. CASE ~Writes(r)
    <2>1. NormalMove(r) /\ UNCHANGED <<claims, mints, lost, racy, shared, staff, job>>
      BY <1>2, UsualIsNormal
    <2>2. \A p \in Requests : req'[p].found \subseteq req[p].found
      BY <2>1 DEF NormalMove
    <2>3. UNCHANGED up /\ \A k \in Codes : poap[k] \in Accepted => poap'[k] \in Accepted
      <3>1. UNCHANGED <<up, poap>>
        <4>1. CASE CheckCodes(r)
          BY <4>1 DEF CheckCodes, CheckStep, CheckCount, CheckFetch, CheckFetchFails, CheckFind,
                      CheckDelete, CheckUpsert, CheckRecount, serverVars
        <4>2. CASE ~CheckCodes(r)
          BY <1>2, <4>2 DEF Submit, RequestStep, Writes, Choose, Verify, Discard, CheckEnds,
                            Rechoose, Take, FetchSecret, Restore, serverVars, codeVars
        <4>3. QED
          BY <4>1, <4>2
      <3>2. QED
        BY <3>1
    <2>4. QED
      BY <2>1, <2>2, <2>3, NormalKeeps, KeptQuiet
  <1>3. QED
    BY <1>1, <1>2


LEMMA KeptStart == Init => KeptInv
  BY DEF Init, KeptInv, KeptOn, OneWorker, HeldOnce, EntriesTrue, KnownMints, Reclaimable,
         WorkerStatus, DeleterOK, ResetRight, Working, Held, NewClaim, IdleRequest, IdleJob, Jobs,
         WorkSteps

LEMMA KeptStep == TypeInv /\ KeptInv /\ [ForgetfulNext]_vars => KeptInv'
  BY KeptRequests, KeptJobs, KeptStaff, KeptEnvironment DEF ForgetfulNext, Next

\* What the startup scans of several servers and POAP's forgetting leave of a claim.
THEOREM KeptHolds == ForgetfulSpec => [](TypeInv /\ KeptInv)
  BY TypeCorrect, KeptStart, KeptStep, PTL DEF ForgetfulSpec

\* What KeptInv says of a step: the code of a mint that POAP still holds stays.
LEMMA KeptCodes ==
    ASSUME TypeInv, KeptInv, [ForgetfulNext]_vars, NEW c \in Claims \ (racy \cup shared),
           claims[c].qrHash \in mints[c], claims'[c].status # "DELETED"
    PROVE  claims'[c].qrHash = claims[c].qrHash
  <1>0. /\ claims \in [Claims -> ClaimType] /\ mints \in [Claims -> SUBSET Codes]
        /\ KeptOn(c) /\ claims[c].qrHash # NoCode
    BY TypeParts, CodesAssumption DEF RestOK, KeptInv
  <1>1. UNCHANGED claims => claims'[c].qrHash = claims[c].qrHash
    OBVIOUS
  <1>2. ASSUME NEW r \in Requests, Submit(r) \/ RequestStep(r)
        PROVE  claims'[c].qrHash = claims[c].qrHash
    <2>1. CASE Mint(r)
      <3>1. Working(r, c) => claims[c].status = "PENDING"
        BY <1>0, <2>1 DEF KeptOn, WorkerStatus, Mint, Pledged
      <3>2. Working(r, c) <=> req[r].claim = c
        BY <2>1 DEF Working, Mint, WorkSteps
      <3>3. req[r].claim # c
        BY <1>0, <3>1, <3>2 DEF KeptOn
      <3>4. QED
        BY <1>0, <2>1, <3>3 DEF Mint
    <2>2. CASE Pend(r) \/ Unpend(r)
      BY <1>0, <2>2 DEF Pend, Unpend, ClaimType
    <2>3. CASE ~(Mint(r) \/ Pend(r) \/ Unpend(r))
      BY <1>1, <1>2, <2>3, UsualIsNormal DEF Writes, ReadClaim, Redeem, Respond
    <2>4. QED
      BY <2>1, <2>2, <2>3
  <1>3. ASSUME NEW j \in Jobs, JobStep(j) PROVE claims'[c].qrHash = claims[c].qrHash
    <2>1. CASE Reset(j)
      <3>1. job[j].cur \in Held(j) /\ job[j].at = "reset"
        BY <2>1, KeptHas DEF Reset
      <3>2. job[j].cur.claim = c => claims[c].qrHash \notin mints[c]
        BY <1>0, <3>1 DEF KeptOn, EntriesTrue, EntryTrue, ResetRight
      <3>3. QED
        BY <1>0, <2>1, <3>2 DEF Reset
    <2>2. CASE Finish(j)
      BY <1>0, <2>2 DEF Finish, ClaimType
    <2>3. CASE ~(Reset(j) \/ Finish(j))
      BY <1>1, <1>3, <2>3 DEF JobStep, Scan, Watch, Restock, Lookup
    <2>4. QED
      BY <2>1, <2>2, <2>3
  <1>4. ASSUME NEW d \in Staff, CheckDeletable(d) \/ DeleteClaim(d)
        PROVE  claims'[c].qrHash = claims[c].qrHash
    BY <1>0, <1>4 DEF CheckDeletable, DeleteClaim, NewClaim
  <1>5. CASE \/ \E k \in Codes : POAPStep(k) \/ POAPForget(k)
             \/ \E s \in Servers : Crash(s) \/ Boot(s)
             \/ UNCHANGED vars
    BY <1>1, <1>5 DEF POAPStep, POAPForget, Crash, Boot, vars
  <1>6. QED
    BY <1>2, <1>3, <1>4, <1>5 DEF ForgetfulNext, Next

\* A step that lets two handlers or two loops meet writes nothing.
LEMMA MeetingsWriteNothing ==
    ASSUME TypeInv, [ForgetfulNext]_vars
    PROVE  UNCHANGED <<racy, shared>> \/ UNCHANGED <<claims, mints, lost>>
  <1> DEFINE Apart == UNCHANGED <<racy, shared>> \/ UNCHANGED <<claims, mints, lost>>
  <1>1. ASSUME NEW r \in Requests, Submit(r) \/ RequestStep(r) PROVE Apart
    <2>1. CASE ~Writes(r)
      BY <1>1, <2>1, UsualIsNormal
    <2>2. CASE Writes(r)
      BY <2>2 DEF Writes, ReadClaim, Redeem, Mint, Pend, Unpend, Respond, history
    <2>3. QED
      BY <2>1, <2>2
  <1>2. ASSUME NEW j \in Jobs, JobStep(j) PROVE Apart
    BY <1>2 DEF JobStep, Scan, Watch, Reset, Restock, Lookup, Finish, history
  <1>3. ASSUME NEW d \in Staff, CheckDeletable(d) \/ DeleteClaim(d) PROVE Apart
    BY <1>3 DEF CheckDeletable, DeleteClaim, history
  <1>4. CASE \/ \E k \in Codes : POAPStep(k) \/ POAPForget(k)
             \/ \E s \in Servers : Crash(s) \/ Boot(s)
             \/ UNCHANGED vars
    BY <1>4 DEF POAPStep, POAPForget, Crash, Boot, vars, history
  <1>5. QED
    BY <1>1, <1>2, <1>3, <1>4 DEF ForgetfulNext, Next

\* Through crashes, startup scans on any number of servers and a POAP service that forgets
\* redemptions, a claim keeps the code of a mint that POAP holds and is not offered again,
\* unless two handlers worked on it or two loops took it up: post-processing gives back
\* only what POAP has really forgotten.
THEOREM MintsKept == ForgetfulSpec => MintsAreKept
  <1>1. ASSUME TypeInv, KeptInv, KeptInv', [ForgetfulNext]_vars,
               NEW c \in Claims \ (racy \cup shared)
        PROVE  MintKept(c) /\ Reclaimable(c)'
    <2>1. MintKept(c)
      BY <1>1, KeptCodes DEF MintKept
    <2>2. Reclaimable(c)'
      <3>1. CASE UNCHANGED <<racy, shared>>
        BY <1>1, <3>1 DEF KeptInv, KeptOn, KnownMints
      <3>2. CASE UNCHANGED <<claims, mints, lost>>
        BY <1>1, <3>2 DEF KeptInv, KeptOn, KnownMints, Reclaimable
      <3>3. QED
        BY <1>1, <3>1, <3>2, MeetingsWriteNothing
    <2>3. QED
      BY <2>1, <2>2
  <1>2. TypeInv /\ KeptInv /\ KeptInv' /\ [ForgetfulNext]_vars =>
            [\A c \in Claims \ (racy \cup shared) : MintKept(c) /\ Reclaimable(c)']_vars
    BY <1>1
  <1>3. QED
    BY <1>2, KeptHolds, PTL DEF ForgetfulSpec, MintsAreKept

-----------------------------------------------------------------------------
(* ClaimedStays, from WorkInv and KeptInv.                                 *)

\* A loop that finishes a claim does not find it CLAIMED, unless another took it up too.
LEMMA TokenStays ==
    ASSUME TypeInv, BackingInv, WorkInv, KeptInv, [Next]_vars,
           NEW c \in Claims \ (racy \cup shared), claims[c].status = "CLAIMED"
    PROVE  claims'[c].poapTokenId = claims[c].poapTokenId
  <1>0. claims \in [Claims -> ClaimType]
    BY TypeParts DEF RestOK
  <1>1. claims'[c] = claims[c] => claims'[c].poapTokenId = claims[c].poapTokenId
    OBVIOUS
  <1>2. ASSUME NEW r \in Requests, Submit(r) \/ RequestStep(r)
        PROVE  claims'[c].poapTokenId = claims[c].poapTokenId
    <2>1. CASE ~Writes(r)
      BY <1>1, <1>2, <2>1, UsualIsNormal
    <2>2. CASE ReadClaim(r) \/ Respond(r) \/ Redeem(r)
      BY <1>1, <2>2 DEF ReadClaim, Respond, Redeem
    <2>3. CASE Pend(r) \/ Unpend(r) \/ Mint(r)
      <3>1. claims'[c] # claims[c] => Working(r, c)
        BY <1>0, <2>3 DEF Pend, Unpend, Mint, Working, WorkSteps
      <3>2. Working(r, c) => claims[c].status # "CLAIMED"
        BY WorkerAlone
      <3>3. QED
        BY <1>1, <3>1, <3>2
    <2>4. QED
      BY <2>1, <2>2, <2>3 DEF Writes
  <1>3. ASSUME NEW j \in Jobs, JobStep(j)
        PROVE  claims'[c].poapTokenId = claims[c].poapTokenId
    <2>1. CASE Finish(j)
      <3>1. job[j].cur.claim # c
        BY <2>1, NobodyHolds DEF Finish
      <3>2. QED
        BY <1>0, <1>1, <2>1, <3>1 DEF Finish
    <2>2. CASE Reset(j) \/ Restock(j)
      BY <2>2, BackedHas DEF Reset, Restock, BackedJob
    <2>3. CASE Scan(j) \/ Watch(j) \/ Lookup(j)
      BY <1>1, <2>3 DEF Scan, Watch, Lookup
    <2>4. QED
      BY <1>3, <2>1, <2>2, <2>3 DEF JobStep
  <1>4. ASSUME NEW d \in Staff, CheckDeletable(d) \/ DeleteClaim(d)
        PROVE  claims'[c].poapTokenId = claims[c].poapTokenId
    <2>1. staff[d] = c => claims[c].status # "CLAIMED"
      BY DEF WorkInv, WorkOn, DeleterOK
    <2>2. QED
      BY <1>0, <1>1, <1>4, <2>1 DEF CheckDeletable, DeleteClaim
  <1>5. CASE \/ \E k \in Codes : POAPStep(k)
             \/ \E s \in Servers : Crash(s) \/ Boot(s)
             \/ UNCHANGED vars
    BY <1>1, <1>5 DEF POAPStep, Crash, Boot, vars
  <1>6. QED
    BY <1>2, <1>3, <1>4, <1>5 DEF Next

\* A claim is never taken out of CLAIMED, nor given another code, unless two handlers
\* worked on it at once, nor another token, unless two loops took it up.
THEOREM ClaimedClaimsStay == Spec => ClaimedStays
  <1> DEFINE Stays(c) == claims[c].status = "CLAIMED" =>
                 /\ claims'[c].status = "CLAIMED"
                 /\ claims'[c].qrHash = claims[c].qrHash
                 /\ c \notin shared => claims'[c].poapTokenId = claims[c].poapTokenId
  <1>1. ASSUME TypeInv, BackingInv, WorkInv, KeptInv, [Next]_vars, NEW c \in Claims \ racy
        PROVE  Stays(c)
    BY <1>1, ClaimedStep, TokenStays
  <1>2. TypeInv /\ BackingInv /\ WorkInv /\ KeptInv /\ [Next]_vars =>
            [\A c \in Claims \ racy : Stays(c)]_vars
    BY <1>1
  <1>3. [Next]_vars => [ForgetfulNext]_vars
    BY DEF ForgetfulNext
  <1>4. QED
    BY <1>2, <1>3, WorkHolds, KeptHolds, PTL DEF Spec, ForgetfulSpec, ClaimedStays
=============================================================================
