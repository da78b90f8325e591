---------------------------- MODULE ClaimMinting ----------------------------
(***************************************************************************)
(* Minting the claims of one enabled GitPOAP: the POST /claims handler     *)
(* (routes/claims.ts), its background post-processing and the startup scan *)
(* (lib/claims.ts), and the DELETE /claims/:id handler, on several server  *)
(* instances that share the database.  Every await is a step of its own.   *)
(*                                                                         *)
(* A throw inside a handler ends that handler ("threw"); a crash or        *)
(* restart ends everything its server instance was running ("dead").       *)
(***************************************************************************)
EXTENDS RedeemCodes, Sequences

CONSTANTS Claims, Addresses,
          Servers,     \* the backend instances
          Requests,    \* POST /claims requests
          Staff,       \* DELETE /claims/:id requests
          Owners,      \* Owners[c]: the addresses whose user owns claim c
          Batches,     \* the claimIds lists that requests may carry
          CrashLimit,  \* bound: how many times a server may crash
          NoAddress, NoClaim, NoServer

Jobs == Requests \cup Servers  \* post-processing: of a request, of a startup

ASSUME ClaimMintingAssumption ==
    /\ Checkers = Requests
    /\ Requests \cap Servers = {}
    /\ NoAddress \notin Addresses /\ NoClaim \notin Claims /\ NoServer \notin Servers
    /\ Owners \in [Claims -> SUBSET Addresses]
    /\ Batches \subseteq Seq(Claims)
    /\ CrashLimit \in Nat

VARIABLES claims,     \* the Claim rows
          poapOwner,  \* the address each accepted code was redeemed for
          up, crashes,
          req,        \* the POST handlers
          job,        \* the post-processing loops
          staff,      \* the claim a DELETE handler is about to delete
          mints,      \* history: the codes POAP accepted for each claim
          lost,       \* history: accepted codes whose reply was lost
          racy,       \* history: claims that two handlers worked on at once
          shared      \* history: claims that two post-processing loops took up

serverVars == <<up, crashes>>
history == <<mints, lost, racy, shared>>
vars == <<codeVars, claims, poapOwner, serverVars, req, job, staff, history>>

NewClaim == [status |-> "UNCLAIMED", qrHash |-> NoCode, mintedAddress |-> NoAddress,
             poapTokenId |-> NoCode]
IdleRequest == [at |-> "idle", host |-> NoServer, addr |-> NoAddress, todo |-> <<>>,
                claim |-> NoClaim, row |-> NoRow, found |-> {}]
NoEntry == [claim |-> NoClaim, code |-> NoCode, addr |-> NoAddress]
IdleJob == [at |-> "off", entries |-> {}, cur |-> NoEntry, token |-> NoCode]

Entry == [claim : Claims, code : Codes \cup {NoCode}, addr : Addresses \cup {NoAddress}]
Statuses == {"UNCLAIMED", "PENDING", "MINTING", "CLAIMED", "DELETED"}
\* Between reading a claim UNCLAIMED and the request's last write to it.
WorkSteps == {"choose", "verify", "discard", "check", "rechoose", "take", "pend",
              "redeem", "post", "mint", "restore", "unpend"}
\* Once the claim is PENDING.
Pledged == {"redeem", "post", "mint", "restore", "unpend"}
RequestSteps == {"idle", "next"} \cup WorkSteps \cup {"done", "threw", "dead"}

ClaimType == [status : Statuses, qrHash : Codes \cup {NoCode},
              mintedAddress : Addresses \cup {NoAddress},
              poapTokenId : Codes \cup {NoCode}]
Lists == Seq(Claims)
ReqType == [at : RequestSteps, host : Servers \cup {NoServer},
            addr : Addresses \cup {NoAddress}, todo : Lists,
            claim : Claims \cup {NoClaim},
            row : Rows \cup {NoRow}, found : SUBSET Entry]
JobType == [at : {"off", "scan", "watch", "reset", "restock", "lookup", "finish"},
            entries : SUBSET Entry, cur : Entry \cup {NoEntry},
            token : Codes \cup {NoCode}]

TypeOK ==
    /\ CodesTypeOK
    /\ claims \in [Claims -> ClaimType]
    /\ poapOwner \in [Codes -> Addresses \cup {NoAddress}]
    /\ up \subseteq Servers
    /\ crashes \in 0 .. CrashLimit
    /\ req \in [Requests -> ReqType]
    /\ job \in [Jobs -> JobType]
    /\ staff \in [Staff -> Claims \cup {NoClaim}]
    /\ mints \in [Claims -> SUBSET Codes]
    /\ lost \subseteq Codes
    /\ racy \subseteq Claims /\ shared \subseteq Claims

\* What a handler or job has in hand at each of its steps.
CodeSteps == {"verify", "discard", "take", "pend"} \cup Pledged
RequestOK(q) ==
    /\ q.at \in WorkSteps => q.todo # <<>> /\ q.claim \in Claims
    /\ q.at \in WorkSteps \cup {"next"} => q.addr \in Addresses
    /\ q.at \in CodeSteps => q.row \in Rows
JobOK(g) ==
    /\ g.at \in {"reset", "restock", "lookup", "finish"} =>
          g.cur.claim \in Claims /\ g.cur.code \in Codes /\ g.cur.addr \in Addresses
    /\ g.at = "finish" => g.token \in Codes
HandlerInv ==
    /\ \A r \in Requests : RequestOK(req[r])
    /\ \A j \in Jobs : JobOK(job[j])

Init ==
    /\ CodesInit
    /\ claims = [c \in Claims |-> NewClaim]
    /\ poapOwner = [k \in Codes |-> NoAddress]
    /\ up = Servers
    /\ crashes = 0
    /\ req = [r \in Requests |-> IdleRequest]
    /\ job = [j \in Jobs |-> IdleJob]
    /\ staff = [d \in Staff |-> NoClaim]
    /\ mints = [c \in Claims |-> {}]
    /\ lost = {}
    /\ racy = {} /\ shared = {}

-----------------------------------------------------------------------------
(* The POST /claims handler.                                               *)

Code(r) == req[r].row[1]
Busy(c) ==
    \/ \E r \in Requests : req[r].at \in WorkSteps /\ req[r].claim = c
    \/ \E d \in Staff : staff[d] = c

Goto(r, step) == req' = [req EXCEPT ![r].at = step]
\* continue: the loop over claimIds moves on.
SkipClaim(r) == req' = [req EXCEPT ![r].at = "next", ![r].todo = Tail(@),
                                   ![r].claim = NoClaim, ![r].row = NoRow]
\* An exception leaves the handler, also the post-processing of earlier claims.
Throw(r) == req' = [req EXCEPT ![r] = [IdleRequest EXCEPT !.at = "threw"]]
Submit(r) ==
    /\ req[r].at = "idle"
    /\ \E s \in up, a \in Addresses, batch \in Batches :
          req' = [req EXCEPT ![r] = [IdleRequest EXCEPT !.at = "next", !.host = s,
                                                        !.addr = a, !.todo = batch]]
    /\ UNCHANGED <<codeVars, claims, poapOwner, serverVars, job, staff, history>>

\* Mutant: the handler does not look at the claim's status.
ReadClaimAnyStatus(r) ==
    /\ req[r].at = "next"
    /\ req[r].todo # <<>>
    /\ LET c == Head(req[r].todo) IN
          IF claims[c].status # "DELETED" /\ req[r].addr \in Owners[c]
          THEN /\ req' = [req EXCEPT ![r].at = "choose", ![r].claim = c]
               /\ racy' = IF Busy(c) THEN racy \cup {c} ELSE racy
          ELSE SkipClaim(r) /\ UNCHANGED racy
    /\ UNCHANGED <<codeVars, claims, poapOwner, serverVars, job, staff, mints, lost, shared>>

ReadClaim(r) ==
    /\ req[r].at = "next"
    /\ req[r].todo # <<>>
    /\ LET c == Head(req[r].todo) IN
          IF claims[c].status = "UNCLAIMED" /\ req[r].addr \in Owners[c]
          THEN /\ req' = [req EXCEPT ![r].at = "choose", ![r].claim = c]
               /\ racy' = IF Busy(c) THEN racy \cup {c} ELSE racy
          ELSE /\ SkipClaim(r)
               /\ UNCHANGED racy
    /\ UNCHANGED <<codeVars, claims, poapOwner, serverVars, job, staff, mints, lost, shared>>

\* chooseUnusedRedeemCode, first lookup; without any code it runs a code check.
Choose(r) ==
    /\ req[r].at = "choose"
    /\ \/ \E k \in redeemCodes :
             /\ req' = [req EXCEPT ![r].at = "verify", ![r].row = Row(k)]
             /\ UNCHANGED check
       \/ /\ redeemCodes = {}
          /\ Goto(r, "check")
          /\ check' = [check EXCEPT ![r] = NewCheck]
    /\ UNCHANGED <<redeemCodes, rowId, poap, claims, poapOwner, serverVars, job, staff, history>>

\* isRedeemCodeUsed: a failed API call counts as used, a failed token fetch throws.
Verify(r) ==
    /\ req[r].at = "verify"
    /\ \/ poap[Code(r)] = "free" /\ Goto(r, "take")
       \/ Goto(r, "discard")
       \/ Throw(r)
    /\ UNCHANGED <<codeVars, claims, poapOwner, serverVars, job, staff, history>>

\* The used code's row is deleted; that it was gone already is caught.
Discard(r) ==
    /\ req[r].at = "discard"
    /\ IF RowExists(req[r].row) THEN DeleteRow(req[r].row) ELSE UNCHANGED <<redeemCodes, rowId>>
    /\ req' = [req EXCEPT ![r].at = "check", ![r].row = NoRow]
    /\ check' = [check EXCEPT ![r] = NewCheck]
    /\ UNCHANGED <<poap, claims, poapOwner, serverVars, job, staff, history>>

CheckCodes(r) ==
    /\ req[r].at = "check"
    /\ CheckStep(r)
    /\ UNCHANGED <<claims, poapOwner, serverVars, req, job, staff, history>>

\* After a code check: choose again, give up on the claim, or throw with it.
CheckEnds(r) ==
    /\ req[r].at = "check"
    /\ \/ check[r].at = "gained" /\ Goto(r, "rechoose")
       \/ check[r].at = "same" /\ SkipClaim(r)
       \/ check[r].at = "threw" /\ Throw(r)
    /\ check' = [check EXCEPT ![r] = NoCheck]
    /\ UNCHANGED <<redeemCodes, rowId, poap, claims, poapOwner, serverVars, job, staff, history>>

\* The second lookup does not ask POAP whether the code is used.
Rechoose(r) ==
    /\ req[r].at = "rechoose"
    /\ \/ \E k \in redeemCodes : req' = [req EXCEPT ![r].at = "take", ![r].row = Row(k)]
       \/ redeemCodes = {} /\ SkipClaim(r)
    /\ UNCHANGED <<codeVars, claims, poapOwner, serverVars, job, staff, history>>

\* deleteRedeemCode throws when another request took the code.
Take(r) ==
    /\ req[r].at = "take"
    /\ IF RowExists(req[r].row)
       THEN DeleteRow(req[r].row) /\ Goto(r, "pend")
       ELSE Throw(r) /\ UNCHANGED <<redeemCodes, rowId>>
    /\ UNCHANGED <<poap, check, claims, poapOwner, serverVars, job, staff, history>>

\* A row with this (gitPOAPId, mintedAddressId) exists: the unique index throws.
AddressTaken(c, a) ==
    \E d \in Claims \ {c} : claims[d].status # "DELETED" /\ claims[d].mintedAddress = a

\* Mutants: no unique index on the minted address; MINTING before the redemption.
PendAnyAddress(r) ==
    /\ req[r].at = "pend"
    /\ LET c == req[r].claim IN
          IF claims[c].status = "DELETED"
          THEN Throw(r) /\ UNCHANGED claims
          ELSE /\ claims' = [claims EXCEPT ![c].status = "PENDING",
                                           ![c].mintedAddress = req[r].addr]
               /\ Goto(r, "redeem")
    /\ UNCHANGED <<codeVars, poapOwner, serverVars, job, staff, history>>
PendAsMinting(r) ==
    /\ req[r].at = "pend"
    /\ LET c == req[r].claim IN
          IF claims[c].status = "DELETED" \/ AddressTaken(c, req[r].addr)
          THEN Throw(r) /\ UNCHANGED claims
          ELSE /\ claims' = [claims EXCEPT ![c].status = "MINTING", ![c].qrHash = Code(r),
                                           ![c].mintedAddress = req[r].addr]
               /\ Goto(r, "redeem")
    /\ UNCHANGED <<codeVars, poapOwner, serverVars, job, staff, history>>

Pend(r) ==
    /\ req[r].at = "pend"
    /\ LET c == req[r].claim IN
          IF claims[c].status = "DELETED" \/ AddressTaken(c, req[r].addr)
          THEN Throw(r) /\ UNCHANGED claims
          ELSE /\ claims' = [claims EXCEPT ![c].status = "PENDING",
                                           ![c].mintedAddress = req[r].addr]
               /\ Goto(r, "redeem")
    /\ UNCHANGED <<codeVars, poapOwner, serverVars, job, staff, history>>

\* redeemPOAP asks for the code's secret first; null counts as a failed redemption.
\* makePOAPRequest fetches POAP's token outside of its try, which may throw.
FetchSecret(r) ==
    /\ req[r].at = "redeem"
    /\ Goto(r, "post") \/ Goto(r, "restore") \/ Throw(r)
    /\ UNCHANGED <<codeVars, claims, poapOwner, serverVars, job, staff, history>>

\* POAP accepts a code once.  The reply to an accepted redemption may be lost, and
\* the call may fail without having had an effect.
Accept(r) ==
    LET k == Code(r) IN
    /\ poap[k] = "free"
    /\ poap' = [poap EXCEPT ![k] = "submitted"]
    /\ poapOwner' = [poapOwner EXCEPT ![k] = req[r].addr]
    /\ mints' = [mints EXCEPT ![req[r].claim] = @ \cup {k}]

\* Mutant: a failed redemption is taken for a minted POAP.
RedeemUnchecked(r) ==
    /\ req[r].at = "post"
    /\ Goto(r, "mint")
    /\ Accept(r) \/ UNCHANGED <<poap, poapOwner, mints>>
    /\ UNCHANGED <<redeemCodes, rowId, check, claims, serverVars, job, staff, lost, racy, shared>>

Redeem(r) ==
    /\ req[r].at = "post"
    /\ \/ Accept(r) /\ Goto(r, "mint") /\ UNCHANGED lost
       \/ Accept(r) /\ Goto(r, "restore") /\ lost' = lost \cup {Code(r)}
       \/ /\ Goto(r, "restore") \/ Throw(r)
          /\ UNCHANGED <<poap, poapOwner, mints, lost>>
    /\ UNCHANGED <<redeemCodes, rowId, check, claims, serverVars, job, staff, racy, shared>>

\* Mutant: the claim stays PENDING.
RestoreOnly(r) ==
    /\ req[r].at = "restore"
    /\ Upsert(Code(r))
    /\ SkipClaim(r)
    /\ UNCHANGED <<poap, check, claims, poapOwner, serverVars, job, staff, history>>

Restore(r) ==
    /\ req[r].at = "restore"
    /\ Upsert(Code(r))
    /\ Goto(r, "unpend")
    /\ UNCHANGED <<poap, check, claims, poapOwner, serverVars, job, staff, history>>

\* updateClaimStatusById(claimId, UNCLAIMED, null) leaves mintedAddress as it is.
Unpend(r) ==
    /\ req[r].at = "unpend"
    /\ LET c == req[r].claim IN
          IF claims[c].status = "DELETED"
          THEN Throw(r) /\ UNCHANGED claims
          ELSE SkipClaim(r) /\ claims' = [claims EXCEPT ![c].status = "UNCLAIMED"]
    /\ UNCHANGED <<codeVars, poapOwner, serverVars, job, staff, history>>

Mint(r) ==
    /\ req[r].at = "mint"
    /\ LET c == req[r].claim IN
          IF claims[c].status = "DELETED"
          THEN Throw(r) /\ UNCHANGED claims
          ELSE /\ claims' = [claims EXCEPT ![c].status = "MINTING", ![c].qrHash = Code(r)]
               /\ req' = [req EXCEPT ![r].at = "next", ![r].todo = Tail(@),
                                     ![r].claim = NoClaim, ![r].row = NoRow,
                                     ![r].found = @ \cup {[claim |-> c, code |-> Code(r),
                                                           addr |-> req[r].addr]}]
    /\ UNCHANGED <<codeVars, poapOwner, serverVars, job, staff, history>>

\* The response is sent and the post-processing loop of the request starts.
Respond(r) ==
    /\ req[r].at = "next"
    /\ req[r].todo = <<>>
    /\ req' = [req EXCEPT ![r].at = "done", ![r].found = {}]
    /\ job' = [job EXCEPT ![r].at = IF req[r].found = {} THEN "off" ELSE "watch",
                          ![r].entries = req[r].found]
    /\ UNCHANGED <<codeVars, claims, poapOwner, serverVars, staff, history>>

-----------------------------------------------------------------------------
(* Post-processing: runClaimsPostProcessing looks at each of its claims    *)
(* every 10 seconds.  It keeps in memory the qrHash and address it was     *)
(* started with and never reads the Claim row again.                       *)

Drop(j) ==
    LET rest == job[j].entries \ {job[j].cur} IN
    job' = [job EXCEPT ![j] = [IdleJob EXCEPT !.at = IF rest = {} THEN "off" ELSE "watch",
                                              !.entries = rest]]
JobThrows(j) == job' = [job EXCEPT ![j] = IdleJob]

\* The minted claims that a loop follows, or a request that will start one.
Tracked(j) == job[j].entries \cup (IF job[j].at \in {"lookup", "finish"} THEN {job[j].cur} ELSE {})
Follows(j, c) == \E e \in Tracked(j) : e.claim = c
Found(r, c) == \E e \in req[r].found : e.claim = c
Followed(c) == (\E j \in Jobs : Follows(j, c)) \/ (\E r \in Requests : Found(r, c))

\* The startup scan takes up every MINTING claim, whoever minted it.
Scan(j) ==
    /\ job[j].at = "scan"
    /\ shared' = shared \cup {c \in Claims : claims[c].status = "MINTING" /\ Followed(c)}
    /\ LET minting == {c \in Claims : claims[c].status = "MINTING"} IN
       job' = [job EXCEPT ![j].at = IF minting = {} THEN "off" ELSE "watch",
                          ![j].entries = {[claim |-> c, code |-> claims[c].qrHash,
                                           addr |-> claims[c].mintedAddress] : c \in minting}]
    /\ UNCHANGED <<codeVars, claims, poapOwner, serverVars, req, staff, mints, lost, racy>>

\* Mutant: a redemption that POAP has not put on chain counts as unclaimed.
WatchImpatient(j) ==
    /\ job[j].at = "watch"
    /\ \E e \in job[j].entries :
          \/ job' = [job EXCEPT ![j].entries = @ \ {e},
                                ![j].at = IF job[j].entries = {e} THEN "off" ELSE "watch"]
          \/ /\ e.code # NoCode /\ e.addr # NoAddress
             /\ job' = [job EXCEPT ![j].cur = e, ![j].at =
                           IF poap[e.code] \in {"bumped", "minted"} THEN "lookup" ELSE "reset"]
    /\ UNCHANGED <<codeVars, claims, poapOwner, serverVars, req, staff, history>>

\* A null qrHash or address, or a failed POAP API call, drops the claim; a failed
\* token fetch ends the loop.  While POAP says submitted the claim stays.
Watch(j) ==
    /\ job[j].at = "watch"
    /\ \E e \in job[j].entries :
          \/ job' = [job EXCEPT ![j].entries = @ \ {e},
                                ![j].at = IF job[j].entries = {e} THEN "off" ELSE "watch"]
          \/ JobThrows(j)
          \/ /\ e.code # NoCode /\ e.addr # NoAddress
             /\ \/ /\ poap[e.code] = "free"
                   /\ job' = [job EXCEPT ![j].at = "reset", ![j].cur = e]
                \/ /\ poap[e.code] \in {"bumped", "minted"}
                   /\ job' = [job EXCEPT ![j].at = "lookup", ![j].cur = e]
    /\ UNCHANGED <<codeVars, claims, poapOwner, serverVars, req, staff, history>>

\* Mutant: the code is taken off the claim, its status stays.
ResetCodeOnly(j) ==
    /\ job[j].at = "reset"
    /\ LET c == job[j].cur.claim IN
          IF claims[c].status = "DELETED"
          THEN JobThrows(j) /\ UNCHANGED claims
          ELSE /\ claims' = [claims EXCEPT ![c].qrHash = NoCode]
               /\ job' = [job EXCEPT ![j].at = "restock"]
    /\ UNCHANGED <<codeVars, poapOwner, serverVars, req, staff, history>>

\* A MINTING claim that POAP does not know of becomes claimable again.
Reset(j) ==
    /\ job[j].at = "reset"
    /\ LET c == job[j].cur.claim IN
          IF claims[c].status = "DELETED"
          THEN JobThrows(j) /\ UNCHANGED claims
          ELSE /\ claims' = [claims EXCEPT ![c].status = "UNCLAIMED", ![c].qrHash = NoCode,
                                           ![c].mintedAddress = NoAddress]
               /\ job' = [job EXCEPT ![j].at = "restock"]
    /\ UNCHANGED <<codeVars, poapOwner, serverVars, req, staff, history>>

\* redeemCode.create; that another server already created it is caught.
Restock(j) ==
    /\ job[j].at = "restock"
    /\ Upsert(job[j].cur.code)
    /\ Drop(j)
    /\ UNCHANGED <<poap, check, claims, poapOwner, serverVars, req, staff, history>>

\* getClaimMintData: the token of the transaction, else the only POAP of the
\* event that the address holds, else nothing.
Lookup(j) ==
    /\ job[j].at = "lookup"
    /\ LET e == job[j].cur
           held == {k \in Codes : poap[k] = "minted" /\ poapOwner[k] = e.addr} IN
       \/ /\ poap[e.code] = "minted"
          /\ job' = [job EXCEPT ![j].at = "finish", ![j].token = e.code]
       \/ \E k \in held :
             /\ held = {k}
             /\ job' = [job EXCEPT ![j].at = "finish", ![j].token = k]
       \/ job' = [job EXCEPT ![j].at = "watch", ![j].cur = NoEntry]
       \/ JobThrows(j)
    /\ UNCHANGED <<codeVars, claims, poapOwner, serverVars, req, staff, history>>

TokenTaken(c, k) ==
    \E d \in Claims \ {c} : claims[d].status # "DELETED" /\ claims[d].poapTokenId = k

Finish(j) ==
    /\ job[j].at = "finish"
    /\ LET c == job[j].cur.claim IN
          IF claims[c].status = "DELETED" \/ TokenTaken(c, job[j].token)
          THEN JobThrows(j) /\ UNCHANGED claims
          ELSE /\ claims' = [claims EXCEPT ![c].status = "CLAIMED",
                                           ![c].poapTokenId = job[j].token]
               /\ Drop(j)
    /\ UNCHANGED <<codeVars, poapOwner, serverVars, req, staff, history>>

-----------------------------------------------------------------------------
(* DELETE /claims/:id, by the creator of the GitPOAP or by staff: the      *)
(* status is checked, then the row is deleted by id whatever its status.   *)

\* Mutant: claims in any status may be deleted.
CheckDeletableAny(d) ==
    /\ staff[d] = NoClaim
    /\ \E c \in Claims :
          /\ claims[c].status # "DELETED"
          /\ staff' = [staff EXCEPT ![d] = c]
          /\ racy' = IF Busy(c) THEN racy \cup {c} ELSE racy
    /\ UNCHANGED <<codeVars, claims, poapOwner, serverVars, req, job, mints, lost, shared>>

CheckDeletable(d) ==
    /\ staff[d] = NoClaim
    /\ \E c \in Claims :
          /\ claims[c].status = "UNCLAIMED"
          /\ staff' = [staff EXCEPT ![d] = c]
          /\ racy' = IF Busy(c) THEN racy \cup {c} ELSE racy
    /\ UNCHANGED <<codeVars, claims, poapOwner, serverVars, req, job, mints, lost, shared>>

DeleteClaim(d) ==
    /\ staff[d] # NoClaim
    /\ claims' = [claims EXCEPT ![staff[d]] = [NewClaim EXCEPT !.status = "DELETED"]]
    /\ staff' = [staff EXCEPT ![d] = NoClaim]
    /\ UNCHANGED <<codeVars, poapOwner, serverVars, req, job, history>>

-----------------------------------------------------------------------------
(* The POAP service (external) and the server instances.                   *)

POAPStep(k) ==
    /\ \/ POAPIssue(k)
       \/ /\ \/ poap[k] = "submitted" /\ poap' = [poap EXCEPT ![k] = "bumped"]
             \/ poap[k] \in {"submitted", "bumped"} /\ poap' = [poap EXCEPT ![k] = "minted"]
          /\ UNCHANGED <<redeemCodes, rowId, check>>
    /\ UNCHANGED <<claims, poapOwner, serverVars, req, job, staff, history>>

\* POAP forgets a redemption it had accepted: "we've seen it once".
POAPForget(k) ==
    /\ poap[k] = "submitted"
    /\ poap' = [poap EXCEPT ![k] = "free"]
    /\ poapOwner' = [poapOwner EXCEPT ![k] = NoAddress]
    /\ mints' = [c \in Claims |-> mints[c] \ {k}]
    /\ lost' = lost \ {k}
    /\ UNCHANGED <<redeemCodes, rowId, check, claims, serverVars, req, job, staff, racy, shared>>

Host(j) == IF j \in Servers THEN j ELSE req[j].host

Crash(s) ==
    /\ s \in up
    /\ crashes < CrashLimit
    /\ up' = up \ {s}
    /\ crashes' = crashes + 1
    /\ LET cut == {r \in Requests : req[r].host = s /\ req[r].at \in {"next"} \cup WorkSteps} IN
       /\ req' = [r \in Requests |->
                     IF r \in cut THEN [IdleRequest EXCEPT !.at = "dead"] ELSE req[r]]
       /\ check' = [r \in Checkers |-> IF r \in cut THEN NoCheck ELSE check[r]]
    /\ job' = [j \in Jobs |-> IF Host(j) = s THEN IdleJob ELSE job[j]]
    /\ UNCHANGED <<redeemCodes, rowId, poap, claims, poapOwner, staff, history>>

\* main() starts listening, then starts the scan.
Boot(s) ==
    /\ s \notin up
    /\ up' = up \cup {s}
    /\ job' = [job EXCEPT ![s].at = "scan"]
    /\ UNCHANGED <<codeVars, claims, poapOwner, crashes, req, staff, history>>

-----------------------------------------------------------------------------

RequestStep(r) ==
    \/ ReadClaim(r)
    \/ Choose(r)
    \/ Verify(r)
    \/ Discard(r)
    \/ CheckCodes(r)
    \/ CheckEnds(r)
    \/ Rechoose(r)
    \/ Take(r)
    \/ Pend(r)
    \/ FetchSecret(r)
    \/ Redeem(r)
    \/ Restore(r)
    \/ Unpend(r)
    \/ Mint(r)
    \/ Respond(r)

JobStep(j) ==
    \/ Scan(j)
    \/ Watch(j)
    \/ Reset(j)
    \/ Restock(j)
    \/ Lookup(j)
    \/ Finish(j)

Next ==
    \/ \E r \in Requests : Submit(r) \/ RequestStep(r)
    \/ \E j \in Jobs : JobStep(j)
    \/ \E d \in Staff : CheckDeletable(d) \/ DeleteClaim(d)
    \/ \E k \in Codes : POAPStep(k)
    \/ \E s \in Servers : Crash(s) \/ Boot(s)

Spec == Init /\ [][Next]_vars

\* The same system on a POAP service that may forget redemptions.
ForgetfulNext == Next \/ \E k \in Codes : POAPForget(k)
ForgetfulSpec == Init /\ [][ForgetfulNext]_vars

\* A running server keeps executing its handlers, and a stopped one is started
\* again; users, staff and the POAP service owe no step.
FairSpec ==
    /\ ForgetfulSpec
    /\ \A r \in Requests : WF_vars(RequestStep(r))
    /\ \A j \in Jobs : WF_vars(JobStep(j))
    /\ \A s \in Servers : WF_vars(Boot(s))
-----------------------------------------------------------------------------
(* Properties.                                                             *)

\* A claim the database shows as minting or minted carries a code that POAP
\* accepted for this very claim, whatever handlers, loops and restarts did.
MintingIsBacked ==
    \A c \in Claims : claims[c].status \in {"MINTING", "CLAIMED"}
                       => claims[c].qrHash \in mints[c]

\* No two Claim rows carry the same code, although a code check may put a code
\* back that another request has taken and not yet redeemed.
CodeMintsOneClaim ==
    \A c, d \in Claims : c # d /\ claims[c].qrHash # NoCode
                          => claims[c].qrHash # claims[d].qrHash

\* POAP accepts at most one code for a claim, unless two handlers worked on the
\* claim at once, and not counting redemptions whose reply got lost.
SingleMint ==
    \A c \in Claims \ racy : \A k, l \in mints[c] \ lost : k = l

\* With no overlapping handlers and no lost replies, an address never gets two
\* POAPs of one GitPOAP: the unique index on (gitPOAPId, mintedAddressId) is set
\* before the mint and is not given up while the mint stands.
OnePOAPPerAddress ==
    racy = {} /\ lost = {} =>
        \A k, l \in Codes : poapOwner[k] # NoAddress /\ poapOwner[k] = poapOwner[l] => k = l

\* A claim that no two handlers worked on at once is never taken out of CLAIMED or given
\* another code, nor another token, unless two loops took it up: both may find it bumped,
\* and take different POAPs of its address for its own.
ClaimedStays ==
    [][\A c \in Claims \ racy : claims[c].status = "CLAIMED" =>
           /\ claims'[c].status = "CLAIMED"
           /\ claims'[c].qrHash = claims[c].qrHash
           /\ c \notin shared => claims'[c].poapTokenId = claims[c].poapTokenId]_vars

\* Through restarts and startup scans, and whatever POAP forgets, a claim keeps the code
\* that POAP holds a mint for, and is not offered again while it holds one, replies that
\* were lost aside.  Where two loops took up one claim see ScansAreSafe.
MintKept(c) ==
    claims[c].qrHash \in mints[c] /\ claims'[c].status # "DELETED"
        => claims'[c].qrHash = claims[c].qrHash
Reclaimable(c) == claims[c].status = "UNCLAIMED" => mints[c] \subseteq lost
MintsAreKept == [][\A c \in Claims \ (racy \cup shared) : MintKept(c) /\ Reclaimable(c)']_vars


\* The error branch "has status MINTING but qrHash is null" is never taken.
MintingHasCode ==
    \A c \in Claims : claims[c].status = "MINTING" => claims[c].qrHash # NoCode

\* A claim that a request has set PENDING gets minted, becomes claimable again or is
\* deleted, whatever POAP answers and whichever servers stop, unless the request itself
\* is cut short or throws.
PendingEnds ==
    \A r \in Requests, c \in Claims :
        (req[r].at \in Pledged /\ req[r].claim = c)
            ~> (claims[c].status # "PENDING" \/ req[r].at \in {"dead", "threw"})
-----------------------------------------------------------------------------
(* Inductive invariants.  BackingInv is behind MintingIsBacked and         *)
(* CodeMintsOneClaim, and with WorkInv and AddressInv behind SingleMint,   *)
(* ClaimedStays and OnePOAPPerAddress, for a POAP service that keeps what  *)
(* it accepted.                                                            *)

\* Codes in use are accepted and belong to one claim.
BackedCodes ==
    /\ \A c \in Claims : \A k \in mints[c] : poap[k] \in Accepted
    /\ \A c, d \in Claims : c # d => mints[c] \cap mints[d] = {}
BackedClaim(c) ==
    /\ claims[c].qrHash # NoCode => claims[c].qrHash \in mints[c]
    /\ claims[c].status \in {"MINTING", "CLAIMED"} => claims[c].qrHash # NoCode
\* What post-processing holds was minted, so it never finds a code unused.
EntryBacked(e) ==
    /\ e.code \in mints[e.claim]
    /\ claims[e.claim].status = "DELETED" \/ claims[e.claim].qrHash # NoCode
BackedRequest(r) ==
    /\ req[r].at = "mint" => Code(r) \in mints[req[r].claim]
    /\ \A e \in req[r].found : EntryBacked(e)
BackedJob(j) ==
    /\ job[j].at \notin {"reset", "restock"}
    /\ \A e \in Tracked(j) : EntryBacked(e)
BackingInv ==
    /\ BackedCodes
    /\ \A c \in Claims : BackedClaim(c)
    /\ \A r \in Requests : BackedRequest(r)
    /\ \A j \in Jobs : BackedJob(j)

\* A claim that is not racy has one worker, whose position tells its status; until
\* that worker mints it, every code accepted for it is one whose reply was lost.
Working(r, c) == req[r].at \in WorkSteps /\ req[r].claim = c
OneWorker(c) == \A r, q \in Requests : Working(r, c) /\ Working(q, c) => r = q
WorkerOK(r, c) ==
    Working(r, c) =>
        /\ claims[c].status = IF req[r].at \in Pledged THEN "PENDING" ELSE "UNCLAIMED"
        /\ req[r].at # "mint" => mints[c] \subseteq lost
\* Who is about to delete it has it for himself.
DeleterOK(d, c) ==
    staff[d] = c => /\ claims[c].status \in {"UNCLAIMED", "DELETED"}
                    /\ \A r \in Requests : ~Working(r, c)
ClaimOK(c) ==
    /\ claims[c].status = "UNCLAIMED" => mints[c] \subseteq lost
    /\ Followed(c) => claims[c].status \in {"MINTING", "CLAIMED"}
    /\ \A k, l \in mints[c] \ lost : k = l
WorkOn(c) ==
    /\ OneWorker(c) /\ ClaimOK(c)
    /\ \A r \in Requests : WorkerOK(r, c)
    /\ \A d \in Staff : DeleterOK(d, c)
WorkInv == \A c \in Claims \ racy : WorkOn(c)

\* The unique index, and what it is for: a code redeemed for an address is the
\* code of the one claim that has this address.
UniqueAddresses ==
    \A c, d \in Claims :
        /\ c # d /\ claims[c].status # "DELETED" /\ claims[d].status # "DELETED"
        /\ claims[c].mintedAddress # NoAddress
        => claims[c].mintedAddress # claims[d].mintedAddress
PledgedAddress(r) ==
    req[r].at \in Pledged => claims[req[r].claim].mintedAddress = req[r].addr
OwnedThroughClaim(k) ==
    poapOwner[k] # NoAddress =>
        \E c \in Claims : /\ k \in mints[c]
                          /\ claims[c].status \in {"PENDING", "MINTING", "CLAIMED"}
                          /\ claims[c].mintedAddress = poapOwner[k]
AddressInv ==
    /\ UniqueAddresses
    /\ racy = {} /\ lost = {} => /\ \A r \in Requests : PledgedAddress(r)
                                /\ \A k \in Codes : OwnedThroughClaim(k)

-----------------------------------------------------------------------------
(* The inductive invariant behind MintsAreKept, and behind what            *)
(* ClaimedStays says of tokens, for a POAP service that forgets            *)
(* redemptions.                                                            *)

\* The entries a loop still acts on: the one it has given back is about to go.
Held(j) == IF job[j].at = "restock" THEN job[j].entries \ {job[j].cur} ELSE job[j].entries
\* One entry for a claim, in one place.
HeldOnce(c) ==
    /\ \A i, j \in Jobs : \A e \in Held(i), f \in Held(j) :
          e.claim = c /\ f.claim = c => i = j /\ e = f
    /\ \A r, q \in Requests : \A e \in req[r].found, f \in req[q].found :
          e.claim = c /\ f.claim = c => r = q /\ e = f
    /\ \A j \in Jobs, r \in Requests : \A e \in Held(j), f \in req[r].found :
          ~(e.claim = c /\ f.claim = c)
EntryTrue(e) ==
    claims[e.claim].status = "MINTING" /\ claims[e.claim].qrHash = e.code
EntriesTrue(c) ==
    /\ \A j \in Jobs : \A e \in Held(j) : e.claim = c => EntryTrue(e)
    /\ \A r \in Requests : \A e \in req[r].found : e.claim = c => EntryTrue(e)
\* What a loop gives back is a redemption that POAP has forgotten.
ResetRight(j, c) ==
    job[j].at = "reset" /\ job[j].cur.claim = c => job[j].cur.code \notin mints[c]
WorkerStatus(r, c) ==
    Working(r, c) => claims[c].status = IF req[r].at \in Pledged THEN "PENDING" ELSE "UNCLAIMED"
\* Which mints of a claim somebody knows of: those of its worker or of its row.
KnownMints(c) ==
    /\ Reclaimable(c)
    /\ claims[c].status = "MINTING" => mints[c] \subseteq lost \cup {claims[c].qrHash}
    /\ \A r \in Requests : Working(r, c) =>
          mints[c] \subseteq lost \cup (IF req[r].at = "mint" THEN {Code(r)} ELSE {})
KeptOn(c) ==
    /\ OneWorker(c) /\ HeldOnce(c) /\ EntriesTrue(c) /\ KnownMints(c)
    /\ \A r \in Requests : WorkerStatus(r, c)
    /\ \A d \in Staff : DeleterOK(d, c)
    /\ \A j \in Jobs : ResetRight(j, c)
    /\ claims[c].status \in {"UNCLAIMED", "PENDING"} => claims[c].qrHash = NoCode
KeptInv ==
    /\ \A c \in Claims : \A k \in mints[c] : poap[k] \in Accepted
    /\ \A j \in Jobs : job[j].at \in {"reset", "lookup", "finish"} => job[j].cur \in job[j].entries
    /\ \A s \in Servers \ up : job[s] = IdleJob
    /\ \A c \in Claims \ (racy \cup shared) : KeptOn(c)
=============================================================================
