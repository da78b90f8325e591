------------------------------ MODULE Transfers ------------------------------
(***************************************************************************)
(* Who holds a minted GitPOAP.  POAPs change hands outside the backend; it *)
(* finds out when a profile page is loaded (splitUsersPOAPs, lib/poaps.ts) *)
(* or when the holder revalidates (POST /claims/revalidate): it compares   *)
(* its claims with what the POAP API, or the backend's cache of it, says,  *)
(* moves mintedAddress and marks the claim as needing revalidation         *)
(* (lib/transfers.ts).  Holders feature POAPs on their page                *)
(* (routes/featured.ts).  All awaits interleave, and so do new transfers.  *)
(*                                                                         *)
(* Tokens are POAPs of GitPOAP events.  A page load goes on in the         *)
(* background after its reply; the checks it starts there all at once,     *)
(* each of another claim, are taken one after the other here.  Profiles    *)
(* are created whenever one is missing and are left out.  A featured row   *)
(* that was deleted and made again counts as the same row.                 *)
(***************************************************************************)
EXTENDS Integers, FiniteSets

CONSTANTS Addresses, Tokens,
          Pages,          \* handlers of page loads, on any server
          Requests,       \* handlers of the requests of holders
          TransferLimit,  \* bound: transfers of tokens
          FailLimit,      \* bound: failed calls of the POAP API, and crashes
          Claimer,        \* the address that claimed each token
          Mixed,          \* addresses that POAP's API spells with capitals
          NoAddress, NoToken, NoList

ASSUME TransfersAssumption ==
    /\ Claimer \in [Tokens -> Addresses]
    /\ Mixed \subseteq Addresses
    /\ NoAddress \notin Addresses /\ NoToken \notin Tokens
    /\ \A S \in SUBSET Tokens : S # NoList
    /\ TransferLimit \in Nat /\ FailLimit \in Nat

Handlers == Pages \cup Requests

VARIABLES owner,      \* POAP's side: the owner of each token, once it is minted
          known,      \* the claims that are CLAIMED and have their poapTokenId
          minted,     \* mintedAddress of the claims
          needs,      \* the claims with needsRevalidation
          featured,   \* FeaturedPOAP rows
          lists,      \* Redis: the POAPs of an address, for a minute
          infos,      \* Redis: the owner of a token, for ever
          hand,
          transfers, failures,
          sold,       \* history: tokens that changed hands
          rushed      \* history: claims that got their token under a load of their page

claimVars == <<known, minted, needs>>
caches == <<lists, infos>>
bounds == <<transfers, failures>>
history == <<sold, rushed>>
vars == <<owner, claimVars, featured, caches, hand, bounds, history>>

Steps == {"idle",
          "reading", "arrivals", "removing", "checks",  \* splitUsersPOAPs
          "look", "clear", "ask",                       \* checkIfClaimTransferred
          "unfeature", "move",                          \* handleGitPOAPTransfer
          "validate",                                   \* POST /claims/revalidate
          "info", "needed", "feature"}                  \* PUT /featured/:poapTokenId

\* list and claims are what a page load read, got is POAP's list that is not cached yet;
\* claims then keeps those not in the list.  from is the mintedAddress read, to the owner
\* that POAP named; back is where a check or a transfer returns to.  History: had, the
\* claim to revalidate was with the asker at some moment since the request began.
HandType == [at : Steps, who : Addresses \cup {NoAddress},
             got : (SUBSET Tokens) \cup {NoList}, list : (SUBSET Tokens) \cup {NoList},
             claims : (SUBSET Tokens) \cup {NoList},
             todo : SUBSET Tokens, token : Tokens \cup {NoToken},
             from : Addresses \cup {NoAddress}, to : Addresses \cup {NoAddress},
             back : {"idle", "arrivals", "checks", "validate"}, had : BOOLEAN]
Idle == [at |-> "idle", who |-> NoAddress, got |-> NoList, list |-> NoList,
         claims |-> NoList, todo |-> {}, token |-> NoToken, from |-> NoAddress,
         to |-> NoAddress, back |-> "idle", had |-> FALSE]

TypeOK ==
    /\ owner \in [Tokens -> Addresses \cup {NoAddress}]
    /\ known \subseteq Tokens
    /\ minted \in [Tokens -> Addresses]
    /\ needs \subseteq Tokens
    /\ featured \subseteq Tokens \X Addresses
    /\ lists \in [Addresses -> (SUBSET Tokens) \cup {NoList}]
    /\ infos \in [Tokens -> Addresses \cup {NoAddress}]
    /\ hand \in [Handlers -> HandType]
    /\ transfers \in 0 .. TransferLimit /\ failures \in 0 .. FailLimit
    /\ sold \subseteq Tokens /\ rushed \subseteq Tokens

\* The claims are MINTING: redeemed, without a token yet.
Init ==
    /\ owner = [t \in Tokens |-> NoAddress]
    /\ known = {}
    /\ minted = Claimer
    /\ needs = {}
    /\ featured = {}
    /\ lists = [a \in Addresses |-> NoList]
    /\ infos = [t \in Tokens |-> NoAddress]
    /\ hand = [h \in Handlers |-> Idle]
    /\ transfers = 0 /\ failures = 0
    /\ sold = {} /\ rushed = {}

Goto(h, step) == hand' = [hand EXCEPT ![h].at = step]
End(h) == hand' = [hand EXCEPT ![h] = Idle]
Fail == failures < FailLimit /\ failures' = failures + 1

-----------------------------------------------------------------------------
(* POAP (external), and the claim loop of ClaimMinting.                    *)

Mint(t) ==
    /\ owner[t] = NoAddress
    /\ owner' = [owner EXCEPT ![t] = Claimer[t]]
    /\ UNCHANGED <<claimVars, featured, caches, hand, bounds, history>>

Transfer(t, a) ==
    /\ owner[t] \notin {NoAddress, a}
    /\ transfers < TransferLimit
    /\ transfers' = transfers + 1
    /\ owner' = [owner EXCEPT ![t] = a]
    /\ sold' = sold \cup {t}
    /\ UNCHANGED <<claimVars, featured, caches, hand, failures, rushed>>

\* A load of the claimer's page has read the claims and not yet looked for arrivals.
Overtaken(t) ==
    \E h \in Handlers : /\ hand[h].who = minted[t]
                        /\ \/ hand[h].at = "reading" /\ hand[h].claims # NoList
                           \/ t \in hand[h].todo /\ hand[h].at \notin {"removing", "checks"}

\* runClaimsPostProcessing finds the POAP minted.
Record(t) ==
    /\ owner[t] # NoAddress
    /\ t \notin known
    /\ known' = known \cup {t}
    /\ rushed' = IF Overtaken(t) THEN rushed \cup {t} ELSE rushed
    /\ UNCHANGED <<owner, minted, needs, featured, caches, hand, bounds, sold>>

\* Mutant: no time to live is given.
ExpireNever(a) == FALSE /\ UNCHANGED vars

\* The entry of redis expires after a minute; that of a token never does.
Expire(a) ==
    /\ lists[a] # NoList
    /\ lists' = [lists EXCEPT ![a] = NoList]
    /\ UNCHANGED <<owner, claimVars, featured, infos, hand, bounds, history>>

-----------------------------------------------------------------------------
(* splitUsersPOAPs: the claims and POAP's list are read at the same time.  *)

Held(a) == {t \in Tokens : owner[t] = a}

Open(h, a) ==
    /\ hand[h].at = "idle"
    /\ hand' = [hand EXCEPT ![h] = [Idle EXCEPT !.at = "reading", !.who = a]]
    /\ UNCHANGED <<owner, claimVars, featured, caches, bounds, history>>

\* Mutant: POAPs of claims that are known to be the address's count as arrivals too.
SortAll(r) ==
    IF r.list = NoList \/ r.claims = NoList THEN r
    ELSE [r EXCEPT !.at = "arrivals", !.todo = r.list, !.claims = r.claims \ r.list]

\* When both have been read: arrivals are POAPs that no claim of the address has.
Sort(r) ==
    IF r.list = NoList \/ r.claims = NoList THEN r
    ELSE [r EXCEPT !.at = "arrivals", !.todo = r.list \ r.claims, !.claims = r.claims \ r.list]

ReadClaims(h) ==
    /\ hand[h].at = "reading"
    /\ hand[h].claims = NoList
    /\ hand' = [hand EXCEPT ![h] =
                   Sort([@ EXCEPT !.claims = {t \in known : minted[t] = hand[h].who}])]
    /\ UNCHANGED <<owner, claimVars, featured, caches, bounds, history>>

\* retrieveUsersPOAPs: the list is in the cache, or POAP answers...
ReadList(h) ==
    /\ hand[h].at = "reading"
    /\ hand[h].list = NoList /\ hand[h].got = NoList
    /\ LET a == hand[h].who IN
       hand' = [hand EXCEPT ![h] = IF lists[a] # NoList THEN Sort([@ EXCEPT !.list = lists[a]])
                                   ELSE [@ EXCEPT !.got = Held(a)]]
    /\ UNCHANGED <<owner, claimVars, featured, caches, bounds, history>>

\* ...and its answer is cached when it comes, whatever has been cached since.
CacheList(h) ==
    /\ hand[h].got # NoList
    /\ hand' = [hand EXCEPT ![h] = Sort([@ EXCEPT !.list = hand[h].got, !.got = NoList])]
    /\ lists' = [lists EXCEPT ![hand[h].who] = hand[h].got]
    /\ UNCHANGED <<owner, claimVars, featured, infos, bounds, history>>

\* The page is not shown.
ListFails(h) ==
    /\ hand[h].at = "reading"
    /\ hand[h].list = NoList /\ hand[h].got = NoList /\ lists[hand[h].who] = NoList
    /\ Fail
    /\ End(h)
    /\ UNCHANGED <<owner, claimVars, featured, caches, transfers, history>>

\* handlePotentialTransferIn: whatever claim has the token is taken to have moved here.
Arrive(h) ==
    /\ hand[h].at = "arrivals"
    /\ \E t \in hand[h].todo :
          hand' = [hand EXCEPT ![h] =
                     IF t \notin known THEN [@ EXCEPT !.todo = hand[h].todo \ {t}]
                     ELSE [@ EXCEPT !.at = "unfeature", !.todo = hand[h].todo \ {t},
                                    !.token = t, !.from = minted[t], !.to = hand[h].who,
                                    !.back = "arrivals"]]
    /\ UNCHANGED <<owner, claimVars, featured, caches, bounds, history>>

\* Claims of the address that POAP's list lacks are checked last.
Checks(r) == IF r.claims = {} THEN Idle
             ELSE [Idle EXCEPT !.at = "checks", !.todo = r.claims]

\* Mutant: the test on the list is the wrong way round.
ReadFeaturedFound(h) ==
    /\ hand[h].at = "arrivals"
    /\ hand[h].todo = {}
    /\ LET gone == {t \in hand[h].list : <<t, hand[h].who>> \in featured} IN
       hand' = [hand EXCEPT ![h] = IF gone = {} THEN Checks(@)
                                   ELSE [@ EXCEPT !.at = "removing", !.todo = gone, !.list = NoList]]
    /\ UNCHANGED <<owner, claimVars, featured, caches, bounds, history>>

\* The reply is sent, and handleTransferPostProcessing reads what is featured.
ReadFeatured(h) ==
    /\ hand[h].at = "arrivals"
    /\ hand[h].todo = {}
    /\ LET gone == {t \in Tokens \ hand[h].list : <<t, hand[h].who>> \in featured} IN
       hand' = [hand EXCEPT ![h] = IF gone = {} THEN Checks(@)
                                   ELSE [@ EXCEPT !.at = "removing", !.todo = gone, !.list = NoList]]
    /\ UNCHANGED <<owner, claimVars, featured, caches, bounds, history>>

\* The delete throws when the row is gone, and the checks are not made.
RemoveFeature(h) ==
    /\ hand[h].at = "removing"
    /\ \E t \in hand[h].todo :
          /\ featured' = featured \ {<<t, hand[h].who>>}
          /\ hand' = [hand EXCEPT ![h] =
                         IF <<t, hand[h].who>> \notin featured THEN Idle
                         ELSE IF hand[h].todo = {t} THEN Checks(@)
                         ELSE [@ EXCEPT !.todo = hand[h].todo \ {t}]]
    /\ UNCHANGED <<owner, claimVars, caches, bounds, history>>

-----------------------------------------------------------------------------
(* checkIfClaimTransferred.                                                *)

Resume(r) ==
    IF r.back = "checks" /\ r.todo = {} THEN Idle
    ELSE [r EXCEPT !.at = r.back, !.back = "idle", !.from = NoAddress, !.to = NoAddress,
                   !.token = IF r.back = "validate" THEN r.token ELSE NoToken]

\* Mutant: whoever asks, the claim is revalidated.
ReturnedToAnyone(r, holder) == Resume(r)

\* The owner that is returned, or null, has to be the address that revalidates.
Returned(r, holder) == IF r.back = "validate" /\ holder # r.who THEN Idle ELSE Resume(r)
Return(h, holder) == hand' = [hand EXCEPT ![h] = Returned(@, holder)]

\* The next claim of a page's checks, or the one that is to be revalidated.
Look(h) ==
    /\ \E t \in IF hand[h].at = "checks" THEN hand[h].todo ELSE {hand[h].token} :
          LET r == [hand[h] EXCEPT !.todo = @ \ {t}, !.token = t, !.from = minted[t], !.at = "clear",
                       !.back = IF hand[h].at = "checks" THEN "checks" ELSE "validate"] IN
          /\ hand[h].at \in {"checks", "look"}
          /\ hand' = [hand EXCEPT ![h] = IF t \in known THEN r ELSE Returned(r, NoAddress)]
    /\ UNCHANGED <<owner, claimVars, featured, caches, bounds, history>>

ClearInfo(h) ==
    /\ hand[h].at = "clear"
    /\ infos' = [infos EXCEPT ![hand[h].token] = NoAddress]
    /\ Goto(h, "ask")
    /\ UNCHANGED <<owner, claimVars, featured, lists, bounds, history>>

\* retrievePOAPTokenInfo: the owner is in the cache, or POAP answers...
AskPOAP(h) ==
    /\ hand[h].at \in {"ask", "info"}
    /\ infos[hand[h].token] = NoAddress /\ hand[h].to = NoAddress
    /\ hand' = [hand EXCEPT ![h].to = owner[hand[h].token]]
    /\ UNCHANGED <<owner, claimVars, featured, caches, bounds, history>>

\* ...and its answer is cached when it comes, whatever has been cached since.
Answer(h) == IF hand[h].to # NoAddress THEN hand[h].to ELSE infos[hand[h].token]
Answered(h) ==
    /\ Answer(h) # NoAddress
    /\ infos' = [infos EXCEPT ![hand[h].token] = Answer(h)]

\* Another handler may have filled the cache again since it was cleared.  The owner is
\* compared as POAP spells it with the address in lower case, which differ for Mixed.
Ask(h) ==
    /\ hand[h].at = "ask"
    /\ Answered(h)
    /\ IF Answer(h) = hand[h].from /\ Answer(h) \notin Mixed THEN Return(h, Answer(h))
       ELSE hand' = [hand EXCEPT ![h].at = "unfeature", ![h].to = Answer(h)]
    /\ UNCHANGED <<owner, claimVars, featured, lists, bounds, history>>

AskFails(h) ==
    /\ hand[h].at = "ask"
    /\ infos[hand[h].token] = NoAddress /\ hand[h].to = NoAddress
    /\ Fail
    /\ Return(h, NoAddress)
    /\ UNCHANGED <<owner, claimVars, featured, caches, transfers, history>>

-----------------------------------------------------------------------------
(* handleGitPOAPTransfer, on the addresses that its caller read.           *)

Unfeature(h) ==
    /\ hand[h].at = "unfeature"
    /\ featured' = featured \ {<<hand[h].token, hand[h].from>>}
    /\ Goto(h, "move")
    /\ UNCHANGED <<owner, claimVars, caches, bounds, history>>

Revalidating(r) == r.at \in {"look", "validate"} \/ r.back = "validate"
Given(r, t, a) == [r EXCEPT !.had = @ \/ (Revalidating(r) /\ r.token = t /\ r.who = a)]
Move(h) ==
    /\ hand[h].at = "move"
    /\ minted' = [minted EXCEPT ![hand[h].token] = hand[h].to]
    /\ needs' = needs \cup {hand[h].token}
    /\ hand' = [g \in Handlers |->
                   LET r == Given(hand[g], hand[h].token, hand[h].to) IN
                   IF g = h THEN Returned(r, hand[h].to) ELSE r]
    /\ UNCHANGED <<owner, known, featured, caches, bounds, history>>

-----------------------------------------------------------------------------
(* POST /claims/revalidate, for one claim of its list.                     *)

Revalidate(h, a, t) ==
    /\ hand[h].at = "idle"
    /\ hand' = [hand EXCEPT ![h] = [Idle EXCEPT !.at = IF minted[t] = a THEN "validate" ELSE "look",
                                                !.who = a, !.token = t, !.had = minted[t] = a]]
    /\ UNCHANGED <<owner, claimVars, featured, caches, bounds, history>>

\* A mismatch of the GitHub user is noted but does not keep the claim from it.
Validate(h) ==
    /\ hand[h].at = "validate"
    /\ needs' = needs \ {hand[h].token}
    /\ End(h)
    /\ UNCHANGED <<owner, known, minted, featured, caches, bounds, history>>

-----------------------------------------------------------------------------
(* PUT and DELETE /featured/:poapTokenId.                                  *)

\* Tokens that POAP does not have cannot be named.
AskToFeature(h, a, t) ==
    /\ hand[h].at = "idle"
    /\ owner[t] # NoAddress
    /\ hand' = [hand EXCEPT ![h] = [Idle EXCEPT !.at = "info", !.who = a, !.token = t]]
    /\ UNCHANGED <<owner, claimVars, featured, caches, bounds, history>>

\* Whoever the cache says is the owner may go on.
ReadInfo(h) ==
    /\ hand[h].at = "info"
    /\ Answered(h)
    /\ IF Answer(h) = hand[h].who
       THEN hand' = [hand EXCEPT ![h].at = "needed", ![h].to = NoAddress] ELSE End(h)
    /\ UNCHANGED <<owner, claimVars, featured, lists, bounds, history>>

\* Only the claim with this token, if any, can need revalidation.
ReadNeed(h) ==
    /\ hand[h].at = "needed"
    /\ IF hand[h].token \in known \cap needs THEN End(h) ELSE Goto(h, "feature")
    /\ UNCHANGED <<owner, claimVars, featured, caches, bounds, history>>

\* poapTokenId is unique: the insert throws while another profile features the token.
Feature(h) ==
    /\ hand[h].at = "feature"
    /\ LET t == hand[h].token  a == hand[h].who IN
       featured' = IF \E b \in Addresses \ {a} : <<t, b>> \in featured THEN featured
                   ELSE featured \cup {<<t, a>>}
    /\ End(h)
    /\ UNCHANGED <<owner, claimVars, caches, bounds, history>>

\* DELETE: one step, as the profile it reads first never changes.
Withdraw(t, a) ==
    /\ <<t, a>> \in featured
    /\ featured' = featured \ {<<t, a>>}
    /\ UNCHANGED <<owner, claimVars, caches, hand, bounds, history>>

\* An exception or a restart.
Abort(h) ==
    /\ hand[h].at # "idle"
    /\ Fail
    /\ End(h)
    /\ UNCHANGED <<owner, claimVars, featured, caches, transfers, history>>

-----------------------------------------------------------------------------

PageStep(h) ==
    ReadClaims(h) \/ ReadList(h) \/ CacheList(h) \/ Arrive(h) \/ ReadFeatured(h) \/ RemoveFeature(h)
CheckStep(h) == Look(h) \/ ClearInfo(h) \/ AskPOAP(h) \/ Ask(h)
TransferStep(h) == Unfeature(h) \/ Move(h)
RequestStep(h) == Validate(h) \/ ReadInfo(h) \/ ReadNeed(h) \/ Feature(h)
HandStep(h) == PageStep(h) \/ CheckStep(h) \/ TransferStep(h) \/ RequestStep(h)

Next ==
    \/ \E t \in Tokens : Mint(t) \/ Record(t)
    \/ \E t \in Tokens, a \in Addresses : Transfer(t, a) \/ Withdraw(t, a)
    \/ \E a \in Addresses : Expire(a)
    \/ \E h \in Pages, a \in Addresses : Open(h, a)
    \/ \E h \in Requests, a \in Addresses, t \in Tokens : Revalidate(h, a, t) \/ AskToFeature(h, a, t)
    \/ \E h \in Handlers : HandStep(h) \/ ListFails(h) \/ AskFails(h) \/ Abort(h)

Spec == Init /\ [][Next]_vars

\* Handlers run to their end, redis drops what has expired, and every profile page
\* is visited again and again.
FairSpec ==
    /\ Spec
    /\ \A h \in Handlers : WF_vars(HandStep(h))
    /\ \A a \in Addresses : WF_vars(Expire(a)) /\ SF_vars(\E h \in Pages : Open(h, a))

-----------------------------------------------------------------------------
(* Properties.                                                             *)

\* Whatever lists are cached and whoever loads pages, a claim is marked only if its
\* token has changed hands, or got its token while its claimer's page was loading
\* ("Here we assume that the user didn't just claim this", lib/poaps.ts), or POAP spells
\* its claimer with capitals.
MarkedWereTransferred == needs \subseteq sold \cup rushed \cup {t \in Tokens : Claimer[t] \in Mixed}

\* A request about to revalidate a claim is of an address that had the claim at some
\* moment since the request began, however the claim has been moved meanwhile.
RevalidatorsHad == \A h \in Handlers : hand[h].at = "validate" => hand[h].had

\* Once the transfers are over, every claim is with its token's owner for good: old
\* lists, old infos and loads that began before can move it away for a while only.
ClaimsFollowTokens == <>[](\A t \in known : minted[t] = owner[t])

\* Again and again no page features a POAP that its address does not own (but with
\* an old info in the cache, it may be featured again).
FeaturesAreCleaned ==
    []<>(\A t \in Tokens, a \in Addresses : <<t, a>> \in featured => owner[t] = a)

-----------------------------------------------------------------------------
(* The inductive invariant behind the first two.                         *)

\* What the fields of a handler hold at each of its steps.
InPage(r) == r.at = "arrivals" \/ r.back = "arrivals"

HandFits(h) ==
    LET r == hand[h] IN
    /\ r.at \in {"reading", "removing"} \/ InPage(r) => r.who \in Addresses
    /\ r.at = "removing" \/ InPage(r) => r.claims # NoList
    /\ r.at \in {"look", "validate", "info", "needed", "feature"} \/ r.back = "validate" =>
          r.who \in Addresses /\ r.token \in Tokens
    /\ r.got # NoList => r.at = "reading" /\ r.list = NoList
    /\ r.to # NoAddress => r.at \in {"ask", "info", "unfeature", "move"}
    /\ r.at \in {"clear", "ask"} =>
          r.token \in known /\ r.from \in Addresses /\ r.back \in {"checks", "validate"}
    /\ r.at \in {"unfeature", "move"} =>
          r.token \in Tokens /\ r.to \in Addresses /\ r.back # "idle"
    /\ r.back # "idle" => r.at \in {"clear", "ask", "unfeature", "move"}

\* A request knows whether its asker has, or had, the claim that it is to revalidate.
RevalidatorTrue(h) ==
    LET r == hand[h] IN
    /\ r.at = "validate" => r.had
    /\ Revalidating(r) /\ minted[r.token] = r.who => r.had
    /\ r.at \in {"clear", "ask"} /\ r.back = "validate" /\ r.from = r.who => r.had

\* A token that never changed hands and was not recorded under a load of its page is
\* its claimer's, whoever is asked and in whatever spelling.
Still(t) == t \notin sold \cup rushed /\ Claimer[t] \notin Mixed

StillKept(t) ==
    /\ owner[t] \in {NoAddress, Claimer[t]}
    /\ infos[t] \in {NoAddress, Claimer[t]}
    /\ minted[t] = Claimer[t] /\ t \notin needs
    /\ \A a \in Addresses : lists[a] # NoList /\ t \in lists[a] => a = Claimer[t]

\* Nobody is about to move its claim: a page that has it on its list finds it among its
\* claims, or else before the claim has the token.
StillSeen(t, h) ==
    LET r == hand[h] IN
    /\ r.at = "reading" =>
          /\ r.list # NoList /\ t \in r.list => r.who = Claimer[t]
          /\ r.got # NoList /\ t \in r.got => r.who = Claimer[t]
          /\ r.claims # NoList /\ t \in known /\ r.who = Claimer[t] => t \in r.claims
    /\ InPage(r) /\ t \in r.todo => r.who = Claimer[t] /\ t \notin known
    /\ r.at \in {"clear", "ask"} /\ r.token = t => r.from = Claimer[t]
    /\ r.at \in {"ask", "info"} /\ r.token = t => r.to \in {NoAddress, Claimer[t]}
    /\ r.at \in {"unfeature", "move"} => r.token # t

TransfersInv ==
    /\ TypeOK
    /\ \A t \in known : owner[t] # NoAddress
    /\ \A h \in Handlers : HandFits(h) /\ RevalidatorTrue(h)
    /\ \A t \in Tokens : Still(t) => StillKept(t) /\ \A h \in Handlers : StillSeen(t, h)
=============================================================================
