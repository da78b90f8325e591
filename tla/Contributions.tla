---------------------------- MODULE Contributions ----------------------------
(***************************************************************************)
(* How contributions to the repos of one project become claims: the bot's  *)
(* POST /claims/gitpoap-bot/create and the staff's POST /claims/create     *)
(* (routes/claims.ts), the PRs that ongoing issuance and the backload hand *)
(* over (lib/ongoing.ts, lib/pullRequests.ts), and PUT /gitpoaps/deprecate,*)
(* which deletes claims.  Every await is a step; handlers overlap freely.  *)
(*                                                                         *)
(* A contribution is recorded, the contributions of its user are counted   *)
(* for each year with GitPOAPs, and a claim is made for every GitPOAP      *)
(* whose threshold is reached.  A handler knows the GitPOAPs that it read  *)
(* at its start.                                                           *)
(***************************************************************************)
EXTENDS Integers, FiniteSets, Sequences

CONSTANTS Users, Pulls, Issues, GitPOAPs,
          Author,    \* Author[p]: who opened the pull request
          Opened,    \* Opened[i]: the year in which a PR or issue was created
          MergeYear, \* MergeYear[p]: the year in which it is (or will be) merged
          Year, Threshold,
          PRBased,   \* the GitPOAPs for which merged PRs count
          Later,     \* the GitPOAPs that do not exist at the start
          Handlers, Calls,
          NoUser, NoItem, NoClaim

Items == Pulls \cup Issues
Years == {Year[g] : g \in GitPOAPs}
BotKinds == {"merged", "mention", "issue"}
Kinds == BotKinds \cup {"updater", "backload", "staff"}
\* What a call is about: a PR or an issue, or the GitPOAP staff gives away.
Call == [kind : Kinds, item : Items \cup GitPOAPs, users : Seq(Users)]

Keys == GitPOAPs \X Users
\* late: created after the deletion (a claim deleted and made anew is another row).
Claim == [status : {"UNCLAIMED", "CLAIMED"}, pull : Pulls \cup {NoItem},
          mention : Items \cup {NoItem}, late : BOOLEAN]

ASSUME ContributionsAssumption ==
    /\ IsFiniteSet(Users) /\ IsFiniteSet(Pulls) /\ IsFiniteSet(Issues)
    /\ Author \in [Pulls -> Users]
    /\ Opened \in [Items -> Nat \ {0}] /\ MergeYear \in [Pulls -> Nat \ {0}]
    /\ Year \in [GitPOAPs -> Nat \ {0}] /\ Threshold \in [GitPOAPs -> Nat \ {0}]
    /\ Pulls \cap Issues = {}
    /\ PRBased \subseteq GitPOAPs /\ Later \subseteq GitPOAPs
    /\ NoUser \notin Users /\ NoItem \notin Items
    /\ NoClaim \notin Claim
    /\ Calls \subseteq Call
    /\ \A c \in Calls :
          /\ c.users # <<>>
          /\ c.kind \in {"merged", "updater", "backload"} =>
                c.item \in Pulls /\ c.users = <<Author[c.item]>>
          /\ c.kind = "mention" => c.item \in Pulls
          /\ c.kind = "issue" => c.item \in Issues
          /\ c.kind = "staff" => c.item \in GitPOAPs

VARIABLES merged,     \* GitHub: the merged pull requests
          gitPOAPs,   \* "absent", "live", "deprecated", and "closed" once the
                      \* claims of the deprecated GitPOAP are deleted
          pullUser,   \* GithubPullRequest rows: githubUser, NoUser without a row
          pullMerged, \* the rows with a githubMergedAt
          mentions,   \* GithubMention rows
          claims,     \* the Claim rows
          hand,       \* the handlers
          unmerged,   \* history: rows whose githubMergedAt was overwritten with null
          uncounted   \* history: merges recorded while handling another user than the row's

rows == <<pullUser, pullMerged, mentions>>
history == <<unmerged, uncounted>>
vars == <<merged, gitPOAPs, rows, claims, hand, history>>

NoCall == [kind |-> "staff", item |-> NoItem, users |-> <<>>]
Idle == [at |-> "idle", call |-> NoCall, todo |-> <<>>, before |-> {}, seen |-> {},
         merged |-> FALSE, year |-> 0, count |-> 0, due |-> {}, bare |-> {},
         made |-> {}, told |-> {}, replied |-> {}]

Steps == {"idle", "read", "fetch", "record", "mention", "count", "countPulls", "claim",
          "earn", "give", "retrieve", "done", "failed"}
RowIds == Keys \X BOOLEAN
Hand == [at : Steps, call : Calls \cup {NoCall}, todo : Seq(Users), before : SUBSET RowIds,
         seen : SUBSET GitPOAPs, merged : BOOLEAN, year : Years \cup {0}, count : Nat,
         due : SUBSET GitPOAPs, bare : SUBSET RowIds, made : SUBSET RowIds,
         told : SUBSET Users, replied : SUBSET RowIds]

TypeOK ==
    /\ merged \subseteq Pulls
    /\ gitPOAPs \in [GitPOAPs -> {"absent", "live", "deprecated", "closed"}]
    /\ pullUser \in [Pulls -> Users \cup {NoUser}]
    /\ pullMerged \subseteq {p \in Pulls : pullUser[p] # NoUser}
    /\ mentions \subseteq Users \X Items
    /\ claims \in [Keys -> Claim \cup {NoClaim}]
    /\ hand \in [Handlers -> Hand]
    /\ unmerged \subseteq Pulls /\ uncounted \subseteq pullMerged

Init ==
    /\ merged \in SUBSET Pulls
    /\ gitPOAPs = [g \in GitPOAPs |-> IF g \in Later THEN "absent" ELSE "live"]
    /\ pullUser = [p \in Pulls |-> NoUser]
    /\ pullMerged = {}
    /\ mentions = {}
    /\ claims = [k \in Keys |-> NoClaim]
    /\ hand = [h \in Handlers |-> Idle]
    /\ unmerged = {} /\ uncounted = {}

-----------------------------------------------------------------------------
(* GitHub, and the staff's part of a GitPOAP's life.                       *)

Merge(p) ==
    /\ p \notin merged
    /\ merged' = merged \cup {p}
    /\ UNCHANGED <<gitPOAPs, rows, claims, hand, history>>

CreateGitPOAP(g) ==
    /\ gitPOAPs[g] = "absent"
    /\ gitPOAPs' = [gitPOAPs EXCEPT ![g] = "live"]
    /\ UNCHANGED <<merged, rows, claims, hand, history>>

Deprecate(g) ==
    /\ gitPOAPs[g] = "live"
    /\ gitPOAPs' = [gitPOAPs EXCEPT ![g] = "deprecated"]
    /\ UNCHANGED <<merged, rows, claims, hand, history>>

\* The second await of the deprecation: deleteMany of the UNCLAIMED claims.
DeleteClaims(g) ==
    /\ gitPOAPs[g] = "deprecated"
    /\ gitPOAPs' = [gitPOAPs EXCEPT ![g] = "closed"]
    /\ claims' = [k \in Keys |->
          IF k[1] = g /\ claims[k] # NoClaim /\ claims[k].status = "UNCLAIMED"
          THEN NoClaim ELSE claims[k]]
    /\ UNCHANGED <<merged, rows, hand, history>>

\* POST /claims, in one step: ClaimMinting has the details.
Mint(k) ==
    /\ claims[k] # NoClaim
    /\ claims[k].status = "UNCLAIMED" /\ gitPOAPs[k[1]] = "live"
    /\ claims' = [claims EXCEPT ![k].status = "CLAIMED"]
    /\ UNCHANGED <<merged, gitPOAPs, rows, hand, history>>

-----------------------------------------------------------------------------
(* What every handler does.                                                *)

Item(h) == hand[h].call.item
Kind(h) == hand[h].call.kind
User(h) == Head(hand[h].todo)
Goto(h, step) == hand' = [hand EXCEPT ![h].at = step]
Finish(h, step) == hand' = [hand EXCEPT ![h] = [Idle EXCEPT !.at = step, !.call = hand[h].call,
                                                !.made = hand[h].made, !.replied = hand[h].replied]]
RowId(k) == <<k, claims[k].late>>
Existing == {RowId(k) : k \in {q \in Keys : claims[q] # NoClaim}}

\* A call arrives. The bot calls with "merged" when a PR was merged; startTime
\* is taken here, so `before` are the claims with an earlier createdAt.
Start(h) ==
    /\ hand[h].at = "idle"
    /\ \E c \in Calls :
          /\ c.kind \in {"merged", "updater"} => c.item \in merged
          /\ hand' = [hand EXCEPT ![h] = [Idle EXCEPT !.at = "read", !.call = c,
                !.todo = c.users,
                !.before = IF c.kind = "merged" THEN Existing ELSE {}]]
    /\ UNCHANGED <<merged, gitPOAPs, rows, claims, history>>

\* The GitPOAPs of the repo's project (getRepoByName, getRepoInfo,
\* runOngoingIssuanceUpdater); the updater and the backload want at least one.
Found(kind) ==
    {g \in GitPOAPs : /\ gitPOAPs[g] = "live"
                      /\ kind \in {"merged", "updater", "backload"} => g \in PRBased}
ReadRepo(h) ==
    /\ hand[h].at = "read" /\ Kind(h) # "staff"
    /\ hand' = [hand EXCEPT ![h].seen = Found(Kind(h)),
          ![h].at = IF Kind(h) \in {"updater", "backload"} /\ Found(Kind(h)) = {}
                    THEN "done" ELSE "fetch"]
    /\ UNCHANGED <<merged, gitPOAPs, rows, claims, history>>

\* After a user's contribution: the next user, or the reply.
NextUser(h, told) ==
    hand' = [hand EXCEPT ![h] = [@ EXCEPT !.todo = Tail(hand[h].todo), !.told = told, !.year = 0,
          !.at = IF Len(hand[h].todo) > 1 THEN "read" ELSE "retrieve"]]

\* The GitHub user is unknown or a bot: nothing is made for it.
SkipUser(h) ==
    /\ hand[h].at = "read" /\ Kind(h) \in BotKinds
    /\ NextUser(h, hand[h].told)
    /\ UNCHANGED <<merged, gitPOAPs, rows, claims, history>>

\* The PR or issue as GitHub shows it; an open PR in a list is passed over.
Fetch(h) ==
    /\ hand[h].at = "fetch"
    /\ IF Kind(h) = "backload" /\ Item(h) \notin merged
       THEN Finish(h, "done")
       ELSE hand' = [hand EXCEPT ![h].merged = (Item(h) \in merged),
                                 ![h].at = IF Kind(h) = "issue" THEN "mention" ELSE "record"]
    /\ UNCHANGED <<merged, gitPOAPs, rows, claims, history>>

\* GitHub does not answer: 404, also for the users that were already handled.
FetchFails(h) ==
    /\ hand[h].at = "fetch" /\ Kind(h) \in BotKinds
    /\ Finish(h, "failed")
    /\ UNCHANGED <<merged, gitPOAPs, rows, claims, history>>

\* upsertGithubPullRequest: the row keeps its user, and takes the merge date as
\* it was fetched.  The updater goes no further without GitPOAPs of that year.
RecordPull(h) ==
    /\ hand[h].at = "record"
    /\ pullUser' = [pullUser EXCEPT ![Item(h)] = IF @ = NoUser THEN User(h) ELSE @]
    /\ pullMerged' = IF hand[h].merged THEN pullMerged \cup {Item(h)} ELSE pullMerged \ {Item(h)}
    /\ unmerged' = IF hand[h].merged THEN unmerged ELSE unmerged \cup (pullMerged \cap {Item(h)})
    /\ uncounted' = IF ~hand[h].merged \/ pullUser'[Item(h)] = User(h) THEN uncounted \ {Item(h)}
                    ELSE uncounted \cup ({Item(h)} \ pullMerged)
    /\ IF Kind(h) = "mention" THEN Goto(h, "mention")
       ELSE IF /\ Kind(h) = "updater"
               /\ \A g \in hand[h].seen : Year[g] # MergeYear[Item(h)]
            THEN Finish(h, "done")
            ELSE Goto(h, "count")
    /\ UNCHANGED <<merged, gitPOAPs, mentions, claims>>

RecordMention(h) ==
    /\ hand[h].at = "mention"
    /\ mentions' = mentions \cup {<<User(h), Item(h)>>}
    /\ Goto(h, "count")
    /\ UNCHANGED <<merged, gitPOAPs, pullUser, pullMerged, claims, history>>

MentionsIn(u, y) == {m \in mentions : m[1] = u /\ Opened[m[2]] = y}
\* Mutant: PRs that are not merged count.
PullsInUnmerged(u, y) == {p \in Pulls : pullUser[p] = u /\ MergeYear[p] = y}
PullsIn(u, y) == {p \in pullMerged : pullUser[p] = u /\ MergeYear[p] = y}

\* The years of yearlyGitPOAPsMap in ascending order.
YearsLeft(h) == {y \in {Year[g] : g \in hand[h].seen} : y > hand[h].year}

\* Mutant: the threshold itself is not enough.
DueAbove(h, y, n) == {g \in hand[h].seen : Year[g] = y /\ n > Threshold[g]}

\* Those of the year whose threshold is reached; they wait for their claims.
Due(h, y, n) == {g \in hand[h].seen : Year[g] = y /\ n > 0 /\ n >= Threshold[g]}
Counted(h, y, n) ==
    hand' = [hand EXCEPT ![h] = [@ EXCEPT !.year = y, !.count = 0, !.due = Due(h, y, n),
                                     !.at = IF Due(h, y, n) = {} THEN "count" ELSE "claim"]]

\* gitPOAPs[0], which no orderBy determines, decides whether PRs count this year.
CountMentions(h) ==
    /\ hand[h].at = "count"
    /\ \E y \in YearsLeft(h) :
          /\ \A later \in YearsLeft(h) : y <= later
          /\ LET n == Cardinality(MentionsIn(User(h), y)) IN
             \E first \in {g \in hand[h].seen : Year[g] = y} :
                IF first \in PRBased
                THEN hand' = [hand EXCEPT ![h] = [@ EXCEPT !.year = y, !.count = n,
                                                           !.at = "countPulls"]]
                ELSE Counted(h, y, n)
    /\ UNCHANGED <<merged, gitPOAPs, rows, claims, history>>

CountPulls(h) ==
    /\ hand[h].at = "countPulls"
    /\ Counted(h, hand[h].year,
               hand[h].count + Cardinality(PullsIn(User(h), hand[h].year)))
    /\ UNCHANGED <<merged, gitPOAPs, rows, claims, history>>

NewClaim(g, pull, mention) ==
    [status |-> "UNCLAIMED", pull |-> pull, mention |-> mention, late |-> gitPOAPs[g] = "closed"]

\* The upsert of a claim: an existing one is left as it is.
Upsert(k, new) == claims' = [claims EXCEPT ![k] = IF @ = NoClaim THEN new ELSE @]
MadeBy(h, k) == IF claims[k] = NoClaim THEN hand[h].made \cup {<<k, claims'[k].late>>}
                ELSE hand[h].made

\* upsertClaim with the contribution at hand as the one it was earned by.
MakeClaim(h) ==
    /\ hand[h].at = "claim"
    /\ \E g \in hand[h].due :
          LET k == <<g, User(h)>>
              byMention == Kind(h) \in {"mention", "issue"}
              rest == hand[h].due \ {g}
          IN  /\ Upsert(k, NewClaim(g, IF byMention THEN NoItem ELSE Item(h),
                                       IF byMention THEN Item(h) ELSE NoItem))
              /\ hand' = [hand EXCEPT ![h] = [@ EXCEPT !.due = rest,
                    !.made = MadeBy(h, k),
                    !.bare = IF Kind(h) = "backload" /\ claims'[k].pull = NoItem
                             THEN hand[h].bare \cup {<<k, claims'[k].late>>} ELSE hand[h].bare,
                    !.at = IF rest = {} THEN "count" ELSE "claim"]]
    /\ UNCHANGED <<merged, gitPOAPs, rows, history>>

\* All years are done.
EndUser(h) ==
    /\ hand[h].at = "count" /\ YearsLeft(h) = {}
    /\ CASE Kind(h) = "updater" -> Finish(h, "done")
         [] Kind(h) = "backload" -> IF hand[h].bare = {} THEN Finish(h, "done")
                                    ELSE Goto(h, "earn")
         [] OTHER -> NextUser(h, hand[h].told \cup {User(h)})
    /\ UNCHANGED <<merged, gitPOAPs, rows, claims, history>>

\* The backload names its PR in the claims that came back without one; a claim
\* that was deleted meanwhile makes the update throw, which ends the backload.
SetEarned(h) ==
    /\ hand[h].at = "earn"
    /\ \E id \in hand[h].bare :
          IF id \in Existing
          THEN /\ claims' = [claims EXCEPT ![id[1]].pull = Item(h)]
               /\ IF hand[h].bare = {id} THEN Finish(h, "done")
                  ELSE hand' = [hand EXCEPT ![h].bare = @ \ {id}]
          ELSE Finish(h, "failed") /\ UNCHANGED claims
    /\ UNCHANGED <<merged, gitPOAPs, rows, history>>

-----------------------------------------------------------------------------
(* The bot's reply: retrieveClaimsCreatedByPR and ...ByMention.            *)

Open(k, u, y) == Year[k[1]] = y /\ k[2] = u /\ claims[k].status = "UNCLAIMED"
\* Mutant: only the open claims of the year are looked up.
CreatedByPROpenOnly(p, before) ==
    {id \in Existing \ before : p \in pullMerged /\ Open(id[1], pullUser[p], MergeYear[p])}

CreatedByPR(p, before) ==
    {id \in Existing \ before :
        /\ p \in pullMerged
        /\ \/ claims[id[1]].pull = p
           \/ Open(id[1], pullUser[p], MergeYear[p])}
CreatedByMention(u, i) ==
    {id \in Existing : \/ id[1][2] = u /\ claims[id[1]].mention = i
                       \/ Open(id[1], u, Opened[i])}

Retrieve(h) ==
    /\ hand[h].at = "retrieve" /\ hand[h].told # {}
    /\ \E u \in hand[h].told :
          hand' = [hand EXCEPT ![h] = [@ EXCEPT !.told = hand[h].told \ {u},
                !.replied = hand[h].replied \cup
                               (IF Kind(h) = "merged" THEN CreatedByPR(Item(h), hand[h].before)
                                ELSE CreatedByMention(u, Item(h)))]]
    /\ UNCHANGED <<merged, gitPOAPs, rows, claims, history>>

Reply(h) ==
    /\ hand[h].at = "retrieve" /\ hand[h].told = {}
    /\ Finish(h, "done")
    /\ UNCHANGED <<merged, gitPOAPs, rows, claims, history>>

-----------------------------------------------------------------------------
(* POST /claims/create by staff: the GitPOAP is read once, for all users.  *)

ReadGitPOAP(h) ==
    /\ hand[h].at = "read" /\ Kind(h) = "staff"
    /\ IF gitPOAPs[Item(h)] = "live" THEN Goto(h, "give") ELSE Finish(h, "failed")
    /\ UNCHANGED <<merged, gitPOAPs, rows, claims, history>>

NextGift(h) == IF Len(hand[h].todo) = 1 THEN Finish(h, "done")
               ELSE hand' = [hand EXCEPT ![h].todo = Tail(@)]

GiveClaim(h) ==
    /\ hand[h].at = "give"
    /\ Upsert(<<Item(h), User(h)>>, NewClaim(Item(h), NoItem, NoItem))
    /\ NextGift(h)
    /\ UNCHANGED <<merged, gitPOAPs, rows, history>>

SkipGift(h) ==
    /\ hand[h].at = "give"
    /\ NextGift(h)
    /\ UNCHANGED <<merged, gitPOAPs, rows, claims, history>>

-----------------------------------------------------------------------------
HandlerStep(h) ==
    \/ ReadRepo(h) \/ SkipUser(h) \/ Fetch(h) \/ FetchFails(h) \/ RecordPull(h)
    \/ RecordMention(h) \/ CountMentions(h) \/ CountPulls(h) \/ MakeClaim(h) \/ EndUser(h)
    \/ SetEarned(h) \/ Retrieve(h) \/ Reply(h)
    \/ ReadGitPOAP(h) \/ GiveClaim(h) \/ SkipGift(h)

Next ==
    \/ \E p \in Pulls : Merge(p)
    \/ \E g \in GitPOAPs : CreateGitPOAP(g) \/ Deprecate(g) \/ DeleteClaims(g)
    \/ \E k \in Keys : Mint(k)
    \/ \E h \in Handlers : Start(h) \/ HandlerStep(h)

Spec == Init /\ [][Next]_vars

-----------------------------------------------------------------------------
(* What the handlers achieve.                                              *)

\* The GitPOAPs of a year count the same contributions.
Uniform(g) == \A o \in GitPOAPs : Year[o] = Year[g] => (o \in PRBased <=> g \in PRBased)

\* The contributions that GitPOAP g asks for; ones that were recorded as merged
\* remain contributions when a row's merge date is lost.
Contributed(u, g, done) ==
    Cardinality(MentionsIn(u, Year[g]))
    + IF g \in PRBased
      THEN Cardinality({p \in done : pullUser[p] = u /\ MergeYear[p] = Year[g]}) ELSE 0

Quiet == \A h \in Handlers : hand[h].at \in {"idle", "done", "failed"}

\* However the handlers overlap, once they are done everybody whose recorded
\* contributions reach the threshold of a GitPOAP has a claim for it: of several
\* handlers that record contributions of one user, the last to count sees all.
\* Except for a merge that only a handler of another user has recorded: one for
\* somebody mentioned in the PR, or the author's when the PR's row is the user's
\* because it was mentioned there first.
QualifiedHaveClaims ==
    Quiet => \A g \in GitPOAPs \ Later, u \in Users :
        /\ gitPOAPs[g] = "live" /\ Uniform(g)
        /\ \A p \in uncounted : pullUser[p] # u
        /\ Contributed(u, g, pullMerged) >= Threshold[g]
        => claims[<<g, u>>] # NoClaim

Named(c) == c # NoClaim /\ (c.pull # NoItem \/ c.mention # NoItem)

\* A claim that names the contribution it was earned by belongs to a user with
\* as many contributions in its GitPOAP's year as the threshold asks for.
ClaimsAreEarned ==
    \A g \in GitPOAPs, u \in Users :
        LET c == claims[<<g, u>>] IN
        Named(c) /\ Uniform(g)
        => Contributed(u, g, pullMerged \cup unmerged) >= Threshold[g]

\* The bot can tell users of all claims its call has made: they are in the reply,
\* unless deleted meanwhile or the PR's merge date was overwritten before the reply.
NewClaimsAreReported ==
    \A h \in Handlers :
        hand[h].at = "done" /\ hand[h].call.kind \in BotKinds
        /\ (hand[h].call.kind = "merged" => hand[h].call.item \notin unmerged)
        => hand[h].made \cap Existing \subseteq hand[h].replied

-----------------------------------------------------------------------------
(* The inductive invariants behind them.                                   *)

Handled == {"count", "countPulls", "claim"}
Recorded == {"mention"} \cup Handled

\* A handler at work has a user, begins with its first year, and has found every GitPOAP
\* that was there from the start and is still live.
HandFits(h) ==
    LET r == hand[h] IN
    /\ r.at # "idle" => r.call \in Calls
    /\ r.at \in {"read", "fetch", "record", "give"} \cup Recorded => r.todo # <<>>
    /\ r.at \in {"fetch", "record", "retrieve", "earn"} \cup Recorded => Kind(h) # "staff"
    /\ r.at = "give" => Kind(h) = "staff"
    /\ r.at = "record" => Kind(h) # "issue"
    /\ r.at = "mention" => Kind(h) \in {"mention", "issue"}
    /\ r.at = "earn" => Kind(h) = "backload"
    /\ r.at = "retrieve" => Kind(h) \in BotKinds
    /\ r.at \in {"read", "fetch", "record", "mention"} => r.year = 0
    /\ r.at = "countPulls" => r.year # 0
    /\ r.at \in {"fetch", "record"} \cup Recorded =>
          \A g \in GitPOAPs \ Later :
              gitPOAPs[g] = "live" /\ (Kind(h) \in {"mention", "issue"} \/ g \in PRBased)
              => g \in r.seen

HandsFit ==
    /\ TypeOK
    /\ \A g \in GitPOAPs \ Later : gitPOAPs[g] # "absent"
    /\ \A h \in Handlers : HandFits(h)

\* Why QualifiedHaveClaims holds: until there is a claim, a handler is on its way to it,
\* with a count that has all of the mentions.
Serves(h, u, g) ==
    LET r == hand[h] IN
    /\ r.todo # <<>> /\ User(h) = u /\ g \in r.seen
    /\ \/ r.at \in Recorded /\ r.year < Year[g]
       \/ r.at = "countPulls" /\ r.year = Year[g] /\ r.count = Cardinality(MentionsIn(u, Year[g]))
       \/ r.at = "claim" /\ g \in r.due

Waits(u, g) ==
    /\ gitPOAPs[g] = "live" /\ Uniform(g)
    /\ Contributed(u, g, pullMerged \ uncounted) >= Threshold[g]
    /\ claims[<<g, u>>] = NoClaim

QualifiedAreServed ==
    \A g \in GitPOAPs \ Later, u \in Users : Waits(u, g) => \E h \in Handlers : Serves(h, u, g)

\* Why ClaimsAreEarned holds: counts are never more than what was ever contributed.
Earned(u, g) == Uniform(g) => Contributed(u, g, pullMerged \cup unmerged) >= Threshold[g]

HandEarned(h) ==
    LET r == hand[h] IN
    /\ r.at = "countPulls" =>
          /\ r.count <= Cardinality(MentionsIn(User(h), r.year))
          /\ \E first \in PRBased : Year[first] = r.year
    /\ r.at = "claim" => \A g \in r.due : Earned(User(h), g)
    /\ \A id \in r.bare : Earned(id[1][2], id[1][1])

EarnedInv ==
    /\ \A p \in unmerged : pullUser[p] # NoUser
    /\ \A h \in Handlers : HandEarned(h)
    /\ ClaimsAreEarned

\* Why NewClaimsAreReported holds: a row that was deleted does not come back ...
RowKnown(id) == id \in Existing \/ (~id[2] /\ gitPOAPs[id[1][1]] = "closed")

RowsAreKnown ==
    /\ \A k \in Keys : claims[k] # NoClaim /\ claims[k].late => gitPOAPs[k[1]] = "closed"
    /\ \A h \in Handlers : \A id \in hand[h].before \cup hand[h].made \cup hand[h].bare : RowKnown(id)

\* ... and one that a call has made goes on naming the PR or the mention.
NamesItem(h) ==
    \A id \in hand[h].made \cap Existing :
        /\ Kind(h) = "merged" => /\ claims[id[1]].pull = Item(h) /\ id \notin hand[h].before
                                 /\ \A o \in Handlers : id \notin hand[o].bare
        /\ Kind(h) \in {"mention", "issue"} => claims[id[1]].mention = Item(h)

MergeSeen(h) ==
    Kind(h) = "merged" =>
        /\ hand[h].at # "idle" => Item(h) \in merged
        /\ hand[h].at = "record" => hand[h].merged
        /\ hand[h].at \in Handled \/ hand[h].made # {} => Item(h) \in pullMerged \cup unmerged

IsTold(h) ==
    LET r == hand[h] IN
    /\ r.at = "idle" => r.made = {}
    /\ Kind(h) \in BotKinds =>
          /\ r.at \in {"read", "fetch", "record"} \cup Recorded =>
                \A id \in r.made : id[1][2] \in r.told \cup (IF r.at \in Handled THEN {User(h)} ELSE {})
          /\ r.at \in {"retrieve", "done"} /\ (Kind(h) = "merged" => Item(h) \notin unmerged) =>
                \A id \in r.made \cap Existing :
                    id \in r.replied \/ (r.at = "retrieve" /\ id[1][2] \in r.told)

ReportInv ==
    /\ RowsAreKnown
    /\ \A h \in Handlers : NamesItem(h) /\ MergeSeen(h) /\ IsTold(h)
=============================================================================
