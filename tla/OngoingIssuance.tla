--------------------------- MODULE OngoingIssuance ---------------------------
(***************************************************************************)
(* How the merged pull requests of one repository become claims: the       *)
(* ongoing issuance updater (lib/ongoing.ts) scans GitHub's list of closed *)
(* PRs from the newest update back to lastPRUpdatedAt, the backloader      *)
(* (lib/pullRequests.ts) scans all of it from the oldest update on.  Both  *)
(* ask for one page at a time and await the database for every PR, while   *)
(* GitHub users go on closing, merging, reopening and editing PRs, which   *)
(* reorders the list under the scans.                                      *)
(*                                                                         *)
(* A PR that is recorded has its GithubPullRequest row and, as far as its  *)
(* author reaches the thresholds, the claims; both are upserts, so that a  *)
(* PR may be handled any number of times.                                  *)
(***************************************************************************)
EXTENDS Integers, Sequences, FiniteSets

CONSTANTS PRs,          \* the pull requests, by number
          Skipped,      \* PRs of bots, without a user, of a year without GitPOAP
          Updaters,     \* the loops of runOngoingIssuanceUpdater: servers, triggers
          Backloaders,  \* calls of backloadGithubPullRequestData
          PageSize,     \* PULL_STEP_SIZE and BACKFILL_PRS_PER_REQUEST
          MaxTime,      \* bound: the clock
          FailLimit     \* bound: failed GitHub calls, exceptions and crashes

Scanners == Updaters \cup Backloaders

ASSUME OngoingIssuanceAssumption ==
    /\ PRs \subseteq Nat /\ IsFiniteSet(PRs)
    /\ Skipped \subseteq PRs
    /\ Updaters \cap Backloaders = {}
    /\ PageSize \in Nat \ {0}
    /\ MaxTime \in Nat \ {0} /\ FailLimit \in Nat

VARIABLES now,
          pulls,            \* the PRs on GitHub
          lastPRUpdatedAt,  \* of the Repo row
          recorded,         \* the PRs that were handled
          scan,             \* the loops over the pages
          failures,
          disturbed         \* history: a page was missing or the list shrank under a scan

vars == <<now, pulls, lastPRUpdatedAt, recorded, scan, failures, disturbed>>

Times == 0 .. MaxTime
PullStates == {"open", "closed", "merged"}
Item == [pr : PRs, updated : Times, merged : BOOLEAN]

\* since: the updater's copy of lastPRUpdatedAt; first: the updatedAt of the first
\* PR it saw, 0 for null; todo: the rest of the page; full: as long as a page may be.
\* History: due, the PRs merged when the scan began.
Idle == [at |-> "idle", since |-> 0, page |-> 1, todo |-> <<>>, full |-> FALSE, first |-> 0,
         due |-> {}, moved |-> FALSE]
ScanType == [at : {"idle", "fetch", "pull", "done"}, since : Times, page : Nat \ {0},
             todo : Seq(Item), full : BOOLEAN, first : Times,
             due : SUBSET PRs, moved : BOOLEAN]

TypeOK ==
    /\ now \in Times
    /\ pulls \in [PRs -> [state : PullStates, updated : Times]]
    /\ lastPRUpdatedAt \in Times
    /\ recorded \subseteq PRs
    /\ scan \in [Scanners -> ScanType]
    /\ failures \in 0 .. FailLimit
    /\ disturbed \in BOOLEAN

\* The repository was just added; lastPRUpdatedAt is the start of the year.
Init ==
    /\ now = 1
    /\ pulls = [p \in PRs |-> [state |-> "open", updated |-> 0]]
    /\ lastPRUpdatedAt = 0
    /\ recorded = {}
    /\ scan = [s \in Scanners |-> Idle]
    /\ failures = 0
    /\ disturbed = FALSE

-----------------------------------------------------------------------------
(* GitHub (external): its clock has a resolution of a second, so several   *)
(* PRs may be updated at the same time; ties are listed by number.         *)

Listed == {p \in PRs : pulls[p].state # "open"}
Merged == {p \in PRs : pulls[p].state = "merged"}
Active == {s \in Scanners : scan[s].at \in {"fetch", "pull"}}
\* A backload under way sees another order once a listed PR changes.
Moved == [s \in Scanners |-> [scan[s] EXCEPT !.moved = @ \/ s \in Active \cap Backloaders]]

Tick ==
    /\ now < MaxTime
    /\ now' = now + 1
    /\ UNCHANGED <<pulls, lastPRUpdatedAt, recorded, scan, failures, disturbed>>

Close(p) ==
    /\ pulls[p].state = "open"
    /\ \E state \in {"closed", "merged"} : pulls' = [pulls EXCEPT ![p] = [state |-> state, updated |-> now]]
    /\ UNCHANGED <<now, lastPRUpdatedAt, recorded, scan, failures, disturbed>>

\* A comment, a label, a new title.
Edit(p) ==
    /\ p \in Listed
    /\ pulls[p].updated < now
    /\ pulls' = [pulls EXCEPT ![p].updated = now]
    /\ scan' = Moved
    /\ UNCHANGED <<now, lastPRUpdatedAt, recorded, failures, disturbed>>

Reopen(p) ==
    /\ pulls[p].state = "closed"
    /\ pulls' = [pulls EXCEPT ![p] = [state |-> "open", updated |-> now]]
    /\ scan' = Moved
    /\ disturbed' = (disturbed \/ Active # {})
    /\ UNCHANGED <<now, lastPRUpdatedAt, recorded, failures>>

Older(p, q) ==
    \/ pulls[p].updated < pulls[q].updated
    \/ pulls[p].updated = pulls[q].updated /\ p < q
\* The updater asks for direction 'desc', the backloader for 'asc'.
Before(s, p, q) == IF s \in Updaters THEN Older(q, p) ELSE Older(p, q)

\* How many PRs are listed before p; by that, the page that p is on.
Ahead(s, p) == Cardinality({q \in Listed : Before(s, q, p)})
OnPage(s) == {p \in Listed : /\ (scan[s].page - 1) * PageSize =< Ahead(s, p)
                             /\ Ahead(s, p) < scan[s].page * PageSize}

\* The page in the order asked for: there is one such list.
IsListing(s, prs, list) ==
    /\ \A p \in prs : \E i \in DOMAIN list : list[i] = p
    /\ \A i, j \in DOMAIN list : i < j => Before(s, list[i], list[j])
PullsOnPage(s) ==
    {[i \in DOMAIN list |-> [pr |-> list[i], updated |-> pulls[list[i]].updated,
                             merged |-> pulls[list[i]].state = "merged"]] :
        list \in {l \in [1 .. Cardinality(OnPage(s)) -> OnPage(s)] : IsListing(s, OnPage(s), l)}}

-----------------------------------------------------------------------------
(* The scans.                                                              *)

\* The Repo row is read with all others, a while before the repo's turn comes.
Start(s) ==
    /\ scan[s].at = "idle"
    /\ scan' = [scan EXCEPT ![s] = IF s \in Updaters
                                     THEN [Idle EXCEPT !.at = "fetch", !.since = lastPRUpdatedAt]
                                     ELSE [Idle EXCEPT !.at = "fetch", !.due = Merged \ Skipped]]
    /\ UNCHANGED <<now, pulls, lastPRUpdatedAt, recorded, failures, disturbed>>

\* Mutant: off by one in the test for the last page.
FetchOffByOne(s) ==
    /\ scan[s].at = "fetch"
    /\ \E items \in PullsOnPage(s) :
           scan' = [scan EXCEPT ![s].at = "pull", ![s].todo = items,
                                ![s].full = Len(items) > PageSize]
    /\ UNCHANGED <<now, pulls, lastPRUpdatedAt, recorded, failures, disturbed>>

\* The next page, however old the PRs on the pages before it were.
Fetch(s) ==
    /\ scan[s].at = "fetch"
    /\ \E items \in PullsOnPage(s) :
           scan' = [scan EXCEPT ![s].at = "pull", ![s].todo = items,
                                ![s].full = Len(items) = PageSize]
    /\ UNCHANGED <<now, pulls, lastPRUpdatedAt, recorded, failures, disturbed>>

\* A failed call returns an empty page: getGithubRepositoryPullsAsApp maps null to [].
FetchFails(s) ==
    /\ scan[s].at = "fetch"
    /\ failures < FailLimit
    /\ failures' = failures + 1
    /\ disturbed' = (disturbed \/ (s \in Updaters /\ scan[s].page > 1))
    /\ scan' = [scan EXCEPT ![s].at = "pull", ![s].full = FALSE, ![s].moved = s \in Backloaders]
    /\ UNCHANGED <<now, pulls, lastPRUpdatedAt, recorded>>

\* Mutant: only PRs of a later second count as new.
FinishedEarly(s, pull) == s \in Updaters /\ pull.merged /\ pull.updated =< scan[s].since

\* Stop if we've already handled this PR; an unmerged one never stops the scan.
Finished(s, pull) == s \in Updaters /\ pull.merged /\ pull.updated < scan[s].since

\* backloadGithubPullRequest records merged PRs of GitHub users; so does handleNewPull.
Counts(pull) == pull.merged /\ pull.pr \notin Skipped

\* handleNewPull or backloadGithubPullRequest; Finished breaks out of the page.
Handle(s) ==
    /\ scan[s].at = "pull"
    /\ scan[s].todo # <<>>
    /\ LET pull == Head(scan[s].todo) IN
       /\ scan' = [scan EXCEPT ![s].first = IF @ = 0 /\ s \in Updaters THEN pull.updated ELSE @,
                               ![s].todo = IF Finished(s, pull) THEN <<>> ELSE Tail(@)]
       /\ recorded' = IF Counts(pull) /\ ~Finished(s, pull)
                      THEN recorded \cup {pull.pr} ELSE recorded
    /\ UNCHANGED <<now, pulls, lastPRUpdatedAt, failures, disturbed>>

NextPage(s) ==
    /\ scan[s].at = "pull"
    /\ scan[s].todo = <<>>
    /\ scan[s].full
    /\ scan' = [scan EXCEPT ![s].at = "fetch", ![s].page = @ + 1]
    /\ UNCHANGED <<now, pulls, lastPRUpdatedAt, recorded, failures, disturbed>>

\* Mutant: what is saved is the time of the scan.
ScanEndsNow(s) ==
    /\ scan[s].at = "pull"
    /\ scan[s].todo = <<>>
    /\ ~scan[s].full
    /\ lastPRUpdatedAt' = IF s \in Updaters /\ scan[s].first # 0 THEN now ELSE lastPRUpdatedAt
    /\ scan' = [scan EXCEPT ![s] = IF s \in Updaters THEN Idle ELSE [@ EXCEPT !.at = "done", !.page = 1]]
    /\ UNCHANGED <<now, pulls, recorded, failures, disturbed>>

\* The updater saves the updatedAt of the first PR it saw, if any.
ScanEnds(s) ==
    /\ scan[s].at = "pull"
    /\ scan[s].todo = <<>>
    /\ ~scan[s].full
    /\ lastPRUpdatedAt' = IF s \in Updaters /\ scan[s].first # 0
                          THEN scan[s].first ELSE lastPRUpdatedAt
    /\ scan' = [scan EXCEPT ![s] = IF s \in Updaters THEN Idle ELSE [@ EXCEPT !.at = "done", !.page = 1]]
    /\ UNCHANGED <<now, pulls, recorded, failures, disturbed>>

\* An exception (caught, for an updater, by the loop over the repos) or a crash:
\* nothing is saved.
Abort(s) ==
    /\ s \in Active
    /\ failures < FailLimit
    /\ failures' = failures + 1
    /\ scan' = [scan EXCEPT ![s] = Idle]
    /\ UNCHANGED <<now, pulls, lastPRUpdatedAt, recorded, disturbed>>

-----------------------------------------------------------------------------

ScanStep(s) == Fetch(s) \/ Handle(s) \/ NextPage(s) \/ ScanEnds(s)

Next ==
    \/ Tick
    \/ \E p \in PRs : Close(p) \/ Edit(p) \/ Reopen(p)
    \/ \E s \in Scanners : Start(s) \/ ScanStep(s) \/ FetchFails(s) \/ Abort(s)

Spec == Init /\ [][Next]_vars

\* The updater runs again and again (a timer on every server), and scans that are
\* under way go on; GitHub users owe no step.
FairSpec ==
    /\ Spec
    /\ \A u \in Updaters : WF_vars(Start(u))
    /\ \A s \in Scanners : WF_vars(ScanStep(s))

-----------------------------------------------------------------------------
(* Properties.                                                             *)

\* A merged PR older than lastPRUpdatedAt was handled, also when several updaters
\* save their times in any order and PRs change under the scans; what breaks it is a
\* later page that failed, or a PR that was reopened during a scan.
OldAreHandled ==
    ~disturbed => \A p \in Merged \ Skipped : pulls[p].updated < lastPRUpdatedAt => p \in recorded

\* Every merged PR is handled in the end, with the same exception.
MergedAreHandled ==
    \A p \in PRs \ Skipped : p \in Merged ~> (p \in recorded \/ disturbed)

\* A backload that ends has handled all PRs that were merged when it began, unless
\* a listed PR was edited or reopened meanwhile or a page failed.
BackloadIsComplete ==
    \A b \in Backloaders : scan[b].at = "done" /\ ~scan[b].moved => scan[b].due \subseteq recorded

-----------------------------------------------------------------------------
(* The inductive invariants behind OldAreHandled and BackloadIsComplete.   *)

Relevant == Merged \ Skipped

\* No time is ahead of GitHub's clock, and what is listed has a time.
TimesFit ==
    /\ now > 0 /\ lastPRUpdatedAt =< now
    /\ \A p \in PRs : pulls[p].updated =< now /\ (p \in Listed => pulls[p].updated > 0)

\* Where a scan is fits what it holds; an updater's page is in the order asked for.
Fits(s, r) ==
    /\ r.since =< now /\ r.first =< now
    /\ \A i \in DOMAIN r.todo : r.todo[i].updated \in 1 .. now
    /\ r.at # "pull" => r.todo = <<>>
    /\ s \in Updaters /\ r.at = "fetch" => (r.first = 0 <=> r.page = 1)
    /\ s \in Updaters /\ r.at = "pull" /\ r.first = 0 => r.page = 1 /\ (r.todo = <<>> => ~r.full)
    /\ s \in Updaters => \A i, j \in DOMAIN r.todo :
          i < j => r.todo[j].updated =< r.todo[i].updated

ScansFit == TimesFit /\ \A s \in Scanners : Fits(s, scan[s])

\* A scan still has p before it: on the rest of its page, as it is now, or on a later
\* page. The list may grow and PRs move to its end of the newest meanwhile, never
\* ahead to the pages that were read.
Coming(s, p) ==
    \/ scan[s].at = "fetch" /\ (scan[s].page - 1) * PageSize =< Ahead(s, p)
    \/ scan[s].at = "pull" /\ scan[s].full /\ scan[s].page * PageSize =< Ahead(s, p)
    \/ /\ scan[s].at = "pull"
       /\ \E i \in DOMAIN scan[s].todo :
             scan[s].todo[i] = [pr |-> p, updated |-> pulls[p].updated, merged |-> TRUE]

HandledBefore(time) == \A p \in Relevant : pulls[p].updated < time => p \in recorded

\* The time that an updater is about to save: that of the first PR it sees.
SavesAfter(u, p) ==
    IF scan[u].first # 0 THEN pulls[p].updated < scan[u].first
    ELSE scan[u].todo # <<>> /\ pulls[p].updated < Head(scan[u].todo).updated

\* The times that updaters have saved, read, or are about to save.
UpdatersGoOn ==
    ~disturbed =>
        /\ HandledBefore(lastPRUpdatedAt)
        /\ \A u \in Updaters :
              /\ HandledBefore(scan[u].since)
              /\ u \in Active =>
                    \A p \in Relevant : SavesAfter(u, p) => p \in recorded \/ Coming(u, p)

BackloadersGoOn ==
    \A b \in Backloaders :
        /\ scan[b].due \subseteq Relevant
        /\ ~scan[b].moved => \A p \in scan[b].due : p \in recorded \/ Coming(b, p)
=============================================================================
