-------------------------------- MODULE Teams --------------------------------
(***************************************************************************)
(* Teams and their members (graphql/resolvers/memberships.ts, teams.ts,    *)
(* routes/teams.ts): an address creates a team, which staff may also do in *)
(* the name of another; admins invite addresses, who accept; memberships   *)
(* are removed by id; accepted owners and admins edit the team; staff give *)
(* it GitPOAPs.  Each request is one handler, which may be cut short.      *)
(***************************************************************************)
EXTENDS FiniteSets

CONSTANTS Callers, Addresses, TeamIds, GitPOAPs,
          StaffAddresses,  \* isAddressAStaffMember
          Before,          \* ids of memberships from before
          NoTeam, NoAddress, NoRow

RowIds == Callers \cup Before   \* a membership is named by the request that made it

VARIABLES teams,       \* the Team rows
          memberships, \* the Membership rows by id
          teamOf,      \* GitPOAP.teamId
          call         \* the requests
VARIABLES agreed,      \* history: memberships whose address made the team or asked to accept them
          given,       \* history: those of owners that staff named
          renewed,     \* history: those invited while their address was accepting another
          edits,       \* history: memberships by which somebody edited a team
          withdrawn    \* history: invitations deleted while pending, with the right to it

teamsHistory == <<agreed, given, renewed, edits, withdrawn>>
teamsVars == <<teams, memberships, teamOf, call, teamsHistory>>

Roles == {"OWNER", "ADMIN", "MEMBER"}
Membership == [team : TeamIds, address : Addresses, role : Roles,
               acceptanceStatus : {"PENDING", "ACCEPTED"}]
\* actor: who asks; target: who is invited, or to own the team; id, row: the membership
\* that was read; right: whether the actor manages the team or is the member.
Call == [at : {"idle", "own", "look", "create", "authorize", "delete", "accept",
               "edit", "connect", "done"},
         team : TeamIds \cup {NoTeam}, actor : Addresses \cup {NoAddress},
         target : Addresses \cup {NoAddress}, id : RowIds \cup {NoRow},
         row : Membership \cup {NoRow}, right : BOOLEAN, gitPOAP : SUBSET GitPOAPs]
NoCall == [at |-> "idle", team |-> NoTeam, actor |-> NoAddress, target |-> NoAddress,
           id |-> NoRow, row |-> NoRow, right |-> FALSE, gitPOAP |-> {}]

ASSUME TeamsAssumption ==
    /\ Callers \cap Before = {} /\ NoRow \notin RowIds /\ NoTeam \notin TeamIds
    /\ NoAddress \notin Addresses /\ NoRow \notin Membership
    /\ StaffAddresses \subseteq Addresses

TeamsTypeOK ==
    /\ teams \subseteq TeamIds
    /\ memberships \in [RowIds -> Membership \cup {NoRow}]
    /\ \A i \in RowIds : memberships[i] # NoRow => memberships[i].team \in teams
    /\ teamOf \in [GitPOAPs -> TeamIds \cup {NoTeam}]
    /\ call \in [Callers -> Call]
    /\ agreed \subseteq RowIds /\ given \subseteq RowIds /\ renewed \subseteq RowIds
    /\ edits \subseteq RowIds
    /\ withdrawn \subseteq RowIds \X BOOLEAN

\* The memberships that findUnique({ teamId_addressId }) finds: one at most.
Find(t, a) == {i \in RowIds : /\ memberships[i] # NoRow
                              /\ memberships[i].team = t /\ memberships[i].address = a}

IsAccepted(i) == memberships[i] # NoRow /\ memberships[i].acceptanceStatus = "ACCEPTED"

\* Some teams, with owners and admins who have accepted or not.
TeamsInit ==
    /\ teams \in SUBSET TeamIds
    /\ \E before \in [Before -> {m \in Membership : m.team \in teams} \cup {NoRow}] :
          memberships = [i \in RowIds |-> IF i \in Before THEN before[i] ELSE NoRow]
    /\ \A i \in Before : memberships[i] # NoRow =>
          /\ memberships[i].role \in {"OWNER", "ADMIN"}
          /\ memberships[i].role = "OWNER" => memberships[i].acceptanceStatus = "ACCEPTED"
          /\ Find(memberships[i].team, memberships[i].address) = {i}
    /\ teamOf = [g \in GitPOAPs |-> NoTeam]
    /\ call = [h \in Callers |-> NoCall]
    /\ agreed = {i \in Before : IsAccepted(i)}
    /\ given = {} /\ renewed = {} /\ edits = {} /\ withdrawn = {}

-----------------------------------------------------------------------------
Proceed(h, step) == call' = [call EXCEPT ![h].at = step]
Leave(h) == call' = [call EXCEPT ![h] = [NoCall EXCEPT !.at = "done"]]
Start(h, step, fields) == call' = [call EXCEPT ![h] = [fields EXCEPT !.at = step]]

\* Who may invite: any owner or admin, also one that has not accepted.
Manages(a, t) == \E i \in Find(t, a) : memberships[i].role # "MEMBER"

\* POST /teams: the team, of a itself or, if a is staff, of an address b that it names ...
CreateTeam(h, a, b, t) ==
    /\ call[h].at = "idle" /\ t \notin teams
    /\ b # a => a \in StaffAddresses
    /\ teams' = teams \cup {t}
    /\ Start(h, "own", [NoCall EXCEPT !.actor = a, !.target = b, !.team = t])
    /\ UNCHANGED <<memberships, teamOf, teamsHistory>>

\* ... and its owner.
CreateOwner(h) ==
    /\ call[h].at = "own"
    /\ memberships' = [memberships EXCEPT ![h] =
          [team |-> call[h].team, address |-> call[h].target, role |-> "OWNER",
           acceptanceStatus |-> "ACCEPTED"]]
    /\ IF call[h].target = call[h].actor
       THEN agreed' = agreed \cup {h} /\ UNCHANGED given
       ELSE given' = given \cup {h} /\ UNCHANGED agreed
    /\ Leave(h)
    /\ UNCHANGED <<teams, teamOf, renewed, edits, withdrawn>>

-----------------------------------------------------------------------------
(* addNewMembership                                                        *)

ReadInviter(h, a, b, t) ==
    /\ call[h].at = "idle" /\ t \in teams
    /\ IF Manages(a, t)
       THEN Start(h, "look", [NoCall EXCEPT !.actor = a, !.target = b, !.team = t])
       ELSE Leave(h)
    /\ UNCHANGED <<teams, memberships, teamOf, teamsHistory>>

LookForMembership(h) ==
    /\ call[h].at = "look"
    /\ IF Find(call[h].team, call[h].target) = {} THEN Proceed(h, "create") ELSE Leave(h)
    /\ UNCHANGED <<teams, memberships, teamOf, teamsHistory>>

Invitation(h) ==
    [team |-> call[h].team, address |-> call[h].target, role |-> "ADMIN",
     acceptanceStatus |-> "PENDING"]

\* A request has found an invitation of a to t pending and is about to accept it.
Accepting(a, t) ==
    \E k \in Callers : call[k].at = "accept" /\ call[k].actor = a /\ call[k].team = t

\* A second membership of the address in the team cannot be inserted.
CreateMembership(h) ==
    /\ call[h].at = "create"
    /\ \/ /\ Find(call[h].team, call[h].target) = {}
          /\ memberships' = [memberships EXCEPT ![h] = Invitation(h)]
          /\ renewed' = renewed \cup {i \in {h} : Accepting(call[h].target, call[h].team)}
       \/ /\ Find(call[h].team, call[h].target) # {}
          /\ UNCHANGED <<memberships, renewed>>
    /\ Leave(h)
    /\ UNCHANGED <<teams, teamOf, agreed, given, edits, withdrawn>>

-----------------------------------------------------------------------------
(* removeMembership                                                        *)

ReadMembership(h, a, i) ==
    /\ call[h].at = "idle"
    /\ IF memberships[i] = NoRow THEN Leave(h)
       ELSE Start(h, "authorize", [NoCall EXCEPT !.actor = a, !.id = i, !.row = memberships[i],
                                               !.team = memberships[i].team])
    /\ UNCHANGED <<teams, memberships, teamOf, teamsHistory>>

\* Mutant: the actor may manage any team.
AuthorizeForAnyTeam(h) ==
    /\ call[h].at = "authorize"
    /\ LET right == Manages(call[h].actor, call[h].team) \/ call[h].actor = call[h].row.address
       IN  IF \/ right \/ call[h].row.acceptanceStatus # "PENDING"
              \/ \E t \in TeamIds : Manages(call[h].actor, t)
           THEN Start(h, "delete", [call[h] EXCEPT !.right = right])
           ELSE Leave(h)
    /\ UNCHANGED <<teams, memberships, teamOf, teamsHistory>>

\* A pending one is removed by a manager of the team or by its own address.
Authorize(h) ==
    /\ call[h].at = "authorize"
    /\ LET right == Manages(call[h].actor, call[h].team) \/ call[h].actor = call[h].row.address
       IN  IF right \/ call[h].row.acceptanceStatus # "PENDING"
           THEN Start(h, "delete", [call[h] EXCEPT !.right = right])
           ELSE Leave(h)
    /\ UNCHANGED <<teams, memberships, teamOf, teamsHistory>>

Deleted(h) == {i \in {call[h].id} : memberships[i] # NoRow}

\* By id; a row that is gone by now makes it throw.
DeleteMembership(h) ==
    /\ call[h].at = "delete"
    /\ memberships' = [i \in RowIds |-> IF i \in Deleted(h) THEN NoRow ELSE memberships[i]]
    /\ withdrawn' = withdrawn \cup {<<i, call[h].right>> :
          i \in {j \in Deleted(h) : memberships[j].acceptanceStatus = "PENDING"}}
    /\ Leave(h)
    /\ UNCHANGED <<teams, teamOf, agreed, given, renewed, edits>>

-----------------------------------------------------------------------------
(* acceptMembership                                                        *)

ReadInvitation(h, a, t) ==
    /\ call[h].at = "idle" /\ t \in teams
    /\ LET invited == {i \in Find(t, a) : ~IsAccepted(i)} IN
       /\ IF invited = {} THEN Leave(h)
          ELSE Start(h, "accept", [NoCall EXCEPT !.actor = a, !.team = t])
       /\ agreed' = agreed \cup invited
    /\ UNCHANGED <<teams, memberships, teamOf, given, renewed, edits, withdrawn>>

\* Mutant: the address is forgotten.
AcceptedByTeam(h) == {i \in RowIds : memberships[i] # NoRow /\ memberships[i].team = call[h].team}

Accepted(h) == Find(call[h].team, call[h].actor)

\* The membership that the address has by now; none makes it throw.
AcceptMembership(h) ==
    /\ call[h].at = "accept"
    /\ memberships' = [i \in RowIds |->
          IF i \in Accepted(h) THEN [memberships[i] EXCEPT !.acceptanceStatus = "ACCEPTED"]
          ELSE memberships[i]]
    /\ Leave(h)
    /\ UNCHANGED <<teams, teamOf, teamsHistory>>

-----------------------------------------------------------------------------
(* updateTeam, PATCH /teams/:id/logo                                       *)

\* hasMembership, on the accepted memberships that the middleware read.
EditorBy(a, t) == {i \in Find(t, a) : IsAccepted(i) /\ memberships[i].role \in {"OWNER", "ADMIN"}}

CheckEditor(h, a, t) ==
    /\ call[h].at = "idle" /\ t \in teams
    /\ IF EditorBy(a, t) = {} THEN Leave(h)
       ELSE \E i \in EditorBy(a, t) : Start(h, "edit", [NoCall EXCEPT !.id = i])
    /\ UNCHANGED <<teams, memberships, teamOf, teamsHistory>>

\* The name and the description; or the logo, whose upload may fail.
EditTeam(h) ==
    /\ call[h].at = "edit"
    /\ edits' = edits \cup {call[h].id}
    /\ Leave(h)
    /\ UNCHANGED <<teams, memberships, teamOf, agreed, given, renewed, withdrawn>>

-----------------------------------------------------------------------------
(* PUT /teams/:teamId/gitpoaps/:gitPOAPId                                  *)

\* The GitPOAP must have no team when it is read.
ReadGitPOAP(h, g, t) ==
    /\ call[h].at = "idle" /\ t \in teams
    /\ IF teamOf[g] = NoTeam
       THEN Start(h, "connect", [NoCall EXCEPT !.team = t, !.gitPOAP = {g}])
       ELSE Leave(h)
    /\ UNCHANGED <<teams, memberships, teamOf, teamsHistory>>

ConnectTeam(h) ==
    /\ call[h].at = "connect"
    /\ teamOf' = [g \in GitPOAPs |-> IF g \in call[h].gitPOAP THEN call[h].team ELSE teamOf[g]]
    /\ Leave(h)
    /\ UNCHANGED <<teams, memberships, teamsHistory>>

-----------------------------------------------------------------------------
\* The server stops, or something on the way fails.
CutShort(h) ==
    /\ call[h].at \notin {"idle", "done"}
    /\ Leave(h)
    /\ UNCHANGED <<teams, memberships, teamOf, teamsHistory>>

CallerStep(h) ==
    \/ \E a \in Addresses, t \in TeamIds :
          ReadInvitation(h, a, t) \/ CheckEditor(h, a, t)
    \/ \E a, b \in Addresses, t \in TeamIds : CreateTeam(h, a, b, t) \/ ReadInviter(h, a, b, t)
    \/ \E a \in Addresses, i \in RowIds : ReadMembership(h, a, i)
    \/ \E g \in GitPOAPs, t \in TeamIds : ReadGitPOAP(h, g, t)
    \/ CreateOwner(h) \/ LookForMembership(h) \/ CreateMembership(h) \/ Authorize(h)
    \/ DeleteMembership(h) \/ AcceptMembership(h) \/ EditTeam(h) \/ ConnectTeam(h) \/ CutShort(h)

TeamsNext == \E h \in Callers : CallerStep(h)

TeamsSpec == TeamsInit /\ [][TeamsNext]_teamsVars

-----------------------------------------------------------------------------
\* Nobody becomes a member, or edits by a membership, without having asked for this very
\* membership, by making the team or by asking to accept that invitation: except for
\* owners that staff have named, and invitations made while their address was accepting
\* another one to the same team, which had been removed.
MembersAgreed ==
    \A i \in RowIds : IsAccepted(i) \/ i \in edits => i \in agreed \cup given \cup renewed

\* An invitation that is pending when it is deleted was deleted by a manager of the
\* team or by who was invited. Removal asks for this only if it reads PENDING, and
\* that is enough: no membership becomes pending again, and a new invitation to the
\* same address has another id.
WithdrawnByRight == \A w \in withdrawn : w[2]

-----------------------------------------------------------------------------
(* Why they hold: an inductive invariant.                                  *)

\* A request of which no membership was made yet.
Fresh == {"idle", "own", "look", "create"}

\* A membership of address a in team t that a request to accept would make accepted.
Agreeable(a, t) == \A i \in Find(t, a) : i \in agreed \cup given \cup renewed

\* What request q has found out, and what stays true of it.
Knows(q) ==
    /\ q.at \in {"own", "look", "create", "accept", "connect"} => q.team \in teams
    /\ q.at \in {"own", "accept"} => q.actor \in Addresses
    /\ q.at \in {"own", "look", "create"} => q.target \in Addresses
    /\ q.at = "accept" => Agreeable(q.actor, q.team)
    /\ q.at = "edit" => q.id \in agreed \cup given \cup renewed
    /\ q.at \in {"authorize", "delete"} => q.id \in RowIds /\ q.row \in Membership
    /\ q.at \in {"authorize", "delete"} /\ q.row.acceptanceStatus = "ACCEPTED" =>
          memberships[q.id] = NoRow \/ IsAccepted(q.id)
    /\ q.at = "delete" => q.right \/ q.row.acceptanceStatus = "ACCEPTED"

\* The ids of memberships are new.
NewIds ==
    \A h \in Callers : call[h].at \in Fresh =>
        memberships[h] = NoRow /\ \A k \in Callers : call[k].id # h

TeamsInv ==
    /\ TeamsTypeOK /\ MembersAgreed /\ WithdrawnByRight
    /\ \A h \in Callers : Knows(call[h])
    /\ NewIds
=============================================================================
