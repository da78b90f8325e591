----------------------------- MODULE TeamsProofs -----------------------------
(* Proofs about Teams, for any number of requests, addresses and teams.    *)
EXTENDS Teams, TLAPS

LEMMA IdsAndIdle ==
    /\ Callers \subseteq RowIds /\ Before \subseteq RowIds
    /\ \A h \in Callers : h # NoRow /\ h \notin Before
    /\ NoCall \in Call /\ NoCall.at = "idle" /\ NoCall.id = NoRow
  BY TeamsAssumption DEF RowIds, NoCall, Call

LEMMA InitInv == TeamsInit => TeamsInv
  <1> SUFFICES ASSUME TeamsInit PROVE TeamsInv
    OBVIOUS
  <1>1. call \in [Callers -> Call] /\ \A h \in Callers : call[h] = NoCall
    BY IdsAndIdle DEF TeamsInit
  <1>2. PICK before \in [Before -> {m \in Membership : m.team \in teams} \cup {NoRow}] :
          memberships = [i \in RowIds |-> IF i \in Before THEN before[i] ELSE NoRow]
    BY DEF TeamsInit
  <1>3. /\ memberships \in [RowIds -> Membership \cup {NoRow}]
        /\ \A i \in RowIds : memberships[i] # NoRow => i \in Before /\ memberships[i].team \in teams
    BY <1>2
  <1>4. agreed = {i \in Before : IsAccepted(i)} /\ edits = {} /\ withdrawn = {}
    BY DEF TeamsInit
  <1>5. TeamsTypeOK
    BY <1>1, <1>3, <1>4, IdsAndIdle DEF TeamsInit, TeamsTypeOK
  <1>6. MembersAgreed /\ WithdrawnByRight
    BY <1>3, <1>4 DEF IsAccepted, MembersAgreed, WithdrawnByRight
  <1>7. \A h \in Callers : Knows(call[h])
    BY <1>1, IdsAndIdle DEF Knows
  <1>8. NewIds
    BY <1>1, <1>3, IdsAndIdle DEF NewIds, Fresh
  <1>9. QED
    BY <1>5, <1>6, <1>7, <1>8 DEF TeamsInv

-----------------------------------------------------------------------------
(* What the step of a request h, which is q then, leaves to the others.    *)

Own(h, q) ==
    /\ call' = [call EXCEPT ![h] = q]
    /\ q.at \in Fresh => call[h].at \in Fresh
    /\ q.id \in {NoRow, call[h].id} \/ memberships'[q.id] # NoRow
    /\ teams \subseteq teams' /\ agreed \subseteq agreed'
    /\ given \subseteq given' /\ renewed \subseteq renewed'
    /\ \A i \in RowIds : memberships[i] = NoRow =>
          memberships'[i] = NoRow \/ (i = h /\ call[h].at \in Fresh /\ q.at \notin Fresh)
    /\ \A i \in RowIds : memberships[i] # NoRow /\ memberships[i].acceptanceStatus = "ACCEPTED" =>
          memberships'[i] = NoRow \/ memberships'[i].acceptanceStatus = "ACCEPTED"
    /\ \A i \in RowIds : memberships'[i] # NoRow =>
          \/ i \in agreed' \cup given' \cup renewed'
          \/ ~Accepting(memberships'[i].address, memberships'[i].team)
          \/ /\ memberships[i] # NoRow /\ memberships'[i].team = memberships[i].team
             /\ memberships'[i].address = memberships[i].address

\* What the others know stays true, and it remains to look at q itself.
LEMMA Frame ==
    ASSUME TeamsInv, NEW h \in Callers, NEW q \in Call, Own(h, q),
           TeamsTypeOK', MembersAgreed', WithdrawnByRight', Knows(q)'
    PROVE  TeamsInv'
  <1>1. call'[h] = q /\ \A k \in Callers \ {h} : call'[k] = call[k]
    BY DEF Own, TeamsInv, TeamsTypeOK
  <1>2. ASSUME NEW k \in Callers, k # h, NEW r, r = call[k] PROVE Knows(r)'
    <2>1. Knows(r) /\ r \in Call
      BY <1>2 DEF TeamsInv, TeamsTypeOK
    <2>2. ASSUME r.at \in {"authorize", "delete"}, r.row.acceptanceStatus = "ACCEPTED"
          PROVE  memberships'[r.id] = NoRow \/ memberships'[r.id].acceptanceStatus = "ACCEPTED"
      <3>1. r.id \in RowIds
        BY <2>1, <2>2 DEF Knows
      <3>2. CASE memberships[r.id] = NoRow
        <4>1. ~(r.id = h /\ call[h].at \in Fresh)
          BY <1>2 DEF TeamsInv, NewIds
        <4>2. QED
          BY <3>1, <3>2, <4>1 DEF Own
      <3>3. CASE memberships[r.id] # NoRow /\ memberships[r.id].acceptanceStatus = "ACCEPTED"
        BY <3>1, <3>3 DEF Own
      <3>4. QED
        BY <2>1, <2>2, <3>2, <3>3 DEF Knows, IsAccepted
    <2>3. ASSUME r.at = "accept" PROVE Agreeable(r.actor, r.team)'
      <3>1. SUFFICES ASSUME NEW i \in RowIds, memberships'[i] # NoRow,
                            memberships'[i].team = r.team, memberships'[i].address = r.actor
                     PROVE  i \in agreed' \cup given' \cup renewed'
        BY DEF Agreeable, Find
      <3>2. Accepting(r.actor, r.team)
        BY <1>2, <2>3 DEF Accepting
      <3>3. CASE /\ memberships[i] # NoRow /\ memberships'[i].team = memberships[i].team
                 /\ memberships'[i].address = memberships[i].address
        <4>1. i \in Find(r.team, r.actor)
          BY <3>1, <3>3 DEF Find
        <4>2. i \in agreed \cup given \cup renewed
          BY <2>1, <2>3, <4>1 DEF Knows, Agreeable
        <4>3. QED
          BY <4>2 DEF Own
      <3>4. QED
        BY <3>1, <3>2, <3>3 DEF Own
    <2>4. r.at = "edit" => r.id \in agreed' \cup given' \cup renewed'
      BY <2>1 DEF Knows, Own
    <2>5. QED
      BY <2>1, <2>2, <2>3, <2>4 DEF Knows, Own, IsAccepted
  <1>3. \A k \in Callers : Knows(call[k])'
    <2>1. ASSUME NEW k \in Callers PROVE Knows(call[k])'
      <3>1. CASE k = h
        BY <1>1, <3>1 DEF Knows, Agreeable
      <3>2. CASE k # h
        <4>1. PICK r : r = call[k]
          OBVIOUS
        <4>2. Knows(r)'
          BY <1>2, <3>2, <4>1
        <4>3. call'[k] = r
          BY <1>1, <3>2, <4>1
        <4>4. QED
          BY <4>2, <4>3 DEF Knows, Agreeable
      <3>3. QED
        BY <3>1, <3>2
    <2>2. QED
      BY <2>1
  <1>4. NewIds'
    <2>1. ASSUME NEW f \in Callers, call'[f].at \in Fresh
          PROVE  memberships'[f] = NoRow /\ \A k \in Callers : call'[k].id # f
      <3>1. call[f].at \in Fresh /\ (f = h => q.at \in Fresh)
        BY <1>1, <2>1 DEF Own
      <3>2. memberships[f] = NoRow /\ \A k \in Callers : call[k].id # f
        BY <3>1 DEF TeamsInv, NewIds
      <3>3. memberships'[f] = NoRow
        BY <3>1, <3>2, IdsAndIdle DEF Own
      <3>4. q.id # f
        BY <3>2, <3>3, IdsAndIdle DEF Own
      <3>5. QED
        BY <1>1, <3>2, <3>3, <3>4
    <2>2. QED
      BY <2>1 DEF NewIds
  <1>5. QED
    BY <1>3, <1>4 DEF TeamsInv

\* A step that changes a request only.
LEMMA HandInv ==
    ASSUME TeamsInv, NEW h \in Callers, NEW q \in Call, call' = [call EXCEPT ![h] = q],
           q.at \in Fresh => call[h].at \in Fresh,
           q.id \in {NoRow, call[h].id} \/ memberships[q.id] # NoRow,
           Knows(q),
           UNCHANGED <<teams, memberships, teamOf, teamsHistory>>
    PROVE  TeamsInv'
  <1>1. Own(h, q)
    BY DEF Own, teamsHistory
  <1>2. TeamsTypeOK'
    BY DEF TeamsInv, TeamsTypeOK, teamsHistory
  <1>3. MembersAgreed' /\ WithdrawnByRight' /\ Knows(q)'
    BY DEF TeamsInv, MembersAgreed, IsAccepted, WithdrawnByRight, Knows, Agreeable, Find,
           teamsHistory
  <1>4. QED
    BY <1>1, <1>2, <1>3, Frame

LEMMA Done ==
    ASSUME TeamsInv, NEW h \in Callers, Leave(h)
    PROVE  \E q \in Call : /\ call' = [call EXCEPT ![h] = q]
                          /\ q.at = "done" /\ q.id = NoRow
  <1>1. PICK q : q = [NoCall EXCEPT !.at = "done"]
    OBVIOUS
  <1>2. q \in Call /\ q.at = "done" /\ q.id = NoRow
    BY <1>1, IdsAndIdle DEF Call
  <1>3. QED
    BY <1>1, <1>2 DEF Leave

\* A step that ends a request, without effect.
LEMMA EndInv ==
    ASSUME TeamsInv, NEW h \in Callers, Leave(h), UNCHANGED <<teams, memberships, teamOf, teamsHistory>>
    PROVE  TeamsInv'
  <1>1. PICK q \in Call : /\ call' = [call EXCEPT ![h] = q]
                          /\ q.at = "done" /\ q.id = NoRow
    BY Done
  <1>2. Knows(q)
    BY <1>1 DEF Knows
  <1>3. QED
    BY <1>1, <1>2, HandInv DEF Fresh

LEMMA Begun ==
    ASSUME NEW h \in Callers, NEW fields \in Call,
           NEW step \in {"own", "look", "authorize", "delete", "accept", "edit", "connect"},
           Start(h, step, fields)
    PROVE  \E q \in Call :
              /\ call' = [call EXCEPT ![h] = q]
              /\ q.at = step /\ q.team = fields.team /\ q.actor = fields.actor
              /\ q.target = fields.target /\ q.id = fields.id /\ q.row = fields.row
              /\ q.right = fields.right
  <1>1. PICK q : q = [fields EXCEPT !.at = step]
    OBVIOUS
  <1>2. /\ q \in Call /\ q.at = step /\ q.team = fields.team /\ q.actor = fields.actor
        /\ q.target = fields.target /\ q.id = fields.id /\ q.row = fields.row
    BY <1>1 DEF Call
  <1>3. q.right = fields.right
    BY <1>1 DEF Call
  <1>4. QED
    BY <1>1, <1>2, <1>3 DEF Start

-----------------------------------------------------------------------------
(* Reading steps.                                                          *)

LEMMA ReadInviterInv ==
    ASSUME TeamsInv, NEW h \in Callers, NEW a \in Addresses, NEW b \in Addresses,
           NEW t \in TeamIds, ReadInviter(h, a, b, t)
    PROVE  TeamsInv'
  <1>1. PICK f : f = [NoCall EXCEPT !.actor = a, !.target = b, !.team = t]
    OBVIOUS
  <1>2. /\ f \in Call /\ f.actor = a /\ f.target = b /\ f.team = t
        /\ f.id = NoRow
    BY <1>1, IdsAndIdle DEF NoCall, Call
  <1>3. CASE Start(h, "look", f)
    <2>1. PICK q \in Call : /\ call' = [call EXCEPT ![h] = q] /\ q.at = "look" /\ q.team = t
                            /\ q.target = b /\ q.id = NoRow
      BY <1>2, <1>3, Begun
    <2>2. Knows(q)
      BY <2>1 DEF Knows, ReadInviter
    <2>3. QED
      BY <2>1, <2>2, HandInv DEF ReadInviter, Fresh
  <1>4. CASE Leave(h)
    BY <1>4, EndInv DEF ReadInviter
  <1>5. QED
    BY <1>1, <1>3, <1>4 DEF ReadInviter

LEMMA LookInv == ASSUME TeamsInv, NEW h \in Callers, LookForMembership(h) PROVE TeamsInv'
  <1>1. CASE Proceed(h, "create")
    <2>1. PICK q : q = [call[h] EXCEPT !.at = "create"]
      OBVIOUS
    <2>2. call[h] \in Call /\ Knows(call[h]) /\ call[h].at = "look"
      BY DEF LookForMembership, TeamsInv, TeamsTypeOK
    <2>3. /\ q \in Call /\ q.at = "create" /\ q.team = call[h].team /\ q.target = call[h].target
          /\ q.id = call[h].id
      BY <2>1, <2>2 DEF Call
    <2>4. Knows(q)
      BY <2>2, <2>3 DEF Knows
    <2>5. call' = [call EXCEPT ![h] = q]
      BY <1>1, <2>1 DEF Proceed
    <2>6. QED
      BY <2>2, <2>3, <2>4, <2>5, HandInv DEF LookForMembership, Fresh
  <1>2. CASE Leave(h)
    BY <1>2, EndInv DEF LookForMembership
  <1>3. QED
    BY <1>1, <1>2 DEF LookForMembership

LEMMA ReadMembershipInv ==
    ASSUME TeamsInv, NEW h \in Callers, NEW a \in Addresses, NEW i \in RowIds,
           ReadMembership(h, a, i)
    PROVE  TeamsInv'
  <1>1. CASE Leave(h)
    BY <1>1, EndInv DEF ReadMembership
  <1>2. CASE memberships[i] # NoRow
    <2>1. PICK f : f = [NoCall EXCEPT !.actor = a, !.id = i, !.row = memberships[i],
                                    !.team = memberships[i].team]
      OBVIOUS
    <2>2. memberships[i] \in Membership /\ memberships[i].team \in TeamIds
      BY <1>2 DEF TeamsInv, TeamsTypeOK, Membership
    <2>3. f \in Call /\ f.id = i /\ f.row = memberships[i]
      BY <2>1, <2>2 DEF NoCall, Call
    <2>4. Start(h, "authorize", f)
      BY <1>2, <2>1 DEF ReadMembership
    <2>5. PICK q \in Call : /\ call' = [call EXCEPT ![h] = q] /\ q.at = "authorize"
                            /\ q.id = i /\ q.row = memberships[i]
      BY <2>3, <2>4, Begun
    <2>6. Knows(q)
      BY <2>2, <2>5 DEF Knows, IsAccepted
    <2>7. QED
      BY <1>2, <2>5, <2>6, HandInv DEF ReadMembership, Fresh
  <1>3. QED
    BY <1>1, <1>2 DEF ReadMembership

LEMMA AuthorizeInv == ASSUME TeamsInv, NEW h \in Callers, Authorize(h) PROVE TeamsInv'
  <1>1. PICK right \in BOOLEAN :
          right = (Manages(call[h].actor, call[h].team) \/ call[h].actor = call[h].row.address)
    OBVIOUS
  <1>2. CASE Leave(h)
    BY <1>2, EndInv DEF Authorize
  <1>3. CASE /\ right \/ call[h].row.acceptanceStatus # "PENDING"
             /\ Start(h, "delete", [call[h] EXCEPT !.right = right])
    <2>1. call[h] \in Call /\ Knows(call[h]) /\ call[h].at = "authorize"
      BY DEF Authorize, TeamsInv, TeamsTypeOK
    <2>2. PICK f : f = [call[h] EXCEPT !.right = right]
      OBVIOUS
    <2>3. f \in Call /\ f.id = call[h].id /\ f.row = call[h].row
      BY <2>1, <2>2 DEF Call
    <2>4. f.right = right
      BY <2>1, <2>2 DEF Call
    <2>5. PICK q \in Call : /\ call' = [call EXCEPT ![h] = q] /\ q.at = "delete"
                            /\ q.id = f.id /\ q.row = f.row /\ q.right = f.right
      <3>1. Start(h, "delete", f)
        BY <1>3, <2>2
      <3>2. QED
        BY <2>3, <3>1, Begun
    <2>6. q.right \/ call[h].row.acceptanceStatus # "PENDING"
      BY <1>3, <2>4, <2>5
    <2>7. call[h].row \in Membership
      BY <2>1 DEF Knows
    <2>8. Knows(q)
      <3>1. q.right \/ q.row.acceptanceStatus = "ACCEPTED"
        BY <2>3, <2>5, <2>6, <2>7 DEF Membership
      <3>2. QED
        BY <2>1, <2>3, <2>5, <3>1 DEF Knows
    <2>9. QED
      BY <2>3, <2>5, <2>8, HandInv DEF Authorize, Fresh
  <1>4. QED
    BY <1>1, <1>2, <1>3 DEF Authorize

LEMMA CheckEditorInv ==
    ASSUME TeamsInv, NEW h \in Callers, NEW a \in Addresses, NEW t \in TeamIds,
           CheckEditor(h, a, t)
    PROVE  TeamsInv'
  <1>1. CASE Leave(h)
    BY <1>1, EndInv DEF CheckEditor
  <1>2. ASSUME NEW i \in EditorBy(a, t), Start(h, "edit", [NoCall EXCEPT !.id = i])
        PROVE  TeamsInv'
    <2>1. i \in RowIds /\ IsAccepted(i) /\ memberships[i] # NoRow
      BY DEF EditorBy, Find
    <2>2. PICK f : f = [NoCall EXCEPT !.id = i]
      OBVIOUS
    <2>3. f \in Call /\ f.id = i
      BY <2>1, <2>2 DEF NoCall, Call
    <2>4. PICK q \in Call : call' = [call EXCEPT ![h] = q] /\ q.at = "edit" /\ q.id = i
      <3>1. Start(h, "edit", f)
        BY <1>2, <2>2
      <3>2. QED
        BY <2>3, <3>1, Begun
    <2>5. i \in agreed \cup given \cup renewed
      BY <2>1 DEF TeamsInv, MembersAgreed
    <2>6. Knows(q)
      BY <2>4, <2>5 DEF Knows
    <2>7. QED
      BY <2>1, <2>4, <2>6, HandInv DEF CheckEditor, Fresh
  <1>3. QED
    BY <1>1, <1>2 DEF CheckEditor

LEMMA ReadInvitationInv ==
    ASSUME TeamsInv, NEW h \in Callers, NEW a \in Addresses, NEW t \in TeamIds,
           ReadInvitation(h, a, t)
    PROVE  TeamsInv'
  <1>1. PICK invited : invited = {i \in Find(t, a) : ~IsAccepted(i)}
    OBVIOUS
  <1>2. agreed' = agreed \cup invited /\ invited \subseteq RowIds
    BY <1>1 DEF ReadInvitation, Find
  <1>3. CASE Leave(h) /\ invited = {}
    <2>1. UNCHANGED <<teams, memberships, teamOf, teamsHistory>>
      BY <1>2, <1>3 DEF ReadInvitation, teamsHistory
    <2>2. QED
      BY <1>3, <2>1, EndInv
  <1>4. CASE Start(h, "accept", [NoCall EXCEPT !.actor = a, !.team = t])
    <2>1. PICK f : f = [NoCall EXCEPT !.actor = a, !.team = t]
      OBVIOUS
    <2>2. f \in Call /\ f.actor = a /\ f.team = t /\ f.id = NoRow
      BY <2>1 DEF NoCall, Call
    <2>3. PICK q \in Call : /\ call' = [call EXCEPT ![h] = q] /\ q.at = "accept" /\ q.actor = a
                            /\ q.team = t /\ q.id = NoRow
      <3>1. Start(h, "accept", f)
        BY <1>4, <2>1
      <3>2. QED
        BY <2>2, <3>1, Begun
    <2>4. Own(h, q)
      BY <1>2, <2>3 DEF ReadInvitation, Own, Fresh
    <2>5. TeamsTypeOK'
      BY <1>2, <2>3 DEF ReadInvitation, TeamsInv, TeamsTypeOK
    <2>6. MembersAgreed' /\ WithdrawnByRight'
      BY <1>2 DEF ReadInvitation, TeamsInv, MembersAgreed, IsAccepted, WithdrawnByRight
    <2>7. Agreeable(a, t)'
      <3>1. ASSUME NEW i \in Find(t, a) PROVE i \in agreed' \cup given \cup renewed
        BY <1>1, <1>2 DEF Find, TeamsInv, MembersAgreed
      <3>2. QED
        BY <3>1 DEF Agreeable, Find, ReadInvitation
    <2>8. Knows(q)'
      BY <2>3, <2>7 DEF ReadInvitation, Knows
    <2>9. QED
      BY <2>4, <2>5, <2>6, <2>8, Frame
  <1>5. QED
    BY <1>1, <1>3, <1>4 DEF ReadInvitation

LEMMA ReadGitPOAPInv ==
    ASSUME TeamsInv, NEW h \in Callers, NEW g \in GitPOAPs, NEW t \in TeamIds,
           ReadGitPOAP(h, g, t)
    PROVE  TeamsInv'
  <1>1. PICK f : f = [NoCall EXCEPT !.team = t, !.gitPOAP = {g}]
    OBVIOUS
  <1>2. f \in Call /\ f.team = t /\ f.id = NoRow
    BY <1>1 DEF NoCall, Call
  <1>3. CASE Start(h, "connect", f)
    <2>1. PICK q \in Call : /\ call' = [call EXCEPT ![h] = q] /\ q.at = "connect"
                            /\ q.team = t /\ q.id = NoRow
      BY <1>2, <1>3, Begun
    <2>2. Knows(q)
      BY <2>1 DEF Knows, ReadGitPOAP
    <2>3. QED
      BY <2>1, <2>2, HandInv DEF ReadGitPOAP, Fresh
  <1>4. CASE Leave(h)
    BY <1>4, EndInv DEF ReadGitPOAP
  <1>5. QED
    BY <1>1, <1>3, <1>4 DEF ReadGitPOAP

-----------------------------------------------------------------------------
(* Writing steps.                                                          *)

LEMMA CreateTeamInv ==
    ASSUME TeamsInv, NEW h \in Callers, NEW a \in Addresses, NEW b \in Addresses,
           NEW t \in TeamIds, CreateTeam(h, a, b, t)
    PROVE  TeamsInv'
  <1>1. PICK f : f = [NoCall EXCEPT !.actor = a, !.target = b, !.team = t]
    OBVIOUS
  <1>2. f \in Call /\ f.actor = a /\ f.target = b /\ f.team = t /\ f.id = NoRow
    BY <1>1 DEF NoCall, Call
  <1>3. PICK q \in Call : /\ call' = [call EXCEPT ![h] = q] /\ q.at = "own" /\ q.actor = a
                          /\ q.target = b /\ q.team = t /\ q.id = NoRow
    <2>1. Start(h, "own", f)
      BY <1>1 DEF CreateTeam
    <2>2. QED
      BY <1>2, <2>1, Begun
  <1>4. Own(h, q)
    BY <1>3 DEF CreateTeam, Own, Fresh, teamsHistory
  <1>5. TeamsTypeOK'
    BY <1>3 DEF CreateTeam, TeamsInv, TeamsTypeOK, teamsHistory
  <1>6. MembersAgreed' /\ WithdrawnByRight'
    BY DEF CreateTeam, TeamsInv, MembersAgreed, IsAccepted, WithdrawnByRight, teamsHistory
  <1>7. Knows(q)'
    BY <1>3 DEF CreateTeam, Knows
  <1>8. QED
    BY <1>4, <1>5, <1>6, <1>7, Frame

\* The membership of h is inserted, under a new id.
LEMMA NewRow ==
    ASSUME TeamsInv, NEW h \in Callers, call[h].at \in {"own", "create"}, Leave(h),
           NEW m \in Membership, m.team \in teams, memberships' = [memberships EXCEPT ![h] = m],
           m.acceptanceStatus = "ACCEPTED" \/ Accepting(m.address, m.team) =>
              h \in agreed' \cup given' \cup renewed',
           agreed \subseteq agreed', given \subseteq given', renewed \subseteq renewed',
           agreed' \cup given' \cup renewed' \subseteq RowIds,
           UNCHANGED <<teams, teamOf, edits, withdrawn>>
    PROVE  TeamsInv'
  <1>1. PICK q \in Call : /\ call' = [call EXCEPT ![h] = q]
                          /\ q.at = "done" /\ q.id = NoRow
    BY Done
  <1>2. h \in RowIds /\ memberships[h] = NoRow /\ call[h].at \in Fresh
    BY IdsAndIdle DEF TeamsInv, NewIds, Fresh
  <1>3. /\ memberships' \in [RowIds -> Membership \cup {NoRow}] /\ memberships'[h] = m
        /\ \A i \in RowIds \ {h} : memberships'[i] = memberships[i]
    BY <1>2 DEF TeamsInv, TeamsTypeOK
  <1>4. Own(h, q)
    BY <1>1, <1>2, <1>3 DEF Own, Fresh
  <1>5. TeamsTypeOK'
    BY <1>1, <1>3 DEF TeamsInv, TeamsTypeOK
  <1>6. MembersAgreed' /\ WithdrawnByRight'
    BY <1>3 DEF TeamsInv, MembersAgreed, IsAccepted, WithdrawnByRight
  <1>7. Knows(q)'
    BY <1>1 DEF Knows
  <1>8. QED
    BY <1>4, <1>5, <1>6, <1>7, Frame

LEMMA CreateOwnerInv == ASSUME TeamsInv, NEW h \in Callers, CreateOwner(h) PROVE TeamsInv'
  <1>1. call[h] \in Call /\ call[h].team \in teams /\ call[h].target \in Addresses
    BY DEF CreateOwner, TeamsInv, TeamsTypeOK, Knows
  <1>2. PICK m : m = [team |-> call[h].team, address |-> call[h].target, role |-> "OWNER",
                      acceptanceStatus |-> "ACCEPTED"]
    OBVIOUS
  <1>3. call[h].team \in TeamIds
    BY <1>1 DEF TeamsInv, TeamsTypeOK
  <1>4. m \in Membership /\ m.team = call[h].team
    BY <1>1, <1>2, <1>3 DEF Membership, Roles
  <1>5. /\ agreed' \in {agreed, agreed \cup {h}} /\ given' \in {given, given \cup {h}}
        /\ h \in agreed' \cup given' /\ renewed' = renewed
    BY DEF CreateOwner
  <1>6. agreed' \cup given' \cup renewed' \subseteq RowIds
    BY <1>5, IdsAndIdle DEF TeamsInv, TeamsTypeOK
  <1>7. QED
    BY <1>1, <1>2, <1>4, <1>5, <1>6, NewRow DEF CreateOwner

LEMMA CreateMembershipInv == ASSUME TeamsInv, NEW h \in Callers, CreateMembership(h) PROVE TeamsInv'
  <1>1. call[h] \in Call /\ call[h].team \in teams /\ call[h].target \in Addresses
    BY DEF CreateMembership, TeamsInv, TeamsTypeOK, Knows
  <1>2. CASE UNCHANGED <<memberships, renewed>>
    BY <1>2, EndInv DEF CreateMembership, teamsHistory
  <1>3. CASE /\ memberships' = [memberships EXCEPT ![h] = Invitation(h)]
             /\ renewed' = renewed \cup {i \in {h} : Accepting(call[h].target, call[h].team)}
    <2>1. call[h].team \in TeamIds
      BY <1>1 DEF TeamsInv, TeamsTypeOK
    <2>2. PICK m : m = Invitation(h)
      OBVIOUS
    <2>3. /\ m \in Membership /\ m.team = call[h].team /\ m.address = call[h].target
          /\ m.acceptanceStatus = "PENDING"
      BY <1>1, <2>1, <2>2 DEF Invitation, Membership, Roles
    <2>4. /\ agreed' = agreed /\ given' = given
          /\ agreed' \cup given' \cup renewed' \subseteq RowIds
      BY <1>3, IdsAndIdle DEF CreateMembership, TeamsInv, TeamsTypeOK
    <2>5. Accepting(m.address, m.team) => h \in renewed'
      BY <1>3, <2>3
    <2>6. QED
      BY <1>1, <1>3, <2>2, <2>3, <2>4, <2>5, NewRow DEF CreateMembership
  <1>4. QED
    BY <1>2, <1>3 DEF CreateMembership

\* A pending membership that h deletes was read pending or had no right to be,
\* for the row of an accepted one is never pending again.
LEMMA DeleteMembershipInv ==
    ASSUME TeamsInv, NEW h \in Callers, DeleteMembership(h) PROVE TeamsInv'
  <1>1. PICK q \in Call : /\ call' = [call EXCEPT ![h] = q]
                          /\ q.at = "done" /\ q.id = NoRow
    BY Done DEF DeleteMembership
  <1>2. /\ memberships' \in [RowIds -> Membership \cup {NoRow}]
        /\ \A i \in RowIds : memberships'[i] \in {NoRow, memberships[i]}
    BY DEF DeleteMembership, TeamsInv, TeamsTypeOK
  <1>3. Own(h, q)
    BY <1>1, <1>2 DEF DeleteMembership, Own, Fresh
  <1>4. call[h] \in Call /\ Knows(call[h]) /\ call[h].at = "delete"
    BY DEF DeleteMembership, TeamsInv, TeamsTypeOK
  <1>5. withdrawn' \subseteq RowIds \X BOOLEAN
    <2>1. call[h].right \in BOOLEAN
      BY <1>4 DEF Call
    <2>2. Deleted(h) \subseteq RowIds
      BY <1>4 DEF Deleted, Knows
    <2>3. QED
      BY <2>1, <2>2 DEF DeleteMembership, TeamsInv, TeamsTypeOK
  <1>6. TeamsTypeOK'
    <2>1. call' \in [Callers -> Call]
      BY <1>1 DEF TeamsInv, TeamsTypeOK
    <2>2. \A i \in RowIds : memberships'[i] # NoRow => memberships'[i].team \in teams
      BY <1>2 DEF TeamsInv, TeamsTypeOK
    <2>3. QED
      BY <1>2, <1>5, <2>1, <2>2 DEF DeleteMembership, TeamsInv, TeamsTypeOK
  <1>7. MembersAgreed'
    BY <1>2 DEF DeleteMembership, TeamsInv, MembersAgreed, IsAccepted
  <1>8. WithdrawnByRight'
    <2>1. ASSUME NEW i \in Deleted(h), memberships[i].acceptanceStatus = "PENDING"
          PROVE  call[h].right
      <3>1. i = call[h].id /\ memberships[i] # NoRow
        BY DEF Deleted
      <3>2. call[h].row.acceptanceStatus # "ACCEPTED"
        BY <1>4, <2>1, <3>1 DEF Knows, IsAccepted
      <3>3. QED
        BY <1>4, <3>2 DEF Knows
    <2>2. QED
      BY <2>1 DEF DeleteMembership, TeamsInv, WithdrawnByRight
  <1>9. Knows(q)'
    BY <1>1 DEF Knows
  <1>10. QED
    BY <1>1, <1>3, <1>6, <1>7, <1>8, <1>9, Frame

LEMMA AcceptMembershipInv ==
    ASSUME TeamsInv, NEW h \in Callers, AcceptMembership(h) PROVE TeamsInv'
  <1>1. PICK q \in Call : /\ call' = [call EXCEPT ![h] = q]
                          /\ q.at = "done" /\ q.id = NoRow
    BY Done DEF AcceptMembership
  <1>2. ASSUME NEW i \in RowIds
        PROVE  \/ memberships'[i] = memberships[i]
               \/ /\ memberships[i] \in Membership /\ memberships'[i] \in Membership
                  /\ memberships'[i].team = memberships[i].team
                  /\ memberships'[i].address = memberships[i].address
                  /\ memberships'[i].acceptanceStatus = "ACCEPTED"
                  /\ memberships[i].team = call[h].team /\ memberships[i].address = call[h].actor
    <2>1. CASE i \in Accepted(h)
      <3>1. /\ memberships[i] \in Membership
            /\ memberships[i].team = call[h].team /\ memberships[i].address = call[h].actor
        BY <2>1 DEF Accepted, Find, TeamsInv, TeamsTypeOK
      <3>2. memberships'[i] = [memberships[i] EXCEPT !.acceptanceStatus = "ACCEPTED"]
        BY <2>1 DEF AcceptMembership
      <3>3. QED
        BY <3>1, <3>2 DEF Membership
    <2>2. CASE i \notin Accepted(h)
      BY <2>2 DEF AcceptMembership
    <2>3. QED
      BY <2>1, <2>2
  <1>3. memberships' \in [RowIds -> Membership \cup {NoRow}]
    <2>1. \A i \in RowIds : memberships'[i] \in Membership \cup {NoRow}
      BY <1>2 DEF TeamsInv, TeamsTypeOK
    <2>2. DOMAIN memberships' = RowIds /\ memberships' = [i \in RowIds |-> memberships'[i]]
      BY DEF AcceptMembership
    <2>3. QED
      BY <2>1, <2>2
  <1>4. Agreeable(call[h].actor, call[h].team)
    BY DEF AcceptMembership, TeamsInv, Knows
  <1>5. \A i \in RowIds : memberships'[i] = NoRow <=> memberships[i] = NoRow
    BY <1>2, TeamsAssumption
  <1>6. Own(h, q)
    BY <1>1, <1>2, <1>5 DEF AcceptMembership, Own, Fresh, teamsHistory
  <1>7. TeamsTypeOK'
    <2>1. call' \in [Callers -> Call]
      BY <1>1 DEF TeamsInv, TeamsTypeOK
    <2>2. \A i \in RowIds : memberships'[i] # NoRow => memberships'[i].team \in teams
      BY <1>2, <1>5 DEF TeamsInv, TeamsTypeOK
    <2>3. QED
      BY <1>3, <2>1, <2>2 DEF AcceptMembership, teamsHistory, TeamsInv, TeamsTypeOK
  <1>8. MembersAgreed' /\ WithdrawnByRight'
    <2>1. UNCHANGED teamsHistory /\ WithdrawnByRight'
      BY DEF AcceptMembership, teamsHistory, TeamsInv, WithdrawnByRight
    <2>2. ASSUME NEW i \in RowIds, IsAccepted(i)' PROVE i \in agreed \cup given \cup renewed
      <3>1. CASE memberships'[i] = memberships[i]
        BY <2>2, <3>1 DEF TeamsInv, MembersAgreed, IsAccepted
      <3>2. CASE memberships'[i] # memberships[i]
        <4>1. i \in Find(call[h].team, call[h].actor)
          BY <1>2, <3>2, TeamsAssumption DEF Find
        <4>2. QED
          BY <1>4, <4>1 DEF Agreeable
      <3>3. QED
        BY <3>1, <3>2
    <2>3. QED
      BY <2>1, <2>2 DEF MembersAgreed, TeamsInv, teamsHistory
  <1>9. Knows(q)'
    BY <1>1 DEF Knows
  <1>10. QED
    BY <1>6, <1>7, <1>8, <1>9, Frame

LEMMA EditInv == ASSUME TeamsInv, NEW h \in Callers, EditTeam(h) PROVE TeamsInv'
  <1>1. PICK q \in Call : /\ call' = [call EXCEPT ![h] = q]
                          /\ q.at = "done" /\ q.id = NoRow
    BY Done DEF EditTeam
  <1>2. call[h].id \in agreed \cup given \cup renewed
    BY DEF EditTeam, TeamsInv, Knows
  <1>3. edits' \subseteq RowIds
    BY <1>2 DEF EditTeam, TeamsInv, TeamsTypeOK
  <1>4. Own(h, q)
    BY <1>1 DEF EditTeam, Own, Fresh
  <1>5. TeamsTypeOK'
    BY <1>1, <1>3 DEF EditTeam, TeamsInv, TeamsTypeOK
  <1>6. MembersAgreed' /\ WithdrawnByRight'
    BY <1>2 DEF EditTeam, TeamsInv, MembersAgreed, IsAccepted, WithdrawnByRight
  <1>7. Knows(q)'
    BY <1>1 DEF Knows
  <1>8. QED
    BY <1>4, <1>5, <1>6, <1>7, Frame

LEMMA ConnectTeamInv == ASSUME TeamsInv, NEW h \in Callers, ConnectTeam(h) PROVE TeamsInv'
  <1>1. PICK q \in Call : /\ call' = [call EXCEPT ![h] = q]
                          /\ q.at = "done" /\ q.id = NoRow
    BY Done DEF ConnectTeam
  <1>2. call[h] \in Call /\ call[h].team \in TeamIds
    BY DEF ConnectTeam, TeamsInv, TeamsTypeOK, Knows
  <1>3. Own(h, q)
    BY <1>1 DEF ConnectTeam, Own, Fresh, teamsHistory
  <1>4. TeamsTypeOK'
    BY <1>1, <1>2 DEF ConnectTeam, teamsHistory, TeamsInv, TeamsTypeOK
  <1>5. MembersAgreed' /\ WithdrawnByRight'
    BY DEF ConnectTeam, teamsHistory, TeamsInv, MembersAgreed, IsAccepted, WithdrawnByRight
  <1>6. Knows(q)'
    BY <1>1 DEF Knows
  <1>7. QED
    BY <1>3, <1>4, <1>5, <1>6, Frame

LEMMA StepInv == TeamsInv /\ [TeamsNext]_teamsVars => TeamsInv'
  <1> SUFFICES ASSUME TeamsInv, [TeamsNext]_teamsVars PROVE TeamsInv'
    OBVIOUS
  <1>1. ASSUME NEW h \in Callers, CallerStep(h) PROVE TeamsInv'
    <2>1. CASE \/ \E a \in Addresses, t \in TeamIds :
                     ReadInvitation(h, a, t) \/ CheckEditor(h, a, t)
               \/ \E a, b \in Addresses, t \in TeamIds : CreateTeam(h, a, b, t)
      BY <2>1, CreateTeamInv, ReadInvitationInv, CheckEditorInv
    <2>2. CASE \/ \E a, b \in Addresses, t \in TeamIds : ReadInviter(h, a, b, t)
               \/ \E a \in Addresses, i \in RowIds : ReadMembership(h, a, i)
               \/ \E g \in GitPOAPs, t \in TeamIds : ReadGitPOAP(h, g, t)
      BY <2>2, ReadInviterInv, ReadMembershipInv, ReadGitPOAPInv
    <2>3. CASE CreateOwner(h) \/ LookForMembership(h) \/ CreateMembership(h) \/ Authorize(h)
      BY <2>3, CreateOwnerInv, LookInv, CreateMembershipInv, AuthorizeInv
    <2>4. CASE DeleteMembership(h) \/ AcceptMembership(h) \/ EditTeam(h) \/ ConnectTeam(h)
      BY <2>4, DeleteMembershipInv, AcceptMembershipInv, EditInv, ConnectTeamInv
    <2>5. CASE CutShort(h)
      BY <2>5, EndInv DEF CutShort
    <2>6. QED
      BY <1>1, <2>1, <2>2, <2>3, <2>4, <2>5 DEF CallerStep
  <1>2. CASE UNCHANGED teamsVars
    BY <1>2 DEF teamsVars, teamsHistory, TeamsInv, TeamsTypeOK, MembersAgreed, WithdrawnByRight, Knows,
                NewIds, Find, IsAccepted, Agreeable
  <1>3. QED
    BY <1>1, <1>2 DEF TeamsNext

LEMMA InvHolds == TeamsSpec => []TeamsInv
  BY InitInv, StepInv, PTL DEF TeamsSpec

-----------------------------------------------------------------------------
\* Rows and requests keep their types; every membership is of a team there is.
THEOREM TypesHold == TeamsSpec => []TeamsTypeOK
  <1>1. TeamsInv => TeamsTypeOK
    BY DEF TeamsInv
  <1>2. QED
    BY <1>1, InvHolds, PTL

\* Every accepted membership, and every one somebody edited a team by, was asked for by
\* its own address, except owners named by staff and invitations made while their
\* address was accepting another.
THEOREM MembersHaveAgreed == TeamsSpec => []MembersAgreed
  <1>1. TeamsInv => MembersAgreed
    BY DEF TeamsInv
  <1>2. QED
    BY <1>1, InvHolds, PTL

\* An invitation is withdrawn only by a manager or by who was invited, although the
\* status that decides on it was read before.
THEOREM WithdrawalsAreRightful == TeamsSpec => []WithdrawnByRight
  <1>1. TeamsInv => WithdrawnByRight
    BY DEF TeamsInv
  <1>2. QED
    BY <1>1, InvHolds, PTL
=============================================================================
