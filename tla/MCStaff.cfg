SPECIFICATION StaffSpec
CONSTANTS
    a1 = a1  a2 = a2  j1 = j1  e1 = e1
    ensName = ensName  email = email  hex = hex  mail = mail
    k1 = k1  k2 = k2  j2 = j2  q1 = q1  q2 = q2  p1 = p1
    s1 = s1  s2 = s2  t1 = t1  t2 = t2  t3 = t3
    h1 = h1  h2 = h2  h3 = h3  team1 = team1  team2 = team2
    o1 = o1  o2 = o2  r1 = r1  g1 = g1
    Approvers = {a1, a2}
    Rejecters = {j1}
    Editors = {e1}
    Contributors = {ensName, email}
    Account <- MCAccount
    MinCodes = 1
    Buffer = 1
    MaxCodes = 3
    NoRequest = NoRequest
    NoGitPOAP = NoGitPOAP
    Creators = {k1, k2}
    Adders = {j2}
    Repos = {q1, q2}
    OldProjects = {p1}
    NoProject = NoProject
    Servers = {s1, s2}
    Attempts = {t1, t2, t3}
    ServerOf <- MCServerOf
    Callers = {h1, h2, h3}
    Addresses = {o1, o2}
    StaffAddresses = {o2}
    TeamIds = {team1, team2}
    GitPOAPs = {g1}
    Before = {r1}
    NoTeam = NoTeam  NoAddress = NoAddress  NoRow = NoRow
INVARIANT DecidedOnce
INVARIANT ApprovedHaveGitPOAPs
INVARIANT ContributorsHaveClaims
INVARIANT EnoughCodes
INVARIANT ReposStay
INVARIANT UndoneAreGone
INVARIANT RunsAreSpaced
INVARIANT MembersAgreed
INVARIANT WithdrawnByRight
CHECK_DEADLOCK FALSE
