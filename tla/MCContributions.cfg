SPECIFICATION Spec
CONSTANTS
    u1 = u1  u2 = u2  p1 = p1  i1 = i1  g1 = g1  g2 = g2  h1 = h1  h2 = h2
    Users = {u1, u2}
    Pulls = {p1}
    Issues = {i1}
    GitPOAPs = {g1, g2}
    Author <- OneAuthor
    Opened <- OpenYears
    MergeYear <- MergeYears
    Year <- GitPOAPYears
    Threshold <- Thresholds
    PRBased = {g1}
    Later = {g2}
    Handlers = {h1, h2}
    Calls <- AllCalls
    NoUser = NoUser  NoItem = NoItem  NoClaim = NoClaim
SYMMETRY HandlerSymmetry
INVARIANT QualifiedHaveClaims
INVARIANT ClaimsAreEarned
INVARIANT NewClaimsAreReported
CHECK_DEADLOCK FALSE
