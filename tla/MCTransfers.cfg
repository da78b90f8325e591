SPECIFICATION FairSpec
CONSTANTS
    h1 = h1  h2 = h2  a1 = a1  a2 = a2  t1 = t1
    Addresses = {a1, a2}
    Tokens = {t1}
    Pages = {h1}
    Requests = {h2}
    TransferLimit = 1
    FailLimit = 1
    Claimer <- ClaimedByFirst
    Mixed = {a2}
    NoAddress = NoAddress  NoToken = NoToken  NoList = NoList
INVARIANT MarkedWereTransferred
INVARIANT RevalidatorsHad
PROPERTY ClaimsFollowTokens
PROPERTY FeaturesAreCleaned
CHECK_DEADLOCK FALSE
