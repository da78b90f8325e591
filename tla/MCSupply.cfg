SPECIFICATION FairSpec
CONSTANTS
    k1 = k1  m1 = m1  p1 = p1  u1 = u1
    Codes = {k1}
    Claimers <- ClaimsOrAdds
    Adders <- ClaimsOrAdds
    Pollers = {p1}
    Uploaders = {u1}
    Checkers = {m1, p1}
    MinCodes = 1
    AskLimit = 2
    CrashLimit = 1
    NoCode = NoCode
INVARIANT NoLateRequests
INVARIANT AnnouncedOnce
PROPERTY IssuedCodesAreFound
PROPERTY FirstCodesApprove
CHECK_DEADLOCK FALSE
