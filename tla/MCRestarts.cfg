SPECIFICATION Spec
CONSTANTS
    a1 = a1  a2 = a2  c1 = c1  c2 = c2  k1 = k1  k2 = k2  
    r1 = r1  r2 = r2    s1 = s1  s2 = s2  d1 = d1
    Addresses = {a1}
    Claims = {c1}
    Owners <- SharedClaim
    Codes = {k1, k2}
    Checkers = {r1, r2}
    Requests = {r1, r2}
    Servers = {s1}
    Staff = {d1}
    Batches <- OnlyFirst
    CrashLimit = 1
    NoCode = NoCode  NoAddress = NoAddress  NoClaim = NoClaim  NoServer = NoServer
SYMMETRY CodeRequestSymmetry
INVARIANT SingleMint
PROPERTY ClaimedStays
CHECK_DEADLOCK FALSE
