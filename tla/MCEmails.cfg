SPECIFICATION EmailSpec
CONSTANTS
    h1 = h1  l1 = l1  l2 = l2  a1 = a1  a2 = a2
    m1 = m1  m2 = m2  m3 = m3  e1 = e1  e2 = e2
    Handlers = {h1}
    Lineages = {l1, l2}
    Addresses = {a1, a2}
    Owner <- MCOwner
    Users = {}
    Calls = {"refresh", "remove email"}
    EmailAddresses = {e1, e2}
    Mailers = {m1, m2, m3}
    OldToken = OldToken
    NoHandler = NoHandler  NoLogin = NoLogin  NoUser = NoUser  NoToken = NoToken
    NoEmail = NoEmail  NoAddress = NoAddress  NoMail = NoMail
SYMMETRY EmailSymmetry
INVARIANT ValidatedWereFollowed
INVARIANT ValidatedHaveAddresses
CHECK_DEADLOCK FALSE
