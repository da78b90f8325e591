SPECIFICATION Spec
CONSTANTS
    h1 = h1  h2 = h2  l1 = l1  l2 = l2  a1 = a1  a2 = a2
    Handlers = {h1, h2}
    Lineages = {l1, l2}
    Addresses = {a1, a2}
    Owner <- MCOwner
    Users = {u1}
    Calls = {"login", "refresh", "connect", "disconnect"}
    OldToken = OldToken
    NoHandler = NoHandler  NoLogin = NoLogin  NoUser = NoUser  NoToken = NoToken
SYMMETRY Symmetry
INVARIANT SpentTokensAreRefused
INVARIANT PatientStayLoggedIn
INVARIANT PairsAreTrue
INVARIANT ConnectedHaveTokens
PROPERTY ImplementsPromise
CHECK_DEADLOCK FALSE
