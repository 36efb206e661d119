SPECIFICATION FairSpec
CONSTANTS
    s1 = s1
    s2 = s2
    web = web
    asks = asks
    asksToo = asksToo
    approved = approved
    op = op
    Users = {u1, u2}
    NoUser = NoUser
    Servers = {s1, s2}
    Steady = s1
    Web = web
    Makers = {asks, asksToo, approved}
    Operators = {op}
    Home <- MCHome
    MaxPerDevice = 1
    MaxAttempts = 2
    TTL = 1
    MayFail = TRUE
INVARIANTS
    NeverForgotten
    UsableUntilExpiry
    BoundedOvershoot
PROPERTY
    Reclaimed
