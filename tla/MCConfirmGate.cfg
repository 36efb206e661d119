SPECIFICATION FairSpec
CONSTANTS
    web = web
    mcp = mcp
    w1 = w1
    m1 = m1
    t1 = t1
    t2 = t2
    Tokens <- MCTokens
    Handlers <- MCHandlers
    Processes <- MCProcesses
    Web = web
    Home <- MCHome
    Free = free
    Profiles <- MCProfiles
    TTL = 1
    Grace = 0
    Retention = 2
    MaxAttempts = 1
    Lockout = 1
    MaxTime = 3
    MaxStall = 1
    MaxCrashes = 1
CHECK_DEADLOCK FALSE
INVARIANTS
    AtMostOnce
    PayloadFollowsOutcome
    GuessBudget
PROPERTIES
    KeepsPromise
    LateOnlyByStall
    ApprovalTakesEffect
