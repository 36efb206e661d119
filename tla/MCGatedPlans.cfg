SPECIFICATION GatedFairSpec
CONSTANTS
    t1 = t1
    t2 = t2
    web = web
    mcp = mcp
    none = none
    normal = normal
    serviceAffecting = serviceAffecting
    novel = novel
    Tokens <- TwoTokens
    Plans = {p1}
    Processes = {web, mcp}
    Web = web
    Nobody = none
    Risks <- AllRisks
    Known <- KnownRisks
    Undeclared = none
    Ratings <- SomeRatings
    RiskPolicies <- AnyPolicy
    MaxChanges = 1
    MaxCrashes = 2
INVARIANT RunsOnce
INVARIANT NoOverlap
INVARIANT StrictEnough
PROPERTY ApprovedPlanEnds
CHECK_DEADLOCK FALSE
