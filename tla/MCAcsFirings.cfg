SPECIFICATION FairSpec
CONSTANTS
    N = 2
    Before = 1
    Loops <- MCLoops
    Handlers <- MCHandlers
    MaxFaults = 1
    MaxClicks = 3
    MaxMishaps = 1
INVARIANTS
    HeardOnce
    NothingLost
PROPERTIES
    HistoryIsSilent
    ActsOnCurrentRules
    Listens
CHECK_DEADLOCK FALSE
