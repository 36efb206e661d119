SPECIFICATION FairSpec
CONSTANTS
    p1 = p1
    none = none
    s1 = s1
    Passwords = {p1}
    None = none
    Interval = 1
    Ceiling = 2
    Strays = {s1}
    Meddling = FALSE
    MaxStreak = 2
    MaxMishaps = 1
INVARIANT HoldIsAVerdict
PROPERTIES NoBurn Converges
CHECK_DEADLOCK FALSE
