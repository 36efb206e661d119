SPECIFICATION FairSpec
CONSTANTS
    Intervals <- ShortAndLong
    Settings <- AnySetting
    MayCrash = TRUE
    MayFail = TRUE
INVARIANT NoOverlap
PROPERTY Spacing
PROPERTY PausedNeverFires
PROPERTY EnabledIsServed
