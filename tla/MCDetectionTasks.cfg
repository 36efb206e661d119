SPECIFICATION DetectionSpec
CONSTANTS
    Ids = {t1, t2, t3}
    Events = {needs_setup, online}
    Online = online
    Procs = {p1, p2}
    SweepMayCrash = TRUE
    SweepMayFail = TRUE
SYMMETRY Symmetry
INVARIANT FiresOnce
INVARIANT Accounted
PROPERTY KeepsOneRun
\* Every task of the instance is over in the end.
CHECK_DEADLOCK FALSE
