\* Two tabs, one visit, reload, closed tab or restart.
CONSTANTS
    Keys = {t1, t2}
    Burst = 2
    Cost = 2
    IdleTime = 2
    MaxPause = 0
    Beat = 2
    Transit = 0
    Online = 6
    Refresh = 2
    Stale = 3
    Skews <- BehindOrAhead
    MaxMoves = 1
    MaxTime = 6
SPECIFICATION Spec
SYMMETRY Symmetry
INVARIANTS
    TypeOK
    CountHeals
    OpenTabIsCounted
    WithinBudget
\* The clock is bounded: a behaviour ends at MaxTime.
CHECK_DEADLOCK FALSE
