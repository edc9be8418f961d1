SPECIFICATION Spec
CONSTANTS
    p1 = p1
    p2 = p2
    Pairs <- TwoPairs
    MaxEpisodes = 2
    MaxHours = 0
    MaxRestarts = 1
    MaxDrops = 1
    MaxSweeps = 1
    MinAttempts = 2
    EdgeCheck = 2
    ReadTarget = 2
SYMMETRY PairSymmetry
INVARIANTS TypeOK Tracked GapsReplayed KillCriteria
PROPERTY RowsFollowLifecycle
\* The bounds stop the system.
CHECK_DEADLOCK FALSE
