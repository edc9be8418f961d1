SPECIFICATION FairSpec
CONSTANTS
    p1 = p1
    p2 = p2
    Pairs <- OnePair
    MaxEpisodes = 2
    MaxHours = 1
    MaxRestarts = 1
    MaxDrops = 1
    MaxSweeps = 1
    MinAttempts = 2
    EdgeCheck = 1
    ReadTarget = 2
INVARIANT PnlCountsFunding
PROPERTY PendingEntryResolves
\* The bounds stop the system.
CHECK_DEADLOCK FALSE
