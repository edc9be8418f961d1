SPECIFICATION FairSpec
CONSTANTS
    p1 = p1
    p2 = p2
    p3 = p3
    Pids <- ThreePids
    None = None
    MaxRestarts = 2
    MaxEvents = 3
INVARIANTS TypeOK AtMostOne
PROPERTIES ComesBack Paged
