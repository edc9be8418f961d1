SPECIFICATION FairSpec
CONSTANTS
    btc = btc
    eth = eth
    Assets <- BothAssets
    Sampled <- LighterAssets
    Maturity <- BothMaturities
    Fallback = 1
    DayLength = 4
    MaxTime = 5
    MaxTrades = 1
    MaxFaults = 1
INVARIANTS TypeOK Cancels FateActed
PROPERTIES MarksForward NoPassForgotten MaturedCloses
\* Time ends.
CHECK_DEADLOCK FALSE
