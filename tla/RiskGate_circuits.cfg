SPECIFICATION Spec
CONSTANTS
    s1 = s1
    s2 = s2
    NoSymbol = NoSymbol
    Symbols <- TwoSymbols
    Levels <- ThreeLevels
    Initial = 100
    Pnls <- BreakEvenOrLoss
    MaxPositions = 2
    MaxStops = 1
    CbPct = 10
    Recovery = 5
    DailyDdPct = 3
    DailyLossPct = 3
    MaxDay = 2
    MaxEntries = 2
    MaxCrashes = 1
INVARIANTS TypeOK OneFlattenADay
PROPERTIES BotStopsBlock TripHaltsUntilRestart DailyLossBlocksUntilRestart
SYMMETRY SymbolSymmetry
VIEW ReadableState
CHECK_DEADLOCK FALSE
