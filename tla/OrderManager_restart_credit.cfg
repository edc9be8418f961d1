SPECIFICATION Spec
CONSTANTS
    s1 = s1
    Symbols <- OneSymbol
    MaxOrders = 1
    SymOf <- BothOnOne
    Full = 2
    PartialIoc = FALSE
    MaxCrashes = 1
    MaxKills = 0
INVARIANTS NoPhantom
CHECK_DEADLOCK FALSE
