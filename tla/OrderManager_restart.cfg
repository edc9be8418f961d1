SPECIFICATION Spec
CONSTANTS
    s1 = s1
    Symbols <- OneSymbol
    MaxOrders = 2
    SymOf <- BothOnOne
    Full = 2
    PartialIoc = FALSE
    MaxCrashes = 1
    MaxKills = 0
INVARIANT WorkingRowsPolled
PROPERTIES RowsImplementLifecycle
CHECK_DEADLOCK FALSE
