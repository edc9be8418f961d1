SPECIFICATION FairSpec
CONSTANTS
    s1 = s1
    Symbols <- OneSymbol
    MaxOrders = 2
    SymOf <- BothOnOne
    Full = 2
    PartialIoc = FALSE
    MaxCrashes = 0
    MaxKills = 1
INVARIANTS TypeOK CreditBacked NoPhantom OpenRowCredited ExitsCloseOpenRows
PROPERTIES RowsImplementLifecycle KillFreezesWorkingRows WorkingRowsSettle
CHECK_DEADLOCK FALSE
