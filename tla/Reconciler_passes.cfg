SPECIFICATION FairSpec
CONSTANTS
    s1 = s1
    t1 = t1
    NoTrade = NoTrade
    Symbols <- OneSymbol
    Trades <- OneTrade
    SymOf <- AllOnOneSymbol
    Policies <- AllPolicies
INVARIANTS TypeOK RowsOwned
PROPERTIES PendingEndsClosed DriftDealtWith DriftSettles
