SPECIFICATION Spec
CONSTANTS
    OrderId = {o1, o2, o3}
    AccountId = {0, 1}
    MaxPrice = 2
    MaxQuantity = 2
    NoOrder = NoOrder
    Requests <- SomeRequests
SYMMETRY IdSymmetry
INVARIANTS
    BookConsistent
    NoCrossedBook
    CheckersFindNothing
    ShadowMatchesBook
    SnapshotsMatchBook
    FreshIdsOnly
    ProbeTradesOnce
    NoSelfTrade
    AddNeverTrades
PROPERTIES
    TimePriority
    TerminalIsFinal
    ImplementsPriceTimeBook
