SPECIFICATION ParitySpec
CONSTANTS
    Ref = {r1, r2}
    OrderId <- Ids
    FirstSyntheticId = 1
    LastSyntheticId = 2
    AccountId = {0}
    MaxPrice = 2
    MaxQuantity = 6
    Lots = {1}
    MaxShares = 1
    NoOrder = NoOrder
    Requests = {}
    Stock = aapl
    MaxOrders = 2
    Liberties = {"stray"}
SYMMETRY RefSymmetry
INVARIANT
    StrayExecutionIgnored
