SPECIFICATION ParitySpec
CONSTANTS
    Ref = {r1, r2, r3}
    OrderId <- Ids
    FirstSyntheticId = 1
    LastSyntheticId = 2
    AccountId = {0}
    MaxPrice = 2
    MaxQuantity = 6
    Lots = {2}
    MaxShares = 2
    NoOrder = NoOrder
    Requests = {}
    Stock = aapl
    MaxOrders = 2
    Liberties = {"stocks"}
SYMMETRY RefSymmetry
INVARIANT
    RefsResolve
