SPECIFICATION FairSpec
CONSTANTS
    OrderId = {o1, o2, o3}
    AccountId = {0, 1}
    MaxPrice = 1
    MaxQuantity = 2
    NoOrder = NoOrder
    Requests <- FewerRequests
PROPERTY
    ManagerCallReturns
