SPECIFICATION RegistrySpec
CONSTANTS
    OrderId = {o1, o2, o3}
    AccountId = {0}
    MaxPrice = 1
    MaxQuantity = 2
    NoOrder = NoOrder
    Requests <- SomeRequests
    MaxLog = 2
SYMMETRY IdSymmetry
INVARIANTS
    LeavesMatchBook
    SubmittedComesFirst
PROPERTY
    LeavesCountDown
