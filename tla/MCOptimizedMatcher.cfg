SPECIFICATION Spec
CONSTANTS
    OrderId = {o1, o2, o3}
    MaxPrice = 1
    MaxQuantity = 2
    NoOrder = NoOrder
    SlabSize = 2
    MaxLevelLength = 3
SYMMETRY IdSymmetry
INVARIANTS
    LevelsCountTheLiving
    RefsStayRight
    PoolIsSound
    SameMarketData
    TradesWalkTheBook
PROPERTY
    ImplementsReferenceMatcher
