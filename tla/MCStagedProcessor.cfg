SPECIFICATION FairSpec
CONSTANTS
    Capacity = 4
    Item <- PipelineItems
    NoItem = NoItem
    MaxItems = 6
    Kinds = {"MatchOrder", "CancelOrder"}
INVARIANTS
    FifoDelivery
    NoSlotRace
    AppliedInOrder
    NothingLostAtStop
PROPERTIES
    ImplementsBoundedFifo
    CallsReturn
    EventuallyApplied
CHECK_DEADLOCK FALSE
