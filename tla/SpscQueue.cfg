SPECIFICATION FairSpec
CONSTANTS
    N = 4
    Items = {a, b}
    NoItem = NoItem
    MaxPush = 6
INVARIANTS
    SlotOwnership
    OccupancyExact
PROPERTIES
    ImplementsFifo
    EveryItemDelivered
