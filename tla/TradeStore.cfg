SPECIFICATION FairSpec
CONSTANTS
    Capacity = 3
    Batch = 2
    MaxTrades = 4
INVARIANTS
    FramesInOrder
    StopCommitsAll
PROPERTY AcceptedIsCommitted
