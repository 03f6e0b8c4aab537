SPECIFICATION FairSpec
CONSTANTS
    GoldCap = 1
    SignalCap = 1
    OutcomeCap = 1
    MaxTicks = 3
    MaxDxy = 1
INVARIANTS
    SignalsInOrder
    NeverBehindSnapshot
PROPERTIES
    FeedNeverStuck
    LastTickEvaluated
    StopReturns
