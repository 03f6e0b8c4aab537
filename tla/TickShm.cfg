SPECIFICATION TickFairSpec
CONSTANTS
    TickFields = {bid, ask}
    MaxTick = 4
INVARIANTS
    WholeUnlessOvertaken
PROPERTIES
    EveryReturnIsNews
    LastTickDelivered
