SPECIFICATION FairSpec
CONSTANTS
    Prices = {10, 12, 17}
    Spread = 1
    Costs = {2, 3}
    StartEquities = {3, 5}
    Breaker = 3
    BaseRisk = 1
    KellyRisk = 2
    TypedRisks = {9}
    PublishedRisks = {0, 7}
    MaxRisk = 5
    Persist = 2
    FallbackSl = 3
    SignalSls = {1}
    Overrides = {0, 1}
    Hopeless = 100
    MaxTicks = 3
    MaxCommands = 2
INVARIANTS
    HeldInsideBracket
    AutoEntrySound
PROPERTIES
    TakeProfitPays
    HaltIsPermanent
    AutoEntryConfirmed
    CloseHonoured
CHECK_DEADLOCK FALSE
