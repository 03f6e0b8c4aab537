SPECIFICATION Spec
CONSTANTS
    Prices = {10, 17}
    Spread = 1
    Costs = {2}
    StartEquities = {9}
    Breaker = 3
    BaseRisk = 1
    KellyRisk = 2
    TypedRisks = {9}
    PublishedRisks = {0, 7}
    MaxRisk = 5
    Persist = 2
    FallbackSl = 3
    SignalSls = {1}
    Overrides = {1}
    Hopeless = 100
    MaxTicks = 3
    MaxCommands = 2
PROPERTY TypedRiskUsed
CHECK_DEADLOCK FALSE
