SPECIFICATION Spec
CONSTANTS
    LongRules = {up}
    ShortRules = {down}
    RuleWeight = 5
    Unit = 10
    Threshold = 4
    Rate = 50
    Decay = 1
    MaxWeight = 20
    DecayEvery = 2
    RawCap = 1
    Prices = {10, 12, 15}
    Slip = 1
    Commission = 2
    StartCapital = 100
    Stops = {1}
    OutcomeCap = 1
    MaxTrades = 3
INVARIANT DrawdownIsMaximal
