SPECIFICATION Spec
CONSTANTS
    Win = 20
    AtrPeriod = 4
    Short = 6
    Medium = 10
    Long = 14
    Corr = 25
    Smooth = 2
    Lookback = 3
    GarchSeed = 3
    HurstMin = 8
    OpeningTicks = 3
    StartHours = {24, 31, 42}
    StepHours = {0, 1, 9}
    Moves = {1, 5}
    Ticks = 44
    CoTicks = 1
INVARIANTS
    WindowsNewest
    ChangesConsecutive
    SessionWindows
    SessionRanges
CHECK_DEADLOCK FALSE
