SPECIFICATION ExecFairSpec
CONSTANTS
    QueueRoom = 2
    ReportRoom = 1
    DailyLoss = 2
    MaxPosition = 1
    StaleAfter = 4
    TimeSpan = 32
    Times = {5, 8, 20}
    Losses = {0, 2}
    Qtys = {1, 2}
    MaxCommands = 4
    MaxConnects = 2
    Ids = {1, 2}
    LimitPrices = {3, 5}
    TickPrices = {4, 6}
    MaxPaper = 3
INVARIANTS
    CommandsAccounted
    PriceFresh
PROPERTIES
    DisconnectReturns
    SettledOnce
