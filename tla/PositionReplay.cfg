SPECIFICATION ReplaySpec
CONSTANTS
    Lookback = 1
    BarShapes <- MCBarShapes
    Origins <- MCOrigins
    Past <- MCPast
    MaxDays = 8
INVARIANTS
    ReplayIsCausal
    ProfitIsLockedIn
PROPERTY
    SwingsNotRepainted
CHECK_DEADLOCK FALSE
