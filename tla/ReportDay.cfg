\* No fault of storage or process: what the providers answer decides.
CONSTANTS
    Runs = {r1, r2}
    Sessions = {s1}
    Protocols = {p1}
    LegacyIds = {}
    NoIdentity = NoIdentity
    Absent = Absent
    Corrupt = Corrupt
    Nobody = Nobody
    Lost = Lost
    DayOutcomes <- Day
    MaxAttempts = 2
    MaxSymbols = 2
    Securities <- TwoSymbols
    Tries = 2
    StaleMinCount = 1
    StaleDivisor = 1
    CoverageMinSeeds = 2
    Serialized = FALSE
    Configured = TRUE
    StorageMayFail = FALSE
    ProcessMayFail = FALSE
SPECIFICATION DaySpec
INVARIANTS ClaimRestsOnFitFeed
PROPERTIES FitFeedIsReported
CHECK_DEADLOCK FALSE
