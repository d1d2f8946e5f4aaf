\* A holding added on one session and synchronised on the next.
SPECIFICATION Spec
CONSTANTS
    s1 = s1
    s2 = s2
    asia = asia
    YearLength = 3
    MinBars = 2
    MaxSessionGap = 2
    MaxBoundaryLag = 1
    Symbols = {s1, s2}
    Canonical = {s1}
    Pool = {s1}
    Named = {s1}
    Legacy = {}
    Commands = {c1, c2}
    Pipelines = {}
    GroupSymbols <- OneGroup
    Modes <- AllModes
    Depth = 5
    FirstDay = 4
    LastDay = 5
    Serialized = TRUE
    CallsMayFail = FALSE
    ProcessMayDie = FALSE
INVARIANT
    SyncFollowsTheCalendar
CHECK_DEADLOCK FALSE
