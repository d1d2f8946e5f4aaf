\* Two commands and a pipeline, kept apart by the operator, with every fault.
SPECIFICATION Spec
CONSTANTS
    s1 = s1
    s2 = s2
    asia = asia
    YearLength = 3
    MinBars = 2
    MaxSessionGap = 2
    MaxBoundaryLag = 1
    Symbols = {s1, s2}
    Canonical = {s1}
    Pool = {s1}
    Named = {s1}
    Legacy = {s1}
    Commands = {c1, c2}
    Pipelines = {asia}
    GroupSymbols <- OneGroup
    Modes <- AllModes
    Depth = 5
    FirstDay = 4
    LastDay = 5
    Serialized = TRUE
    CallsMayFail = TRUE
    ProcessMayDie = TRUE
INVARIANTS
    RefusedOnlyWithReason
    CommandsValidateOnce
PROPERTIES
    EnableIsLast
    RowsSurviveRewrites
CHECK_DEADLOCK FALSE
