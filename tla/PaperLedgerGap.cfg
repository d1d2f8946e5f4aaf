SPECIFICATION Spec
CONSTANTS
    a = a
    b = b
    Events = {a, b}
    Lookback = 1
    SignalDay <- MCSignalDay
    Decision <- MCDecision
    MinRR = 2
    UpsideShare = 20
    Paths <- MCPaths
    LastSession = 3
    Feeds = {"ok", "stale", "absent"}
    Faults = TRUE
SYMMETRY AnyEvent
PROPERTIES
    GapIsReported
CHECK_DEADLOCK FALSE
