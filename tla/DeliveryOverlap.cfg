\* Two overlapping invocations, every fault of the store and of the process.
CONSTANTS
    Runs = {r1, r2}
    Sessions = {s1}
    Protocols = {p1, p2}
    LegacyIds = {v1}
    NoIdentity = NoIdentity
    Absent = Absent
    Corrupt = Corrupt
    Nobody = Nobody
    Lost = Lost
    DayOutcomes <- AnyDay
    MaxAttempts = 2
    MaxSymbols = 2
    Serialized = FALSE
    Configured = TRUE
    StorageMayFail = TRUE
    ProcessMayFail = TRUE
SYMMETRY RunSymmetry
SPECIFICATION Spec
INVARIANTS AtMostOneFinalEmail OneBarkPerState BetterEvidenceKeepsFinal
PROPERTIES ImplementsFinalNotification
CHECK_DEADLOCK FALSE
