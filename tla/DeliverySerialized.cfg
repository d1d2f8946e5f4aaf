\* The workflow: one invocation at a time, every fault, two legacy identities.
CONSTANTS
    Runs = {r1, r2}
    Sessions = {s1}
    Protocols = {p1}
    LegacyIds = {v1, v2}
    NoIdentity = NoIdentity
    Absent = Absent
    Corrupt = Corrupt
    Nobody = Nobody
    Lost = Lost
    DayOutcomes <- MixedDay
    MaxAttempts = 2
    MaxSymbols = 1
    Serialized = TRUE
    Configured = TRUE
    StorageMayFail = TRUE
    ProcessMayFail = TRUE
SYMMETRY RunSymmetry
SPECIFICATION Spec
INVARIANTS LegacyNeedsAuditedMigration
PROPERTIES NoDegradedBarkAfterFinal NoLedgerWorkAfterFinal
CHECK_DEADLOCK FALSE
