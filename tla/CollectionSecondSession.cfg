\* The second session of the activation window, no fault.
CONSTANTS
    CN = CN
    US = US
    scheduled = scheduled
    byHand = byHand
    Markets = {CN}
    Runs <- TwoRuns
    LastSession = 2
    Horizon <- WholeCalendar
    EndBoundary = 3
    Absent = Absent
    Imported = Imported
    Pasts <- AnyPast
    Serialized = TRUE
    StorageMayFail = FALSE
    SourcesMayFail = FALSE
    ProcessMayFail = FALSE
SPECIFICATION Spec
INVARIANT GateRefusesOnlyForeignEvidence
CHECK_DEADLOCK FALSE
