\* Two runs that overlap freely in two markets, every fault.
CONSTANTS
    CN = CN
    US = US
    scheduled = scheduled
    byHand = byHand
    Markets <- BothMarkets
    Runs <- TwoRuns
    LastSession = 2
    Horizon <- UntilWindowEnds
    EndBoundary = 2
    Absent = Absent
    Imported = Imported
    Pasts <- SomePasts
    Serialized = FALSE
    StorageMayFail = TRUE
    SourcesMayFail = TRUE
    ProcessMayFail = TRUE
SPECIFICATION FairSpec
INVARIANTS PointerNamesAnObject SuccessIsDurable ForeignEvidenceStopsCollection EvidenceIsProspective
PROPERTIES ImplementsSessionEvidence FirstEvidenceAppears
CHECK_DEADLOCK FALSE
