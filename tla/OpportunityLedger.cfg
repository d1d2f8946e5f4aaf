\* Every fault, missed and repeated sessions; a1 matures on the fourth.
SPECIFICATION Spec
CONSTANTS
    a1 = a1
    a2 = a2
    a = a
    Events = {a1, a2}
    Symbols = {a}
    SymbolOf <- MCSymbolOf
    Confirmed <- MCConfirmed
    Tracking = 3
    LastSession = 4
    Bars <- MCBars
    Levels <- MCLevels
    Faults = TRUE
INVARIANTS
    RowsSumUpWhatWasSeen
    SummaryMeansRecorded
PROPERTIES
    ImplementsObservationLog
CHECK_DEADLOCK FALSE
