\* Two sessions with a holiday between them, and two faults.
CONSTANTS
    Days <- ThreeDays
    TradingDays <- FirstAndThird
    MaxFaults = 2
SPECIFICATION FairTriggersSpec
PROPERTIES WatchdogsJudgeThisSession SessionIsPursued
CHECK_DEADLOCK FALSE
