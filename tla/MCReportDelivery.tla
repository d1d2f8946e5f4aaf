-------------------------- MODULE MCReportDelivery --------------------------
(***************************************************************************)
(* Instances of ReportDelivery for TLC. The outcomes of a day are one of   *)
(* each kind the control flow tells apart; the runs are interchangeable.   *)
(***************************************************************************)
EXTENDS ReportDelivery, TLC

FinalDay    == Final("EXACT_SESSION_AND_ANALYSIS_COVERAGE")
NotReadyDay == NotReady("NO_USABLE_SYMBOLS")
FailedDay   == Failed("REPORT_EXECUTION_FAILED")

MixedDay == {FinalDay, NotReadyDay}
AnyDay   == {FinalDay, NotReadyDay, FailedDay, NonSession}

RunSymmetry == Permutations(Runs)
=============================================================================
