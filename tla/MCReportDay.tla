----------------------------- MODULE MCReportDay -----------------------------
(***************************************************************************)
(* Instance of ReportDay for TLC: two symbols, two tries per call, one     *)
(* outcome of each kind the control flow tells apart.                      *)
(***************************************************************************)
EXTENDS ReportDay, TLC

TwoSymbols == {1, 2}

Day == { NonSession,
         Failed("PROVIDER_GLOBAL_FAILURE"),
         Degraded("CANDIDATE_UNAVAILABLE_FORMAL_ONLY"),
         Final("EXACT_SESSION_AND_ANALYSIS_COVERAGE"),
         Final("CANDIDATE_STAGE_COMPLETE_NO_CANDIDATES") }

=============================================================================
