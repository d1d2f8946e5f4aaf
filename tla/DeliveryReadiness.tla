-------------------------- MODULE DeliveryReadiness --------------------------
(***************************************************************************)
(* The classification of one report attempt: the facts an attempt leaves   *)
(* behind (_status_from_result) and the delivery outcome derived from them *)
(* (_delivery_readiness) in scripts/run_cloud_daily_report.py.             *)
(*                                                                         *)
(* An attempt is described by the facts the ladder can tell apart; symbol  *)
(* lists, error texts and counters nobody compares are left out.           *)
(***************************************************************************)
EXTENDS Naturals

CONSTANT MaxSymbols       \* bound on the counted universes

ASSUME MaxSymbolsAssumption == MaxSymbols \in Nat \ {0}

Counts == 0 .. MaxSymbols

CandidateStatuses == {"NOT_RUN", "UNAVAILABLE", "PARTIAL", "NO_CANDIDATES", "SUCCESS"}
Selections == {"CANDIDATES_INCLUDED", "NO_CANDIDATES", "DISCOVERY_FAILED"}

\* How far the attempt got: an exchange holiday, a resolution or computation
\* error, a session that is not over yet, or a computed result.
Stages == {"NON_SESSION", "ERROR", "INCOMPLETE_SESSION", "COMPUTED"}

-----------------------------------------------------------------------------
(* Facts of a computed attempt. attempted/usable count the formal exact-T  *)
(* universe, exact the report rows with exact-T DATA_OK, analysed the      *)
(* dynamic Candidate analyses.                                             *)

Facts ==
    { f \in [ preflightReady : BOOLEAN,
              reports        : BOOLEAN,
              attempted      : Counts,
              usable         : Counts,
              exact          : Counts,
              sessionRows    : BOOLEAN,   \* a symbol has both latest and qfq rows of T
              symbolFailed   : BOOLEAN,   \* some symbol carries a failure status
              coreFailed     : BOOLEAN,
              globalFailure  : BOOLEAN,
              candidate      : CandidateStatuses,
              selection      : Selections,
              included       : 0 .. 1,
              analysed       : 0 .. 1,
              candidateError : BOOLEAN,
              broadStale     : BOOLEAN ] :
        /\ f.usable <= f.attempted
        /\ f.exact > 0 => f.reports
        /\ f.coreFailed => f.reports
        /\ f.usable < f.attempted => f.symbolFailed }

CandidateFailed(f) ==
    \/ f.candidateError
    \/ f.candidate \in {"UNAVAILABLE", "PARTIAL"}
    \/ f.candidate = "NOT_RUN" /\ f.reports
    \/ f.selection = "DISCOVERY_FAILED"

\* Formal rows of the exact session outrank a market-wide "no usable symbol".
DataStatus(f) ==
    CASE f.attempted > 0 /\ f.usable = 0 /\ f.exact = 0 -> "NO_USABLE_SYMBOLS"
      [] f.attempted > 0 /\ f.usable = 0 /\ f.exact > 0 -> "PARTIAL"
      [] OTHER -> IF f.symbolFailed \/ CandidateFailed(f) THEN "PARTIAL" ELSE "OK"

OperationallyComplete(f) ==
    /\ f.reports
    /\ ~f.coreFailed
    /\ \/ f.exact > 0
       \/ f.sessionRows
       \/ DataStatus(f) = "NO_USABLE_SYMBOLS" /\ f.symbolFailed

RunStatus(f) ==
    CASE f.globalFailure -> "PROVIDER_GLOBAL_FAILURE"
      [] ~f.globalFailure /\ (f.coreFailed \/ ~(f.preflightReady \/ f.reports)) -> "FAILED"
      [] OTHER -> IF DataStatus(f) = "NO_USABLE_SYMBOLS"
                    THEN "COMPLETED_NO_USABLE_SYMBOLS" ELSE "COMPLETED"

-----------------------------------------------------------------------------
(* Outcomes: the classification, its reason, whether main() may try again, *)
(* and the notification mode the metadata starts with.                     *)

Final(why)     == [readiness |-> "FINAL_REPORT_ELIGIBLE", reason |-> why,
                   retryable |-> FALSE, mode |-> "FINAL"]
NotReady(why)  == [readiness |-> "UPSTREAM_NOT_READY", reason |-> why,
                   retryable |-> TRUE, mode |-> "ALERT"]
Degraded(why)  == [readiness |-> "DEGRADED_DIAGNOSTIC_ONLY", reason |-> why,
                   retryable |-> TRUE, mode |-> "ALERT"]
Failed(why)    == [readiness |-> "DELIVERY_FAILED", reason |-> why,
                   retryable |-> FALSE, mode |-> "ALERT"]
NonSession     == [readiness |-> "UPSTREAM_NOT_READY", reason |-> "NON_SESSION",
                   retryable |-> FALSE, mode |-> "NONE"]

\* Mutant: the check for analysed rows is inverted.
CandidateOutcomeInverted(f) ==
    IF f.candidate = "PARTIAL" /\ f.included > 0 /\ f.analysed > 0 /\ f.exact > 0
      THEN Degraded("CANDIDATE_ANALYSIS_NOT_COVERED")
      ELSE IF f.broadStale \/ ~OperationallyComplete(f) \/ f.exact = 0
      THEN NotReady("REPORT_COVERAGE_NOT_COMPLETE")
      ELSE Final("EXACT_SESSION_AND_ANALYSIS_COVERAGE")

\* The Candidate part of the ladder, reached by a computed attempt whose run
\* completed with some usable formal coverage.
CandidateOutcome(f) ==
    CASE f.candidate \in {"UNAVAILABLE", "NOT_RUN"} ->
            IF f.exact = 0 THEN NotReady("CANDIDATE_UNAVAILABLE_NO_ANALYSIS")
                           ELSE Degraded("CANDIDATE_UNAVAILABLE_FORMAL_ONLY")
      [] f.candidate = "NO_CANDIDATES" ->
            IF f.selection # "NO_CANDIDATES" \/ CandidateFailed(f)
              THEN Degraded("CANDIDATE_DISCOVERY_INCOMPLETE")
              ELSE IF ~OperationallyComplete(f)
                     THEN NotReady("REPORT_COVERAGE_NOT_COMPLETE")
                     ELSE Final("CANDIDATE_STAGE_COMPLETE_NO_CANDIDATES")
      [] f.candidate = "PARTIAL" /\ f.included = 0 ->
            IF f.exact = 0 THEN NotReady("CANDIDATE_COVERAGE_INCOMPLETE")
                           ELSE Degraded("CANDIDATE_COVERAGE_INCOMPLETE")
      [] f.candidate = "PARTIAL" /\ f.included > 0 /\ f.analysed = 0 /\ f.exact > 0 ->
            Degraded("CANDIDATE_ANALYSIS_NOT_COVERED")
      [] OTHER ->
            IF f.broadStale THEN NotReady("CANDIDATE_EXACT_T_BROADLY_STALE")
            ELSE IF ~OperationallyComplete(f) THEN NotReady("REPORT_COVERAGE_NOT_COMPLETE")
            ELSE IF f.exact = 0 THEN NotReady("NO_STRATEGY_ANALYSIS")
            ELSE Final("EXACT_SESSION_AND_ANALYSIS_COVERAGE")

DeliveryOutcome(stage, f) ==
    CASE stage = "NON_SESSION" -> NonSession
      [] stage = "ERROR" -> Failed("REPORT_EXECUTION_FAILED")
      [] stage = "INCOMPLETE_SESSION" -> NotReady("SESSION_NOT_COMPLETED")
      [] stage = "COMPUTED" ->
            CASE RunStatus(f) = "PROVIDER_GLOBAL_FAILURE" -> Failed("PROVIDER_GLOBAL_FAILURE")
              [] RunStatus(f) = "FAILED" -> Failed("REPORT_EXECUTION_FAILED")
              [] RunStatus(f) = "COMPLETED_NO_USABLE_SYMBOLS" -> NotReady("NO_USABLE_SYMBOLS")
              [] RunStatus(f) = "COMPLETED" /\ f.attempted > 0 /\ f.usable = 0 ->
                    NotReady("FORMAL_EXACT_T_NOT_READY")
              [] OTHER -> CandidateOutcome(f)

IsFinal(o) == o.readiness = "FINAL_REPORT_ELIGIBLE"

\* Every outcome an attempt can end with.
Outcomes ==
    {NonSession}
    \cup {Failed(w) : w \in {"REPORT_EXECUTION_FAILED", "PROVIDER_GLOBAL_FAILURE"}}
    \cup {NotReady(w) : w \in {"SESSION_NOT_COMPLETED", "NO_USABLE_SYMBOLS",
            "FORMAL_EXACT_T_NOT_READY", "CANDIDATE_UNAVAILABLE_NO_ANALYSIS",
            "REPORT_COVERAGE_NOT_COMPLETE", "CANDIDATE_COVERAGE_INCOMPLETE",
            "CANDIDATE_EXACT_T_BROADLY_STALE", "NO_STRATEGY_ANALYSIS"}}
    \cup {Degraded(w) : w \in {"CANDIDATE_UNAVAILABLE_FORMAL_ONLY",
            "CANDIDATE_DISCOVERY_INCOMPLETE", "CANDIDATE_COVERAGE_INCOMPLETE",
            "CANDIDATE_ANALYSIS_NOT_COVERED"}}
    \cup {Final(w) : w \in {"CANDIDATE_STAGE_COMPLETE_NO_CANDIDATES",
            "EXACT_SESSION_AND_ANALYSIS_COVERAGE"}}

=============================================================================
