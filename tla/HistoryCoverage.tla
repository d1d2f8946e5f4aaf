--------------------------- MODULE HistoryCoverage ---------------------------
(***************************************************************************)
(* What holdings_data_manager calls a complete year of history, and what   *)
(* it asks the provider for when the year is not complete. Days are        *)
(* numbers; a history is the set of the days it has a bar for.             *)
(***************************************************************************)
EXTENDS Integers, FiniteSets

CONSTANTS
    YearLength,      \* days from the start of the window to its end
    MinBars,         \* MIN_ONE_YEAR_BARS
    MaxSessionGap,   \* MAX_NORMAL_SESSION_GAP_DAYS
    MaxBoundaryLag   \* MAX_COVERAGE_BOUNDARY_LAG_DAYS

ASSUME CoverageAssumption ==
    /\ YearLength \in Nat
    /\ MinBars \in Nat /\ MinBars <= YearLength + 1   \* a year has them
    /\ MaxSessionGap \in Nat \ {0}
    /\ MaxBoundaryLag \in Nat

\* _calendar_year_before.
WindowStart(target) == target - YearLength

IsFirstDay(d, D) == d \in D /\ \A e \in D : d <= e
IsLastDay(d, D)  == d \in D /\ \A e \in D : e <= d

\* Neighbouring sessions too far apart to be a holiday.
SuspiciousGaps(D) ==
    {p \in D \X D : /\ p[2] - p[1] > MaxSessionGap
                    /\ \A d \in D : ~(p[1] < d /\ d < p[2])}

\* history_coverage_report(...).ok: raw and adjusted sessions agree, lie in the
\* window, reach both its ends and leave no hole.
CoverageOk(raw, adjusted, start, end) ==
    /\ raw = adjusted
    /\ \A d \in raw : start <= d /\ d <= end
    /\ end \in raw
    /\ \E d \in raw : d - start <= MaxBoundaryLag
    /\ Cardinality(raw) >= MinBars
    /\ SuspiciousGaps(raw) = {}

\* Mutant: the tail is asked for from its last stored day on.
CoverageGapsFromLast(D, start, end) ==
    LET W == {d \in D : start <= d /\ d <= end}
    IN  IF W = {}
        THEN {<<start, end>>}
        ELSE {<<d, end>> : d \in {e \in W : IsLastDay(e, W) /\ e < end}}

\* _coverage_gaps: the intervals to fetch. There is always a stored session
\* between two of them, so _merge_intervals has nothing to merge.
CoverageGaps(D, start, end) ==
    LET W == {d \in D : start <= d /\ d <= end}
    IN  IF W = {}
        THEN {<<start, end>>}
        ELSE {<<start, d - 1>> : d \in {e \in W : IsFirstDay(e, W) /\ e - start > MaxBoundaryLag}}
             \cup {<<d + 1, end>> : d \in {e \in W : IsLastDay(e, W) /\ e < end}}
             \cup {<<p[1] + 1, p[2] - 1>> : p \in SuspiciousGaps(W)}

=============================================================================
