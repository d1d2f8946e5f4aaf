----------------------------- MODULE SheetTables -----------------------------
(***************************************************************************)
(* The worksheets SheetsClient rewrites as a whole: the unadjusted and the *)
(* adjusted (QFQ) history, and the latest quotes. A table is its set of    *)
(* rows. A history row has no status; a latest row whose symbol never had  *)
(* a quote has day 0.                                                      *)
(***************************************************************************)
EXTENDS Integers

Tables    == {"raw", "qfq", "latest"}
Histories == {"raw", "qfq"}

Row(s, d, status) == [symbol |-> s, day |-> d, status |-> status]

\* The status column of the latest table, as its readers tell it apart: verified
\* by two sources, by the one canonical source, published for review (or from
\* one source), and a refresh that failed.
Statuses == {"VERIFIED", "DATA_OK", "REVIEW", "UNAVAILABLE"}

DaysOf(rows, s) == {x.day : x \in {y \in rows : y.symbol = s}}
SymbolsOf(rows) == {x.symbol : x \in rows}
RowsOf(rows, S) == {x \in rows : x.symbol \in S}

HistoryRows(S, D) == {Row(s, d, "-") : s \in S, d \in D}

\* project_latest_failure_row: the last day is kept, the row is marked.
FailureRow(rows, s) ==
    Row(s, CHOOSE d \in DaysOf(rows, s) \cup {0} : DaysOf(rows, s) # {} => d \in DaysOf(rows, s),
        "UNAVAILABLE")

\* _upsert on rows keyed by symbol and day, and on rows keyed by symbol.
UpsertHistory(rows, new) == rows \cup new
UpsertLatest(rows, new)  == new \cup {x \in rows : x.symbol \notin SymbolsOf(new)}

\* replace_history_series: every row of a nominated symbol is replaced.
ReplaceSeries(rows, new, S) == new \cup {x \in rows : x.symbol \notin S}

\* latest_row_is_monitorable(..., require_verified=True) for some day.
Monitorable(x) == x.status \in {"VERIFIED", "DATA_OK"}

=============================================================================
