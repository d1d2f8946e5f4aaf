--------------------------- MODULE PaperLifecycle ---------------------------
(* Prospective paper tracking (trading/paper_lifecycle.py, called at the end  *)
(* of scripts/run_production_daily_decision.py): an append-only worksheet in  *)
(* which every planned trade leaves at most a plan, an execution or a skip,   *)
(* and a close, and every processed session a coverage row.  A run is started *)
(* by hand for the newest completed session; sessions may be missed and       *)
(* repeated, the price feed may fail for any symbol, every append may fail    *)
(* before or after its effect, and the process may die between two steps.     *)
(* One market, one event per symbol, and one decision geometry.  The writing  *)
(* of formal state that precedes it is the decision chain's, of which only    *)
(* the set of events already published matters here.                          *)
EXTENDS PositionRules, FiniteSets

CONSTANTS
    Events,         \* the confirmed events with an ENTRY_ALLOWED decision
    SignalDay,      \* the session each one is confirmed on
    Decision,       \* zoneLow, zoneHigh, floor, stop, target
    MinRR,          \* SETUP01_MINIMUM_RR
    UpsideShare,    \* 1 / MIN_TARGET_UPSIDE_PCT
    Paths,          \* the price paths a symbol may follow
    LastSession,    \* bound on the sessions
    Feeds,          \* how the provider may answer: ok, stale, empty, absent
    Faults          \* whether appends fail and processes die

VARIABLES
    path,           \* the true price path of every symbol
    today,          \* the newest completed session
    decided,        \* the events the decision chain has published
    ledger,         \* the rows of the worksheet
    run             \* the run in progress

vars == <<path, today, decided, ledger, run>>

Sessions == 1..LastSession

\* A session on which a symbol is halted has no bar.
NoBar == [day |-> 0, open |-> 0, high |-> 0, low |-> 0, close |-> 0, trail |-> NoTrail]

ASSUME PaperAssumption ==
    /\ IsFiniteSet(Events)
    /\ SignalDay \in [Events -> Sessions]
    /\ Decision \in [zoneLow : Nat, zoneHigh : Nat, floor : Nat, stop : Nat, target : Nat]
    /\ Decision.stop <= Decision.floor
    /\ MinRR \in Nat /\ UpsideShare \in Nat
    /\ LastSession \in Nat \ {0}
    /\ \A p \in Paths : /\ p \in Seq(Bar) /\ Len(p) = LastSession
                        /\ \A s \in Sessions : p[s] = NoBar \/ p[s].day = s
    /\ Feeds \subseteq {"ok", "stale", "empty", "absent"}
    /\ Faults \in BOOLEAN

\* A run in progress: its session, whether the calendar is exact, what the
\* provider gave, the rows it knows, the events still to be planned, the trades
\* it has been through, those it has reported an error for, and the one it has
\* just opened.
Idle == [active |-> FALSE, asOf |-> 0, exact |-> FALSE, feed |-> [e \in Events |-> "ok"],
         rows |-> {}, fresh |-> {}, visited |-> {}, failed |-> {}, opened |-> {}]

-----------------------------------------------------------------------------
(* The rows.  A row is identified by its event and its type.                  *)

PlanRow(e) ==
    [type |-> "PLAN", event |-> e, signal |-> SignalDay[e], expected |-> SignalDay[e] + 1]
ExecutedRow(e, origin) == [type |-> "EXECUTED", event |-> e, origin |-> origin]
SkippedRow(e, outcome) == [type |-> "SKIPPED", event |-> e, outcome |-> outcome]
ClosedRow(e, exit) == [type |-> "CLOSED", event |-> e, exit |-> exit]
CoverageRow(s, start, status, next) ==
    [type |-> "COVERAGE", session |-> s, start |-> start, status |-> status, next |-> next]

Of(rows, type) == {r \in rows : r.type = type}
RowsOf(rows, type, e) == {r \in Of(rows, type) : r.event = e}
Has(rows, type, e) == RowsOf(rows, type, e) # {}
The(S) == CHOOSE r \in S : TRUE

\* Mutant: a skip does not settle the plan.
StatusForgetsSkips(rows, e) ==
    IF ~ Has(rows, "PLAN", e) THEN "NONE"
    ELSE IF Has(rows, "CLOSED", e) THEN "CLOSED"
    ELSE IF Has(rows, "EXECUTED", e) THEN "OPEN"
    ELSE "PLAN"

\* _trade_from_group: closed before skipped before executed before planned.
Status(rows, e) ==
    IF ~ Has(rows, "PLAN", e) THEN "NONE"
    ELSE IF Has(rows, "CLOSED", e) THEN "CLOSED"
    ELSE IF Has(rows, "SKIPPED", e) THEN "SKIPPED"
    ELSE IF Has(rows, "EXECUTED", e) THEN "OPEN"
    ELSE "PLAN"

-----------------------------------------------------------------------------
(* The inputs of a run.                                                       *)

\* The bars of a path up to each session, one after the other.
Taken(bars, bar) == IF bar = NoBar THEN bars ELSE Append(bars, bar)

Traded(p) ==
    LET bars[s \in 0..Len(p)] == IF s = 0 THEN <<>> ELSE Taken(bars[s - 1], p[s])
    IN  bars

Bars(e, s) == Traded(path[e])[s]

History(e) ==
    CASE run.feed[e] = "ok" -> Bars(e, run.asOf)
      [] run.feed[e] = "stale" -> Bars(e, run.asOf - 1)
      [] OTHER -> <<>>

\* _input_has_exact_qfq: good data that reaches the session.
ExactQfq(e) == run.feed[e] = "ok" /\ path[e][run.asOf] # NoBar

\* The checks of the open against the frozen decision, in their order.
OpenOutcome(open) ==
    IF open <= Decision.floor THEN "BELOW_INVALIDATION"
    ELSE IF open < Decision.zoneLow THEN "GAP_BELOW_CONFIRMATION"
    ELSE IF open > Decision.zoneHigh THEN "GAP_ABOVE_ENTRY_ZONE"
    ELSE IF (Decision.target - open) * UpsideShare < open THEN "UPSIDE_BELOW_MINIMUM"
    ELSE IF Decision.target - open < MinRR * (open - Decision.stop) THEN "RR_BELOW_MINIMUM"
    ELSE "EXECUTED"

\* Mutant: a later bar stands in for the missing one.
ExpectedOrLaterBars(history, expected) == {b \in ToSet(history) : b.day >= expected}

\* Exactly the bar of the expected session, and no later one in its place.
ExpectedBars(history, expected) == {b \in ToSet(history) : b.day = expected}

ExecuteT1Open(history, expected) ==
    LET matches == ExpectedBars(history, expected)
    IN  IF matches = {} THEN [outcome |-> "NO_T1_BAR", origin |-> {}]
        ELSE LET bar == The(matches)
             IN  [outcome |-> OpenOutcome(bar.open),
                  origin |-> [day |-> bar.day, entry |-> bar.open, stop |-> Decision.stop,
                              floor |-> Decision.floor, low2 |-> Decision.floor]]

-----------------------------------------------------------------------------
(* Appending a row.                                                           *)

\* The key of the row, for the look-up in the rows loaded at the start.
Known(rows, row) ==
    IF row.type = "COVERAGE" THEN \E r \in Of(rows, "COVERAGE") : r.session = row.session
    ELSE Has(rows, row.type, row.event)

\* The error of an append leaves process_daily and ends the run.
Broken(row) == run' = Idle

\* The rows in memory follow the call; nothing of a finished run is kept.
Noted(after, row) ==
    IF ~ after.active THEN after ELSE [after EXCEPT !.rows = @ \cup {row}]

\* append_event: a known key is not written again; else one call, which may
\* fail with or without having taken effect.
AppendEvent(row, after) ==
    \/ /\ Known(run.rows, row)
       /\ run' = after
       /\ UNCHANGED ledger
    \/ /\ ~ Known(run.rows, row)
       /\ ledger' = ledger \cup {row}
       /\ run' = Noted(after, row)
    \/ /\ ~ Known(run.rows, row)
       /\ Faults
       /\ ledger' \in {ledger, ledger \cup {row}}
       /\ Broken(row)

-----------------------------------------------------------------------------
(* The steps of a run.                                                        *)

\* The decision chain reports the confirmations it sees for the first time.
NewEvents(feed) ==
    {e \in Events \ decided : /\ feed[e] = "ok"
                              /\ SignalDay[e] <= today
                              /\ path[e][SignalDay[e]] # NoBar}

\* A plan is made on the signal session only, from exact data of that session
\* and an exact calendar; a late discovery is rejected, never backfilled.
Plannable(e, feed, exact) ==
    SignalDay[e] = today /\ feed[e] = "ok" /\ path[e][today] # NoBar /\ exact

\* The ledger is loaded, the inputs of the session are fetched, and the
\* decision chain has published what is new to it, if it may write state,
\* before paper tracking is asked.
Start ==
    /\ ~ run.active
    /\ \E feed \in [Events -> Feeds], exact, writes \in BOOLEAN :
          /\ decided' = IF writes THEN decided \cup NewEvents(feed) ELSE decided
          /\ run' = [Idle EXCEPT !.active = TRUE, !.asOf = today, !.exact = exact,
                                 !.feed = feed, !.rows = ledger,
                                 !.fresh = {e \in NewEvents(feed) : Plannable(e, feed, exact)}]
    /\ UNCHANGED <<path, today, ledger>>

CreatePlan ==
    /\ \E e \in run.fresh : AppendEvent(PlanRow(e), [run EXCEPT !.fresh = @ \ {e}])
    /\ UNCHANGED <<path, today, decided>>

\* Once the plans are in, every planned or open trade has its turn.
Pending ==
    IF run.active /\ run.fresh = {} /\ run.opened = {}
    THEN {e \in Events \ run.visited : Status(run.rows, e) = "PLAN"} ELSE {}

Open ==
    IF run.opened # {} THEN run.opened
    ELSE IF run.active /\ run.fresh = {}
    THEN {e \in Events \ run.visited : Status(run.rows, e) = "OPEN"} ELSE {}

Visited(e) == [run EXCEPT !.visited = @ \cup {e}, !.opened = {}]

\* The trade is left as it is, with an error in the result of the run.
Failed(e) == [Visited(e) EXCEPT !.failed = @ \cup {e}]

Expected(e) == The(RowsOf(run.rows, "PLAN", e)).expected
Execution(e) == ExecuteT1Open(History(e), Expected(e))

\* Mutant: the expected session itself is waited out too.
WaitsOneMore(e) == run.feed[e] # "absent" /\ run.asOf <= Expected(e)

\* _advance_pending waits for the expected session.
Waits(e) == run.feed[e] # "absent" /\ run.asOf < Expected(e)

Due(e) == run.feed[e] # "absent" /\ ~ Waits(e) /\ run.exact

\* Without an input or an exact calendar the plan stays, and so it does where
\* the executor, the source event or the position origin raises. An executed
\* plan is advanced as an open trade in the same pass.
AdvancePending ==
    /\ \E e \in Pending :
          \/ /\ Waits(e)
             /\ run' = Visited(e)
             /\ UNCHANGED ledger
          \/ /\ ~ Waits(e)
             /\ run' = Failed(e)
             /\ UNCHANGED ledger
          \/ /\ Due(e) /\ Execution(e).outcome # "EXECUTED"
             /\ AppendEvent(SkippedRow(e, Execution(e).outcome), Visited(e))
          \/ /\ Due(e) /\ Execution(e).outcome = "EXECUTED"
             /\ AppendEvent(ExecutedRow(e, Execution(e).origin),
                            [Visited(e) EXCEPT !.opened = {e}])
    /\ UNCHANGED <<path, today, decided>>

\* _advance_open needs a history that ends on the session.
Replayable(e) ==
    /\ run.feed[e] # "absent"
    /\ run.exact
    /\ ExpectedBars(History(e), run.asOf) # {}

ReplayedExit(e) ==
    Replay(The(RowsOf(run.rows, "EXECUTED", e)).origin, History(e)).exit

\* Any trade may fail here: the stored origin, the replay or the performance
\* facts of the exit may raise or be missing.
AdvanceOpen ==
    /\ \E e \in Open :
          \/ /\ Replayable(e) /\ ReplayedExit(e) = NoExit
             /\ run' = Visited(e)
             /\ UNCHANGED ledger
          \/ /\ run' = Failed(e)
             /\ UNCHANGED ledger
          \/ /\ Replayable(e) /\ ReplayedExit(e) # NoExit
             /\ AppendEvent(ClosedRow(e, ReplayedExit(e)), Visited(e))
    /\ UNCHANGED <<path, today, decided>>

-----------------------------------------------------------------------------
(* Coverage: one row per market and session, judged by one of its inputs.     *)

Covered(rows) == Of(rows, "COVERAGE")
LatestCovered(rows) ==
    CHOOSE c \in Covered(rows) : \A d \in Covered(rows) : d.session <= c.session

\* A gap sticks: _latest_coverages and _record_coverage both carry it on.
Continuous(prior, e) ==
    /\ ExactQfq(e)
    /\ prior.next = run.asOf
    /\ \A c \in Covered(run.rows) : c.status = "CONTINUOUS"

\* The row the market's first input leads to.
Assessed(e) ==
    LET status(ok) == IF ok THEN "CONTINUOUS" ELSE "GAP_DETECTED"
        prior == LatestCovered(run.rows)
    IN  IF Covered(run.rows) = {}
        THEN CoverageRow(run.asOf, run.asOf, status(ExactQfq(e)), run.asOf + 1)
        ELSE CoverageRow(run.asOf, prior.start, status(Continuous(prior, e)), run.asOf + 1)

NotAfterPrior == Covered(run.rows) # {} /\ run.asOf <= LatestCovered(run.rows).session

Present == {e \in Events : run.feed[e] # "absent"}

\* Without a present input or an exact calendar there is nothing to record.
RecordCoverage ==
    /\ run.active /\ run.fresh = {} /\ Pending = {} /\ Open = {}
    /\ \/ /\ Present = {} \/ ~ run.exact \/ NotAfterPrior
          /\ run' = Idle
          /\ UNCHANGED ledger
       \/ /\ run.exact /\ ~ NotAfterPrior
          /\ \E e \in Present : AppendEvent(Assessed(e), Idle)
    /\ UNCHANGED <<path, today, decided>>

Die ==
    /\ Faults
    /\ run.active
    /\ run' = Idle
    /\ UNCHANGED <<path, today, decided, ledger>>

NextSession ==
    /\ ~ run.active
    /\ today < LastSession
    /\ today' = today + 1
    /\ UNCHANGED <<path, decided, ledger, run>>

Init ==
    /\ path \in [Events -> Paths]
    /\ today = 1
    /\ decided = {}
    /\ ledger = {}
    /\ run = Idle

Next ==
    \/ Start \/ CreatePlan \/ AdvancePending \/ AdvanceOpen \/ RecordCoverage
    \/ Die \/ NextSession

Spec == Init /\ [][Next]_vars

-----------------------------------------------------------------------------
(* Properties.                                                                *)

\* Missed sessions, failed feeds, crashes and repeated runs never show in the
\* facts: a recorded execution is the open of the session after the signal,
\* and a recorded close is the exit that the undisturbed replay of the true
\* path, later days included, finds (_advance_pending, _advance_open).
FactsAreTrue ==
    /\ \A r \in Of(ledger, "EXECUTED") :
          LET bar == path[r.event][SignalDay[r.event] + 1]
          IN  /\ r.origin.day = SignalDay[r.event] + 1
              /\ bar # NoBar
              /\ r.origin.entry = bar.open
              /\ OpenOutcome(bar.open) = "EXECUTED"
    /\ \A r \in Of(ledger, "CLOSED") :
          \A x \in RowsOf(ledger, "EXECUTED", r.event) :
             r.exit = Replay(x.origin, Bars(r.event, LastSession)).exit

\* What is settled of a symbol once a session with its bar has been covered.
SettledBy(e, s) ==
    /\ Has(ledger, "PLAN", e) /\ SignalDay[e] < s
          => Has(ledger, "EXECUTED", e) \/ Has(ledger, "SKIPPED", e)
    /\ \A x \in RowsOf(ledger, "EXECUTED", e) :
          Replay(x.origin, Bars(e, s)).exit # NoExit => Has(ledger, "CLOSED", e)

\* Coverage is honest when it is written: every trade is up to date with the
\* session's bars already, however many runs that took, or this very run has
\* reported an error for it; and of a continuous one no session since its start
\* was left out (process_daily: the coverage comes last).
CoverageIsHonest ==
    [][\A c \in Covered(ledger') \ Covered(ledger) :
          /\ \A e \in Events : SettledBy(e, c.session) \/ e \in run.failed
          /\ c.status = "CONTINUOUS" =>
                \A s \in c.start..c.session : \E d \in Covered(ledger') : d.session = s]_vars

\* "a missing input fails closed, and reports a coverage gap explicitly"
\* (docs/DECISION_LOG.md:551-552, of the symbols with an active trade): a run
\* that could not bring a trade up to date writes no continuous coverage.
GapIsReported ==
    [][\A c \in Covered(ledger') \ Covered(ledger) :
          c.status = "CONTINUOUS" => \A e \in Events : SettledBy(e, c.session)]_vars

FateOf(e) ==
    IF Has(ledger, "SKIPPED", e) /\ (Has(ledger, "EXECUTED", e) \/ Has(ledger, "CLOSED", e))
    THEN "TWO FATES"
    ELSE IF Has(ledger, "CLOSED", e) /\ ~ Has(ledger, "EXECUTED", e) THEN "NEVER OPENED"
    ELSE Status(ledger, e)

\* One plan, one fate (the ledger's exactly-once claim).
Trade == INSTANCE PaperTrade WITH fate <- [e \in Events |-> FateOf(e)]
ImplementsPaperTrade == Trade!Spec
=============================================================================
