------------------------- MODULE OpportunityLedger -------------------------
(* The Opportunity Ledger of one market (trading/opportunity_ledger.py, which *)
(* scripts/run_cloud_daily_report.py calls for a final-ready report): every   *)
(* newly confirmed event is born, and observed on each of the sessions that   *)
(* follow.  A session may have any number of runs or none; each reads the two *)
(* worksheets, appends the births, fetches what its own analysis did not      *)
(* load, appends all due observations in one call, and at last writes the     *)
(* summary row of its session.  Any of these calls may fail before or after   *)
(* its effect, and the job may be killed between them.  The workflow's        *)
(* concurrency group lets one run at a time, whose session may be over before *)
(* it ends.  Dates count the exchange's sessions.                             *)
EXTENDS Naturals, Sequences, FiniteSets, FiniteSetsExt

CONSTANTS
    Events,         \* event identities of SETUP_01 and SETUP_02
    Symbols,
    SymbolOf,       \* the symbol of an event
    Confirmed,      \* T, the session an event is confirmed on
    Tracking,       \* TRACKING_SESSIONS
    LastSession,    \* bound on the sessions
    Bars,           \* the bars of a session: high and low
    Levels,         \* the frozen prices: a target and a stop
    Faults          \* whether calls fail and jobs are killed

VARIABLES
    today,          \* the newest completed session
    bars,           \* the market: the bar of every symbol and session so far
    births,         \* the rows of the birth worksheet
    follows,        \* the rows of the follow-up worksheet
    summary,        \* per session the events its summary row was made of
    run             \* the run in progress

sheets == <<births, follows, summary>>
vars == <<today, bars, births, follows, summary, run>>

Sessions == 1..LastSession
NoSummary == {"no summary"}

ASSUME OpportunityAssumption ==
    /\ IsFiniteSet(Events) /\ "no summary" \notin Events
    /\ SymbolOf \in [Events -> Symbols]
    /\ Confirmed \in [Events -> Sessions]
    /\ Tracking \in Nat \ {0}
    /\ LastSession \in Nat \ {0}
    /\ Bars \subseteq [high : Nat \ {0}, low : Nat]
    /\ Levels \in [target : Nat, stop : Nat]
    /\ Faults \in BOOLEAN

\* A run: its next call, its session, the events its report confirms, those
\* with a signal close, the symbols its analysis has good data of, the rows it
\* knows, and whether the continuation loader failed.
Idle == [pc |-> "idle", asOf |-> 0, report |-> {}, anchored |-> {}, inputs |-> {},
         births |-> {}, follows |-> {}, loadError |-> FALSE]

Goto(call) == run' = [run EXCEPT !.pc = call]

-----------------------------------------------------------------------------
(* What a run makes of the rows it knows.                                     *)

\* Mutant: any row finishes an opportunity.
FinishedEarly(e) == \E f \in run.follows : f.event = e

Finished(e) == \E f \in run.follows : f.event = e /\ f.index = Tracking

\* active_symbols, and one of the symbol's births is before the session.
Active ==
    {s \in Symbols : /\ \E b \in run.births : SymbolOf[b.event] = s /\ ~ Finished(b.event)
                     /\ \E b \in run.births : SymbolOf[b.event] = s
                                              /\ Confirmed[b.event] < run.asOf}

\* observation_sessions: the ten sessions after T, as far as they are completed.
ObservationSessions(e) ==
    {s \in Sessions : Confirmed[e] < s /\ s <= Confirmed[e] + Tracking /\ s <= run.asOf}

Previous(e, s) == {f \in run.follows : f.event = e /\ f.session < s}

\* The latest of some rows of one event.
Latest(rows) == CHOOSE f \in rows : \A g \in rows : g.session <= f.session

\* Mutant: a bar of a missed session is fetched afterwards.
StatusBackfilled(b, s, usable) ==
    IF b.anchored /\ b \in usable THEN "DATA_OK" ELSE "DATA_GAP"

\* The coverage of a session: one that was missed stays a gap, whatever bar can
\* be fetched now; a failed loader spoils what the analysis did not load; then
\* followup checks the history against the frozen signal close.
Status(b, s, usable) ==
    IF s < run.asOf THEN "MISSED_OBSERVATION_SESSION"
    ELSE IF run.loadError /\ SymbolOf[b.event] \notin run.inputs THEN "DATA_GAP"
    ELSE IF b.anchored /\ b \in usable THEN "DATA_OK"
    ELSE "DATA_GAP"

Touches(bar) ==
    [target |-> bar.high >= Levels.target, stop |-> bar.low <= Levels.stop]

FirstTouch(prior, touches, s) ==
    [l \in DOMAIN Levels |-> IF touches[l] /\ prior[l] = 0 THEN s ELSE prior[l]]

NoTouch == [l \in DOMAIN Levels |-> 0]

\* Mutant: rows that hold no observation count as coverage.
CompleteByCount(e, s, previous, ok) == ok /\ Cardinality(previous) = s - Confirmed[e] - 1

Complete(e, s, previous, ok) ==
    /\ ok
    /\ Cardinality(previous) = s - Confirmed[e] - 1
    /\ \A f \in previous : f.status = "DATA_OK"

\* followup: the row of one session, from the rows before it.  Rows appended in
\* the same call for sessions before it are gaps, which hand on what they had
\* and leave the count short, so the known rows give the same.
Followup(b, s, usable) ==
    LET e == b.event
        previous == Previous(e, s)
        status == Status(b, s, usable)
        ok == status = "DATA_OK"
        bar == bars[SymbolOf[e]][s]
        prior == IF previous = {} THEN [best |-> 0, first |-> NoTouch] ELSE Latest(previous)
    IN  [event |-> e, session |-> s, index |-> s - Confirmed[e], status |-> status,
         complete |-> Complete(e, s, previous, ok),
         best |-> IF ok /\ bar.high > prior.best THEN bar.high ELSE prior.best,
         first |-> IF ok THEN FirstTouch(prior.first, Touches(bar), s) ELSE prior.first]

\* The sessions of a birth that have no row yet.
Due(b) ==
    IF SymbolOf[b.event] \notin Active THEN {}
    ELSE {s \in ObservationSessions(b.event) :
             ~ \E f \in run.follows : f.event = b.event /\ f.session = s}

Pending(usable) ==
    UNION {{Followup(b, s, usable) : s \in Due(b)} : b \in run.births}

-----------------------------------------------------------------------------
(* The calls of a run.                                                        *)

\* The analysis of the session is done: it confirms some of the session's
\* events, not always with a signal close, and has good data of some symbols.
Start ==
    /\ run.pc = "idle"
    /\ \E report \in SUBSET {e \in Events : Confirmed[e] = today} :
       \E anchored \in SUBSET report, inputs \in SUBSET Symbols :
          run' = [pc |-> "load", asOf |-> today, report |-> report, anchored |-> anchored,
                  inputs |-> inputs, births |-> {}, follows |-> {}, loadError |-> FALSE]
    /\ UNCHANGED <<today, bars, sheets>>

Load ==
    /\ run.pc = "load"
    /\ run' = [run EXCEPT !.pc = "births", !.births = births, !.follows = follows]
    /\ UNCHANGED <<today, bars, sheets>>

\* The rows of the birth worksheet that an append would add.
NewBirths ==
    {[event |-> e, anchored |-> e \in run.anchored] :
        e \in {x \in run.report : ~ \E b \in run.births : b.event = x}}

AppendBirths ==
    /\ run.pc = "births"
    /\ \/ /\ births' = births \cup NewBirths
          /\ run' = [run EXCEPT !.pc = "continuation", !.births = @ \cup NewBirths]
       \/ /\ Faults /\ NewBirths # {}
          /\ births' \in {births, births \cup NewBirths}
          /\ run' = Idle
    /\ UNCHANGED <<today, bars, follows, summary>>

\* The loader is asked only for active symbols the analysis has no data of; an
\* exception and a failure of the whole provider have the same effect here.
LoadContinuation ==
    /\ run.pc = "continuation"
    /\ \E failed \in BOOLEAN :
          /\ failed => Active \ run.inputs # {}
          /\ run' = [run EXCEPT !.pc = "follows", !.loadError = failed]
    /\ UNCHANGED <<today, bars, sheets>>

\* All due rows in one call.  Which histories pass the checks is the provider's
\* and, when a price basis was restated, the birth's.
AppendFollowups ==
    /\ run.pc = "follows"
    /\ \E usable \in SUBSET {b \in run.births : Due(b) # {}} :
          LET rows == Pending(usable)
          IN  \/ /\ follows' = follows \cup rows
                 /\ run' = [run EXCEPT !.pc = "summary", !.follows = @ \cup rows]
              \/ /\ Faults /\ rows # {}
                 /\ follows' \in {follows, follows \cup rows}
                 /\ run' = Idle
    /\ UNCHANGED <<today, bars, births, summary>>

\* upsert_opportunity_summary: the row of the session is replaced or added.
UpsertSummary ==
    /\ run.pc = "summary"
    /\ \/ summary' = [summary EXCEPT ![run.asOf] = run.report]
       \/ Faults /\ UNCHANGED summary
    /\ run' = Idle
    /\ UNCHANGED <<today, bars, births, follows>>

Die ==
    /\ Faults
    /\ run.pc # "idle"
    /\ run' = Idle
    /\ UNCHANGED <<today, bars, sheets>>

NextSession ==
    /\ today < LastSession
    /\ today' = today + 1
    /\ bars' \in {[s \in Symbols |-> Append(bars[s], new[s])] : new \in [Symbols -> Bars]}
    /\ UNCHANGED <<births, follows, summary, run>>

Init ==
    /\ today = 1
    /\ bars \in [Symbols -> {<<b>> : b \in Bars}]
    /\ births = {}
    /\ follows = {}
    /\ summary = [s \in Sessions |-> NoSummary]
    /\ run = Idle

Next ==
    \/ Start \/ Load \/ AppendBirths \/ LoadContinuation \/ AppendFollowups
    \/ UpsertSummary \/ Die \/ NextSession

Spec == Init /\ [][Next]_vars

-----------------------------------------------------------------------------
(* Properties.                                                                *)

\* The sessions of an event that were observed, up to a session.
Observed(e, s) ==
    {f.session : f \in {g \in follows : g.event = e /\ g.session <= s /\ g.status = "DATA_OK"}}

High(e, s) == bars[SymbolOf[e]][s].high
TouchedBy(e, l, seen) == {s \in seen : Touches(bars[SymbolOf[e]][s])[l]}

\* Whatever runs were missed, repeated, killed or given bad data, a row sums up
\* exactly the sessions that were observed: its extreme and its first touches
\* are the market's on those sessions, and it calls the coverage complete just
\* when no session since T is missing (followup).
RowsSumUpWhatWasSeen ==
    \A f \in follows :
        LET seen == Observed(f.event, f.session)
        IN  /\ f.complete <=> f.status = "DATA_OK" /\ seen = Confirmed[f.event] + 1 .. f.session
            /\ f.best = IF seen = {} THEN 0 ELSE Max({High(f.event, s) : s \in seen})
            /\ \A l \in DOMAIN Levels :
                  LET hits == TouchedBy(f.event, l, seen)
                  IN  f.first[l] = IF hits = {} THEN 0 ELSE Min(hits)

\* The summary row is the completion marker its writer calls it: a session that
\* has one has all the births of its report, and every older birth is up to
\* that session (persist_daily_opportunities writes the summary last).
SummaryMeansRecorded ==
    \A s \in Sessions : summary[s] # NoSummary =>
        /\ \A e \in summary[s] : \E b \in births : b.event = e
        /\ \A b \in births, t \in Sessions :
              /\ Confirmed[b.event] < t /\ t <= s /\ t <= Confirmed[b.event] + Tracking
              => \E f \in follows : f.event = b.event /\ f.session = t

\* The worksheets are one log per event: born once, one row a session, in
\* order, and never one that was observed by hindsight.
Log == INSTANCE ObservationLog
          WITH birth <- [e \in Events |-> {b \in births : b.event = e}],
               log <- [e \in Events |->
                          [k \in 1..Tracking |-> {f \in follows : f.event = e /\ f.index = k}]]
ImplementsObservationLog == Log!Spec

=============================================================================
