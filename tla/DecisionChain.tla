---------------------------- MODULE DecisionChain ----------------------------
(***************************************************************************)
(* The stateful daily decision run of one strategy account                 *)
(* (run_production_daily_decision with --write-state): the preflight of    *)
(* ProductionInputAdapter, DailyDecisionChain.evaluate in PRODUCTION mode, *)
(* and the append-only worksheet behind SheetsDecisionStateStore.          *)
(*                                                                         *)
(* A step is one load of the worksheet, one appended row, or the           *)
(* in-memory portfolio batch between them. A row holds what a later load   *)
(* or run reads of it. A run keeps the rows it loaded and appended, and    *)
(* decides on those.                                                       *)
(***************************************************************************)
EXTENDS PortfolioRisk

CONSTANTS
    Symbols,          \* integers: inputs are evaluated in symbol order
    SignalOf,         \* session T of an event
    Entry,            \* events whose decision is ENTRY_ALLOWED
    Runs,             \* process invocations; each is started at most once
    LastSession,      \* bound on the modelled calendar
    MayMiss,          \* <<symbol, session>> bars a history may lack
    Serialized,       \* the operator runs one stateful invocation at a time
    PositionsListed,  \* the operator lists every fill before the next run
    PoolChanges,      \* symbols are enabled and disabled during the calendar
    StorageMayFail,   \* an append can fail, before or after taking effect
    ProcessMayFail    \* a process can be killed

Sessions == 1 .. LastSession

ASSUME ChainAssumption ==
    /\ Symbols \subseteq Int
    /\ SymbolOf \in [Events -> Symbols]
    /\ SignalOf \in [Events -> Int]
    /\ Entry \subseteq Events
    /\ LastSession \in Nat \ {0}
    \* one primary wave scenario, so one new event per symbol and session
    /\ \A d, e \in Events : SymbolOf[d] = SymbolOf[e] /\ SignalOf[d] = SignalOf[e] => d = e
    /\ {Serialized, PositionsListed, PoolChanges, StorageMayFail, ProcessMayFail} \subseteq BOOLEAN

VARIABLES
    clock,       \* the completed session the market-data sheets hold
    pool,        \* symbols enabled in the formal strategy pool
    held,        \* events whose position the operator has listed
    left,        \* events whose position the operator has closed
    gaps,        \* bars missing from the QFQ history
    rows,        \* the state worksheet
    run          \* per invocation: where it is and what it holds in memory

sheets == <<clock, pool, held, left, gaps>>
vars   == <<sheets, rows, run>>

-----------------------------------------------------------------------------
Kinds == {"PUBLISHED_EVENT", "PENDING_T1", "SETTLEMENT", "POSITION_ORIGIN", "DAILY_RESULT"}

\* detail: the event whose decision a PENDING_T1 row carries, the outcome of a
\* SETTLEMENT. Only daily results that name a new event are rows here.
Row(kind, e, r, detail) == [kind |-> kind, event |-> e, by |-> r, detail |-> detail]

Details == Events \cup {"EXECUTED", "SKIPPED", "-"}
Rows    == [kind : Kinds, event : Events, by : Runs, detail : Details]

Keys(R, kind)  == {x.event : x \in {y \in R : y.kind = kind}}
Published(R)   == Keys(R, "PUBLISHED_EVENT")
Pended(R)      == Keys(R, "PENDING_T1")
Settlements(R) == Keys(R, "SETTLEMENT")
Origins(R)     == Keys(R, "POSITION_ORIGIN")
Recorded(R)    == Keys(R, "DAILY_RESULT")
Executed(R)    == {x.event : x \in {y \in R : y.kind = "SETTLEMENT" /\ y.detail = "EXECUTED"}}
Reserved(R)    == Pended(R) \ Settlements(R)

\* The pending row of e carries the decision of e itself.
OwnDecision(R, e) == \E x \in R : x.kind = "PENDING_T1" /\ x.event = e /\ x.detail = e

\* SheetsDecisionStateStore accepts the worksheet: no primary key twice (a
\* daily result's key has its own time), and the lineage of _load_values.
UniqueKeys(R) ==
    \A x, y \in R : /\ x.kind = y.kind
                    /\ x.event = y.event
                    /\ x.kind # "DAILY_RESULT"
                    => x = y

\* Mutant: a published event without its daily result is accepted.
LoadableTorn(R) ==
    /\ UniqueKeys(R)
    /\ Pended(R) \subseteq Published(R)
    /\ Settlements(R) \subseteq Pended(R)
    /\ Origins(R) \subseteq Settlements(R)

Loadable(R) ==
    /\ UniqueKeys(R)
    /\ Pended(R) \subseteq Published(R)
    /\ Settlements(R) \subseteq Pended(R)
    /\ Origins(R) \subseteq Settlements(R)
    /\ Published(R) = Recorded(R)

Stages == {"open", "settle", "write"}

\* A run's memory: the snapshot of its preflight (session, formal symbols,
\* listed positions, missing bars), the rows of its store, the events it
\* settled and reserved, and the symbols whose result is not yet recorded.
Memories ==
    [pc : Stages \cup {"idle", "done", "failed"},
     asOf : Sessions, inputs : SUBSET Symbols, existing : SUBSET Events, missing : SUBSET MayMiss,
     mem : SUBSET Rows, settled : SUBSET Events, grants : SUBSET Events, todo : SUBSET Symbols]

\* A process that is not running has no memory.
Blank(stage) ==
    [pc |-> stage, asOf |-> 1, inputs |-> {}, existing |-> {}, missing |-> {},
     mem |-> {}, settled |-> {}, grants |-> {}, todo |-> {}]

Active(r) == run[r].pc \in Stages

Become(r, memory) == run' = [run EXCEPT ![r] = memory]

TypeOK ==
    /\ clock \in Sessions
    /\ pool \subseteq Symbols
    /\ held \subseteq Events
    /\ left \subseteq Events
    /\ gaps \subseteq MayMiss
    /\ rows \subseteq Rows
    /\ run \in [Runs -> Memories]

Init ==
    /\ clock = 1
    /\ pool = Symbols
    /\ held = {}
    /\ left = {}
    /\ gaps = MayMiss
    /\ rows = {}
    /\ run = [r \in Runs |-> Blank("idle")]

-----------------------------------------------------------------------------
(* The market and the operator.                                            *)

\* The sheets are refreshed to the next completed session.
NextSession ==
    /\ clock < LastSession
    /\ clock' = clock + 1
    /\ UNCHANGED <<pool, held, left, gaps, rows, run>>

\* A missing bar arrives.
RefreshHistory ==
    /\ \E bar \in gaps : gaps' = gaps \ {bar}
    /\ UNCHANGED <<clock, pool, held, left, rows, run>>

EditPool(s) ==
    /\ PoolChanges
    /\ pool' = IF s \in pool THEN pool \ {s} ELSE pool \cup {s}
    /\ UNCHANGED <<clock, held, left, gaps, rows, run>>

\* A fill becomes a row of the positions sheet, and later leaves it.
ListPosition(e) ==
    /\ e \in Executed(rows) \ (held \cup left)
    /\ held' = held \cup {e}
    /\ UNCHANGED <<clock, pool, left, gaps, rows, run>>

ClosePosition(e) ==
    /\ e \in held
    /\ held' = held \ {e}
    /\ left' = left \cup {e}
    /\ UNCHANGED <<clock, pool, gaps, rows, run>>

-----------------------------------------------------------------------------
(* A run.                                                                  *)

\* The preflight is READY: the worksheet loads, the pool is not empty, every
\* reserved symbol is still in it, and every analysed symbol has its bar of T.
PreflightReady ==
    /\ Loadable(rows)
    /\ pool # {}
    /\ {SymbolOf[e] : e \in Reserved(rows)} \subseteq pool
    /\ \A s \in pool \cup {SymbolOf[e] : e \in held} : <<s, clock>> \notin gaps

MayStart(r) ==
    /\ run[r].pc = "idle"
    /\ Serialized => \A q \in Runs : ~Active(q)
    /\ PositionsListed => Executed(rows) \subseteq held \cup left

Start(r) ==
    /\ MayStart(r)
    /\ PreflightReady
    /\ Become(r, [Blank("open") EXCEPT !.asOf = clock,
                                       !.inputs = pool,
                                       !.existing = held,
                                       !.missing = gaps])
    /\ UNCHANGED <<sheets, rows>>

\* The write-enabled store loads the worksheet again.
Open(r) ==
    /\ run[r].pc = "open"
    /\ Become(r, IF Loadable(rows) THEN [run[r] EXCEPT !.pc = "settle", !.mem = rows]
                                   ELSE Blank("failed"))
    /\ UNCHANGED <<sheets, rows>>

\* _append: a response lost after the row was written looks like a failed
\* write; either ends the run.
AppendRow(row, r, memory) ==
    \/ /\ rows' = rows \cup {row}
       /\ Become(r, memory)
    \/ /\ StorageMayFail
       /\ rows' \in {rows, rows \cup {row}}
       /\ Become(r, Blank("failed"))

Knowing(r, row) == [run[r] EXCEPT !.mem = @ \cup {row}]

\* Pending T+1 decisions the run can settle: due, the exact T+1 bar present, and
\* not a SKIP_NO_T1_BAR on the session itself, which is what a decision of
\* another session gets.
ExecutionSession(e) == SignalOf[e] + 1

\* Mutant: settled decisions are not left out.
DueAgain(r) ==
    {e \in Pended(run[r].mem) :
        /\ SymbolOf[e] \in run[r].inputs
        /\ ExecutionSession(e) <= run[r].asOf
        /\ <<SymbolOf[e], ExecutionSession(e)>> \notin run[r].missing
        /\ OwnDecision(run[r].mem, e) \/ ExecutionSession(e) < run[r].asOf}

Due(r) ==
    {e \in Reserved(run[r].mem) :
        /\ SymbolOf[e] \in run[r].inputs
        /\ ExecutionSession(e) <= run[r].asOf
        /\ <<SymbolOf[e], ExecutionSession(e)>> \notin run[r].missing
        /\ OwnDecision(run[r].mem, e) \/ ExecutionSession(e) < run[r].asOf}

First(r, e) == e \in Due(r) /\ \A d \in Due(r) : SymbolOf[e] <= SymbolOf[d]

\* save_position_origin of an executed T+1 open: before its settlement.
SavePositionOrigin(r, e) ==
    /\ run[r].pc = "settle"
    /\ First(r, e)
    /\ e \notin Origins(run[r].mem)
    /\ OwnDecision(run[r].mem, e)
    /\ LET row == Row("POSITION_ORIGIN", e, r, "-") IN AppendRow(row, r, Knowing(r, row))
    /\ UNCHANGED sheets

\* settle_pending: a filled reservation, with the origin just saved or without
\* one when it cannot be built, or a released one.
SettlePending(r, e, outcome) ==
    /\ run[r].pc = "settle"
    /\ First(r, e)
    /\ outcome = "EXECUTED" => OwnDecision(run[r].mem, e)
    /\ outcome = "SKIPPED"  => e \notin Origins(run[r].mem)
    /\ LET row == Row("SETTLEMENT", e, r, outcome)
       IN  AppendRow(row, r, [Knowing(r, row) EXCEPT !.settled = @ \cup {e}])
    /\ UNCHANGED sheets

\* Reservations that stayed open hold back every new one.
Unresolved(r) == {e \in Reserved(run[r].mem) : SymbolOf[e] \in run[r].inputs}

\* Mutant: an event can be approved in the run that finds it.
CandidatesUnpublished(r, approved) ==
    {e \in approved \cap Entry :
        /\ SymbolOf[e] \in run[r].inputs
        /\ SignalOf[e] = run[r].asOf
        /\ e \notin Pended(run[r].mem)
        /\ Unresolved(r) = {}}

\* approved: the --approve-event identities, which only this step reads.
Candidates(r, approved) ==
    {e \in approved \cap Entry :
        /\ SymbolOf[e] \in run[r].inputs
        /\ SignalOf[e] = run[r].asOf
        /\ e \in Published(run[r].mem) \ Pended(run[r].mem)
        /\ Unresolved(r) = {}}

\* Mutant: the operator's positions are not counted.
PositionsOfThisRun(r) == run[r].settled \cap Executed(run[r].mem)

\* Listed positions and the fills of this run; two on one symbol conflict.
Positions(r) == run[r].existing \cup (run[r].settled \cap Executed(run[r].mem))

ReserveBatch(r) ==
    /\ run[r].pc = "settle"
    /\ Due(r) = {}
    /\ \E approved \in SUBSET Events :
         LET candidates == Candidates(r, approved)
             positions  == Positions(r)
         IN  \E G \in SUBSET candidates :
               /\ IF OnePerSymbol(positions) THEN IsReservation(positions, candidates, G)
                                             ELSE G = {}
               /\ Become(r, [run[r] EXCEPT !.pc = "write", !.grants = G, !.todo = run[r].inputs])
    /\ UNCHANGED <<sheets, rows>>

Current(r, s) ==
    /\ run[r].pc = "write"
    /\ s \in run[r].todo
    /\ \A t \in run[r].todo : s <= t

\* The symbol's settlement takes the place of its new event.
SettledHere(r, s) == {e \in run[r].settled : SymbolOf[e] = s}

NewEvents(r, s) ==
    {e \in Events : /\ SymbolOf[e] = s
                    /\ SignalOf[e] = run[r].asOf
                    /\ SettledHere(r, s) = {}
                    /\ e \notin Published(run[r].mem)}

RecordPublishedEvent(r, s, e) ==
    /\ Current(r, s)
    /\ e \in NewEvents(r, s)
    /\ LET row == Row("PUBLISHED_EVENT", e, r, "-") IN AppendRow(row, r, Knowing(r, row))
    /\ UNCHANGED sheets

\* result.individual_decision: the settlement's, if the symbol had one.
DecisionOf(r, e) ==
    LET settlement == SettledHere(r, SymbolOf[e])
    IN  IF settlement = {} THEN {e} ELSE settlement

Ungranted(r, s) == \A e \in run[r].grants \ Pended(run[r].mem) : SymbolOf[e] # s

\* Mutant: an approved event is saved whatever the reservation says.
SavePendingUngranted(r, s, e) ==
    /\ Current(r, s)
    /\ SymbolOf[e] = s
    /\ SignalOf[e] = run[r].asOf
    /\ e \in Published(run[r].mem) \ Pended(run[r].mem)
    /\ \E d \in DecisionOf(r, e) :
         LET row == Row("PENDING_T1", e, r, d) IN AppendRow(row, r, Knowing(r, row))
    /\ UNCHANGED sheets

SavePending(r, s, e) ==
    /\ Current(r, s)
    /\ SymbolOf[e] = s
    /\ e \in run[r].grants \ Pended(run[r].mem)
    /\ \E d \in DecisionOf(r, e) :
         LET row == Row("PENDING_T1", e, r, d) IN AppendRow(row, r, Knowing(r, row))
    /\ UNCHANGED sheets

\* The symbol's event that this run published.
PublishedHere(r, s) ==
    {e \in Events : SymbolOf[e] = s /\ Row("PUBLISHED_EVENT", e, r, "-") \in run[r].mem}

\* The memory of a run that is through with s.
Past(memory, s) ==
    LET rest == [memory EXCEPT !.todo = @ \ {s}]
    IN  IF rest.todo = {} THEN Blank("done") ELSE rest

\* Mutant: a new event need not be published first.
RecordDailyResultOnly(r, s) ==
    /\ Current(r, s)
    /\ Ungranted(r, s)
    /\ IF PublishedHere(r, s) = {}
         THEN Become(r, Past(run[r], s)) /\ UNCHANGED rows
         ELSE \E e \in PublishedHere(r, s) :
                LET row == Row("DAILY_RESULT", e, r, "-") IN AppendRow(row, r, Past(Knowing(r, row), s))
    /\ UNCHANGED sheets

RecordDailyResult(r, s) ==
    /\ Current(r, s)
    /\ NewEvents(r, s) = {}
    /\ Ungranted(r, s)
    /\ IF PublishedHere(r, s) = {}
         THEN /\ \/ Become(r, Past(run[r], s))
                 \/ StorageMayFail /\ Become(r, Blank("failed"))
              /\ UNCHANGED rows
         ELSE \E e \in PublishedHere(r, s) :
                LET row == Row("DAILY_RESULT", e, r, "-") IN AppendRow(row, r, Past(Knowing(r, row), s))
    /\ UNCHANGED sheets

Crash(r) ==
    /\ ProcessMayFail
    /\ Active(r)
    /\ Become(r, Blank("failed"))
    /\ UNCHANGED <<sheets, rows>>

Step(r) ==
    \/ Open(r)
    \/ \E e \in Events : \/ SavePositionOrigin(r, e)
                         \/ \E o \in {"EXECUTED", "SKIPPED"} : SettlePending(r, e, o)
    \/ ReserveBatch(r)
    \/ \E s \in Symbols : \/ \E e \in Events : \/ RecordPublishedEvent(r, s, e)
                                               \/ SavePending(r, s, e)
                          \/ RecordDailyResult(r, s)

Next ==
    \/ NextSession
    \/ RefreshHistory
    \/ \E s \in Symbols : EditPool(s)
    \/ \E e \in Events : ListPosition(e) \/ ClosePosition(e)
    \/ \E r \in Runs : Start(r) \/ Step(r) \/ Crash(r)

Spec == Init /\ [][Next]_vars

-----------------------------------------------------------------------------
(* Properties.                                                             *)

\* A position the account holds: filled and not closed.
OpenPositions == Executed(rows) \ left

\* Every record is appended exactly once, whatever append or process failed in
\* between: no primary key of the worksheet ever exists twice.
ExactlyOnce == UniqueKeys(rows)

\* Independent appends can leave one event incomplete, and nothing is built on
\* it: at most one event is published without its daily result or has an
\* origin without its settlement.
AtMostOneTornEvent ==
    Cardinality((Published(rows) \ Recorded(rows)) \cup (Origins(rows) \ Settlements(rows))) <= 1

\* The capacity gate counts what exists: reservations and open positions
\* together respect the limits of portfolio_risk, over every run and session.
RiskWithinLimits == WithinLimits(Reserved(rows) \cup OpenPositions)

\* An unsettled reservation holds back every other batch: all of them were
\* granted by one run.
OneBatchOutstanding ==
    \A x, y \in rows : /\ {x.kind, y.kind} = {"PENDING_T1"}
                       /\ {x.event, y.event} \subseteq Reserved(rows)
                       => x.by = y.by

\* Approval is of a published proposal: an event is reserved by a later run
\* than the one that published it.
ReservedAfterPublication ==
    \A x \in rows : x.kind = "PENDING_T1" =>
        \E y \in rows : y.kind = "PUBLISHED_EVENT" /\ y.event = x.event /\ y.by # x.by

\* A run that finishes has put every new event of its symbols into the ledger,
\* except where it settled an earlier event of the same symbol.
OnlySettlementHidesAnEvent ==
    [][\A r \in Runs : Active(r) /\ run'[r].pc = "done" =>
         \A e \in Events :
            /\ SymbolOf[e] \in run[r].inputs
            /\ SignalOf[e] = run[r].asOf
            /\ SettledHere(r, SymbolOf[e]) = {}
            => e \in Recorded(rows')]_vars

\* The worksheet and the positions sheet together are a risk ledger.
BookOf(e) ==
    IF e \in left THEN "left"
    ELSE IF e \in Executed(rows) THEN "open"
    ELSE IF e \in Settlements(rows) THEN "released"
    ELSE IF e \in Pended(rows) THEN "reserved"
    ELSE IF e \in Published(rows) THEN "proposed"
    ELSE "unseen"

Book == INSTANCE ReservationBook WITH book <- [e \in Events |-> BookOf(e)]

ImplementsReservationBook == Book!BookSpec

=============================================================================
