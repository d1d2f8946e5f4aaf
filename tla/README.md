# stock-data-pipeline: TLA+ models

TLA+ models of the operational core of `stock-data-pipeline`, the TLC configurations that
check them on small instances, and TLAPS proofs of their main properties for every instance.
Paths below are relative to the repository (`src/`).

    tlc -workers 2 -config DecisionLedger.cfg MCDecisionChain     # any .cfg, its module
    tlapm DecisionChainProofs.tla                                 # any ...Proofs.tla

`PROJECT.json` lists the components, the runs, the lines of code each definition stands for,
the hazards, and for every checked property a mutation of the model that breaks it. The mutated
operators stand in the modules, marked "Mutant", next to the definition they replace; no
specification uses them.

## 1. The system

One GitHub Actions workflow per market (CN, US) computes a daily report after the close. A
natural collector stores one prospective evidence record per market and session. Watchdogs on a
VPS and at Cloudflare start what did not start by itself. A manual command runs the stateful daily
decision of a strategy account and, on request, its paper track. Market data is kept in a Google
spreadsheet by a scheduled pipeline and by holding commands that come in as GitHub issues. All of
them are short processes that share nothing but stores: a create-only file store behind SSH (the
VPS), and worksheets.

| Component | State it keeps | Operations | Talks to | What is hard | What makes it correct |
|---|---|---|---|---|---|
| Market-close triggers (`infra/`, the workflows) | none; the list of workflow runs | fire, list runs, dispatch, retry | GitHub | lost triggers, retried POSTs, a newer waiting run cancels an older one | no failure before the last look is the last word on a session; a watchdog judges the session it is for |
| Candidate universe (`candidate_universe*.py`, `production_candidate_runtime.py`) | none per run | seeds, screen, select, deepen | providers, report | an outage in the middle of a stage | a status that tells the report what is missing |
| Market data (`providers.py`, `ephemeral_market_data.py`, `core.py`, ...) | none per run | fetch with retries, verify | providers | which failure is whose | a symbol's error is not an outage, and the reverse |
| Report delivery (`run_cloud_daily_report.py`, `operational_markers.py`) | per session: final marker, legacy markers, migration records, alert markers | preflight, bounded attempts, ledger, claim, email, alert | create-only store, SMTP, Bark, Opportunity Ledger | overlapping triggers, lost receipts, a killed runner, retries | at most one final email, under a durable claim; one alert per state; a claim rests on fit data |
| Opportunity Ledger (`opportunity_ledger.py`) | birth and follow-up rows, a summary row per market and session | births, follow-ups, summary | delivery, worksheets | partial writes, missed sessions | one birth per event, one row per session, gaps are told |
| D1 collection (`run_market_close_reconcile.py`, `setup01_d1_*`) | per session: object and pointer; activation record | reconcile, migration gate, collect, commit, read back | create-only store, providers, calendars | two-step commit, concurrent duplicates, deadlines | evidence bound once, never backfilled, receipts that are true |
| Daily decision chain (`daily_decision_chain.py`, `production_prerequisites.py`, `run_production_daily_decision.py`) | append-only worksheet of published, pending, settled, origin and daily rows | preflight, settle T+1, approve, reserve, append | worksheets, operator's sheets | independent appends, late bars, what is counted against the limits | one life per event, limits respected, approval of published proposals only |
| Portfolio risk (`portfolio_risk.py`) | none (a pure batch) | `reserve`, `settle` | decision chain | order and limits | the batch stays within the limits |
| Paper lifecycle (`paper_lifecycle.py`) | append-only worksheet: plans, trades, coverage | plan, advance pending, advance open, cover | decision chain, providers | failed feeds, missed sessions, repeated runs | one fate per plan, facts as the market made them |
| Position management (`position_management.py`) | none (replays bars) | exits and trailing stop of one day, replay | decision chain, paper | the whole past is replayed each day | no exit by hindsight |
| Setups and waves (`setup01*.py`, `setup02*.py`, `wave.py`) | none (replays bars) | scenario of a day, lifecycle, cached replay | report, decision chain | the replay sees later swings | no day changes afterwards; an impulse ends once |
| Structure (`swing.py`, `fibonacci.py`, ...) | none | swings; numeric series | setups, positions | confirmation lags | a swing is not redrawn |
| Sheets pipeline (`main.py`, `sheets_client.py`) | the worksheets | read, merge, clear and rewrite | everything | several writers, no lock | no row is lost |
| Holdings (`holdings_data_manager.py`, command bus) | watchlist row, histories | ADD, REENTER, CLOSE, SYNC | sheets, providers, GitHub issues | retry of a half-done command | enabled only when complete |
| Other D1 backends, presentation, research replays, shadows | files | offline | - | - | not operational |

How they interact: a trigger or a watchdog's dispatch (`MarketCloseTriggers`) starts a report run, whose attempts
ask the providers (`ReportAttempt`) and whose final outcome goes through the ledger (`OpportunityLedger`) to the
claim and the email (`ReportDelivery`). Analysis replays setups, waves and swings; the decision chain reserves capacity for confirmed events,
and the paper track follows them with the position rules. The sheets writers feed those readers.

## 2. The modules

| Module | Stands for | Role |
|---|---|---|
| `CreateOnlyStore` | `put_bytes` / `cmd_put`: a name is linked once | operators used by delivery and collection |
| `DeliveryReadiness` | `_status_from_result`, `_delivery_readiness` | pure: the outcome of an attempt from its facts |
| `FinalNotification` | - | abstract: a session has one holder for ever, only the holder delivers, once |
| `ReportDelivery` | `main`, `run_cloud_daily_report`, `_notify`, the claims | runs against the markers; implements `FinalNotification` |
| `ReportAttempt` | `load_ephemeral_market_data`, `ProductionCandidateRuntime.run`, `_merge_candidate_inputs` | pure: the facts of an attempt from what the providers answer |
| `ReportDay` | a market's report day | composes `ReportDelivery` with `ReportAttempt` |
| `MarketCloseTriggers` | the workflow's triggers and concurrency group, both watchdogs | a calendar of days with lost, late and duplicate runs |
| `SessionEvidence` | - | abstract: evidence is bound once, and only what is bound is reported |
| `D1Collection` | reconcile, gate, collector, `VpsD1Store.commit/load/verify` | runs in two markets; implements `SessionEvidence` |
| `PortfolioRisk` | `PortfolioRiskEngine.reserve` | pure: limits and the batch |
| `ReservationBook` | - | abstract: the life of an event, each reservation within the limits |
| `DecisionChain` | preflight, store, `DailyDecisionChain.evaluate` | runs against the worksheet; implements `ReservationBook` |
| `SwingEngine` | `find_swings` | pure: the swings of a series, a loop over its bars |
| `PositionRules` | exit rules, trailing stop, `replay_position` | pure: one day of a position, and the replay |
| `PositionReplay` | one position and the days that reach it | compares each replay with what the days made |
| `PaperTrade` | - | abstract: one plan, one fate |
| `PaperLifecycle` | `process_daily` and its four passes | runs over sessions, on `PositionRules`; implements `PaperTrade` |
| `WaveScenario` | `wave.py` and the weekly aggregation | pure: the scenario of a day |
| `SetupLifecycle` | `setup01.py`, `setup02.py`, their replays | a symbol day by day against the cached replay |
| `SetupDecision` | `setup01_decision.py`, `setup02_decision.py`, `risk.py`, `atr` | on `SetupLifecycle`: the plan of each event |
| `ObservationLog` | - | abstract: one birth, one row a session, in order, no hindsight |
| `OpportunityLedger` | `persist_daily_opportunities` | runs against two worksheets; implements `ObservationLog` |
| `HistoryCoverage` | `history_coverage_report`, the gaps to fetch | pure |
| `SheetTables` | the row merges of `SheetsClient` | pure |
| `HoldingsSheets` | `execute` (ADD, REENTER, CLOSE, SYNC), `main.run`, the QFQ refresh | writers of one spreadsheet |
| `MC...` | - | constants for TLC |
| `...Proofs` | - | theorems (section 4) |

In the concurrent modules a process is a run (or a writer): started at most once (a retry of the workflow is another
run), with a program counter that names its next external call. One action is one external call with
everything the code computes up to the next one. Other runs, the calendar, the market, the operator
and a killed process can come between any two calls.

**Market-close triggers.** `now` walks through the minutes at which something is due. Of the list of
workflow runs the model keeps what is still looked at: the run that has, or had last, the concurrency group (`holder`) and the one that waits
for it (`waiting`), each with the minute it was created and how it goes; `claimed` are the sessions with a report. A watchdog reads the
list inside its own lookback window and posts a dispatch, of which the answer may be lost after its effect, and which is
then posted again without another look. A newer waiting run of the concurrency group cancels the older waiting one. A run is reduced to
what `ReportDelivery` lets others see: claimed or not, ended well or not. The verdict of its last attempt (`RunComputes`) and its end are two steps,
so that a watchdog may look in between. The verdict may be an alert at any time (data not complete, provider out, report degraded), and a report may end
unclaimed with exit status 0 (`RunUnclaimed`: `IDEMPOTENCY_UNAVAILABLE`, `run_cloud_daily_report.py:1414`, `main` 2052). A kill can come anywhere.

**Report attempt and day.** A world is what the providers hold for one attempt of a market's report: which symbols are formal, paper or seeds, how each
load ends after its retries, how each seed screens, and how discovery ends. `FactsOf` follows the stages of the code to the facts that
`DeliveryReadiness` turns into an outcome. `ReportDay` lets every attempt of `ReportDelivery` end with the outcome of some world and
remembers in `feed` whether that world deserved a report. The error of an old history names the market's provider (`Provider`), and the broad-stale gate
counts only those that name the one it looks for (`NamedStale`).

**Report delivery.** `pc` goes through the calls of one run; `job` is what it was started with
(session, natural or `--date`, recovery identity, protocol); `attempt`, `outcome`, `ledger`,
`claim` are the run's locals; `final`, `legacy`, `migrated`, `alerts` are the objects in the store;
`mailed`, `barked`, `wrote` are history. `PreflightV2` and `PreflightLegacy` are the finality preflight,
`Compute` an attempt with its classification, `PersistLedger` the Opportunity Ledger,
`ClaimScan`/`ClaimMigration`/`ClaimFinal` the calls of `claim_final_report_notification`, `Email` SMTP,
`ClaimAlert`/`AlertBark` and their ledger and email counterparts the alerts. A put of the store has
four outcomes: created, replayed, conflict, or an error, before or after it took effect. The markets
share no name and no concurrency group, so one market is modelled.

**D1 collection.** `clock` counts half sessions (even: closed and inside the collection window, odd:
open); `pointer` and `objects` are the store, `epoch` and `legacy` the activation, `Imported` the
evidence of an earlier source contract. `LoadSession`, `ReadActivation`, `Scan`, `Gate`, `Collect`,
`PutObject`, `PutPointer`, `CommitReadBack`, `ReadBack` are the calls of `reconcile_market`. `Pasts` are the activation
records and the evidence that the earlier contract may have left.

**Decision chain.** `rows` is the worksheet, `run[r]` the memory of an invocation: the snapshot its
preflight took (`asOf`, `inputs`, `existing`, `missing`), the rows its store knows (`mem`), and what it
settled and reserved. `Start` is a READY preflight, `Open` the second load by the write-enabled store,
`SavePositionOrigin`/`SettlePending` the settlement loop, `ReserveBatch` everything in memory between
it and the write loop, `RecordPublishedEvent`/`SavePending`/`RecordDailyResult` the write loop per symbol
in order. Every append can fail before or after it took effect (`AppendRow`), and ends the run. The
operator lists and closes positions, edits the pool; the market adds sessions and late bars.

**Swings, positions, paper.** `SwingEngine` reads the bars from left to right into swings (the loop of `find_swings` as a recursive function), each with the bar from which a reader may know it.
`PositionRules` plays one day of a position (gap, stop, pending exit at the open, structural and profit exits,
the trailing stop). `PositionReplay` keeps beside each replay of the whole history the position as the days
made it one by one. In `PaperLifecycle`, `ledger` is the worksheet, `run` the passes of one `process_daily` over one feed per symbol (exact,
stale, absent), `path` the prices the market really made; appends fail before or after their effect. A trade's turn may end
in an error wherever the code catches one (executor, source event, origin, replay, facts of the exit): the trade stays as it is, and `run.failed` remembers it, as the result of the run does.

**Waves and setups.** `WaveScenario` reads the confirmed daily swings and those of the completed weeks. `SetupLifecycle` keeps in `days` what
each session could know from its own prefix (the uncached path of the code), beside the cached replay of the whole history. `SetupDecision` adds
in `plans` what an evaluator made of each day's event: the gate that refused it, or entry zone, stop and targets.

**Opportunity Ledger.** `births`, `follows`, `summary` are the two worksheets; `run` is what one call of `persist_daily_opportunities`
loaded and has still to write. Follow-ups of one call are one append, as in the code.

**Holdings and sheets.** `sheet` holds the rows of the three tables, `validation` and `watch` the other two sheets, `run` what a writer has
read. A table is rewritten by a clear and a write of rows read earlier, which is what `UpsertHistory`, `UpsertLatest` and
`ReplaceSeries` compute. Commands retry after any failure, from whatever their predecessors left.

## 3. What the runs show

| Run | Configuration | Distinct states |
|---|---|---|
| `delivery_overlap` | 2 free-running invocations, every fault, 2 protocols, 4 kinds of day | 1.49M |
| `delivery_serialized` | 2 invocations one at a time, every fault, 2 legacy identities | 925k |
| `report_day` | either market: 2 overlapping invocations of 2 attempts, every answer of the providers for 2 symbols, fairness | 312k |
| `report_day_broad_tail` | the same, for one property that the code violates | - |
| `market_close` | 2 sessions with a holiday between them, 2 faults, fairness | 1.01M |
| `collection_faults` | 2 overlapping runs, 2 markets, a calendar past the activation window, every fault, fairness | 655k |
| `decision_ledger` | 4 runs one after another, 3 sessions, 2 symbols, 3 events, every fault, late bar, pool edits | 302k |
| `paper_ledger` | 2 symbols on 4 price paths, 3 sessions, failing feeds, turns and appends, crashes | 595k |
| `opportunity_ledger` | 2 events of a symbol, 4 sessions, 3 tracked, every fault | 902k |
| `position_replay` | 8 days of 8 kinds of bars | 55k |
| `setup_lifecycle` | 5 free sessions of 5 kinds of bars after each of 3 pasts | 11.7k |
| `holdings_lifecycle` | 2 commands and a pipeline, 2 sessions, every fault | 2.83M |

*Delivery.* The email is unique without any mutual exclusion (`AtMostOneFinalEmail`,
`ImplementsFinalNotification`, which also has every report mailed under its own marker), and so is each alert (`OneBarkPerState`). Two rules
hold only because the workflow's concurrency group runs one invocation at a time, and are checked
there: no degraded alert once final evidence is durable (`NoDegradedBarkAfterFinal`: the code reads the
evidence, then claims) and no ledger work after it (`NoLedgerWorkAfterFinal`). `LegacyNeedsAuditedMigration`: a
session with V1 evidence gets a V2 marker only for one of its identities and after the migration
was recorded. `BetterEvidenceKeepsFinal`: no run claims on facts of which an improvement would have lost the report, so
that a later attempt, which sees more, cannot be worse.

*A day.* `ClaimRestsOnFitFeed`: a session is never claimed by a report whose attempt met an outage in any of its stages or had no
exact formal symbol; nor, in the US market, by one that saw a broad tail of old histories. For CN the gate does not see that tail: `BroadTailIsHeld`, the documents' gate for both
markets, is violated (`report_day_broad_tail`, section 6.1). `FitFeedIsReported`: the gates do not starve the report. An attempt that found
everything in order, or passed the gates rightly, ends in a claim and gets to the email call.

*Triggers.* `WatchdogsJudgeThisSession`: a lookback window of minutes that knows no session still separates this one from the one before,
over a holiday too, for a watchdog that is late as well. Of several runs it asks about the newest only, as the code does: a skipped `workflow_run` behind a success is
dispatched once more. `SessionIsPursued`: once the VPS has looked, no earlier failure is the last word on the session. Some run of it ends after the look, or had ended as a
success, or GitHub took no dispatch. More cannot be said of this code: a run that read incomplete data and is still in progress when the VPS looks keeps it out and then ends as an alert, a
provider may be out in the run that the VPS dispatched, and exit status 0 is taken for a report.

*Collection.* `PointerNamesAnObject`, `SuccessIsDurable`: whatever crashes between the two puts or loses
its receipt, a pointer names a whole object and a receipt of success tells the truth, for ever.
`EvidenceIsProspective`: no session is backfilled. `ForeignEvidenceStopsCollection`: contracts never mix.
`FirstEvidenceAppears`: the chain of fail-closed checks lets the first admitted session through, unless a run has failed (provider, store, crash). `ImplementsSessionEvidence`: both markets
together bind each session once.

*Decision chain.* `ExactlyOnce`: a failed or unacknowledged append never leads to the same record
twice. `AtMostOneTornEvent`: what a killed process leaves half-written stops everything after it, so
there is never more than one such event. `RiskWithinLimits`: reservations and positions together
respect the limits, over runs, sessions and pool edits. `ReservedAfterPublication`: approval is of a proposal an
earlier run published. `OnlySettlementHidesAnEvent`: a run that ends has recorded every new event,
except where the settlement of an earlier reservation of the symbol took its place (that event is
never published by this run, by `daily_decision_chain.py:960-964`). `ImplementsReservationBook`: the two
sheets together are one risk ledger. The module of constants also compares `IsReservation` with the
loop as written, for every set of positions and candidates.

*Paper.* `FactsAreTrue`: whatever was missed, stale, repeated or killed, a recorded execution is the open of the session after the signal and
a recorded close is the exit that an undisturbed replay of the true prices finds. `CoverageIsHonest`: when a coverage row is written every trade, data or no data, is
up to date with its session, or that very run has reported an error for it; and a continuous row leaves out no session. That the row itself tells of such an error is not so (section 6.7). `ImplementsPaperTrade`: one plan, one fate.

*Opportunity Ledger.* `RowsSumUpWhatWasSeen`: a follow-up row, written once and never corrected, sums up exactly the sessions it claims to cover.
`SummaryMeansRecorded`: the summary row is a completion marker: where it exists, nothing of its session is missing.
`ImplementsObservationLog`: births and rows are unique, in order, and a row written late is an explicit gap.

*Replays.* `ReplayIsCausal` and `PlansAreCausal` compare the cached replay, which has the swings of the whole series, with what each day
could know: no exit, candidate, state, event or plan of the past moves when later bars confirm swings or complete weeks. `SwingsNotRepainted` is the engine's
own promise behind it. `ProfitIsLockedIn`: once the trigger is earned, a stop exit keeps the locked-in part.
`EventsMoveForward`: an impulse ends once and a setup's next event is of a later impulse. `InvalidationOnlyRises`: the
close that would invalidate a followed impulse never moves down, although the low that defines it is replaced. `EventsHavePlans`: an event
is spent whether or not it is planned, no impulse that the lifecycle confirms is one whose swings the evaluator rejects, and its targets are
unreasonable only for a SETUP_02 expansion whose first high lies below its first low (section 6).

*Holdings.* `RefusedOnlyWithReason`: whatever was interrupted before, a command without a fault of its own succeeds, unless its identity
is missing, rows lie outside the window, or the two series differ in a hole the coverage rules allow. `CommandsValidateOnce`: retries leave one validation row.
`EnableIsLast`: an enabled holding has all that the earlier writes were to leave. `RowsSurviveRewrites`: nobody clears a
row it did not read; it holds for writers kept apart, which the separate concurrency groups of the workflows do not enforce.

### Bounds, and why they are enough

Delivery, collection: two runs are enough for an interleaving of a claim or a commit; a third run only repeats what the
second can do, since the store distinguishes "bound" from "not bound". One session is enough for delivery,
whose markers are per session. The calendar of the collection has, in CN, a session before the activation window, one in it and one at its
end, with the opens between them (`Horizon`); US, so that the product stays small, ends with the session in the window. The store starts empty, with or without the V1 activation records, or with
foreign evidence of either market (`Pasts`). `MaxAttempts` is 2 (a retry happens; the code caps it at 8), `MaxSymbols` is what the counts of the facts go up to.

Report day: two symbols are a formal one and a seed, two seeds, or a symbol with two roles; two tries are a first and a last one. The thresholds are
scaled to it: a broad tail is one symbol and all of the base (3 and a quarter in the code), half of the seeds must be covered from two seeds on (20). About 107,000
worlds per attempt and market. Legacy evidence is left to the delivery runs (`LegacyIds = {}`). Of the outcomes, the five kinds that the delivery treats differently are kept (`Day`); `delivery_overlap` has the others.

Triggers: times are the CN schedule in minutes UTC, as in the cron lines: the worker at 09:45 with 90 minutes lookback, the VPS at 12:05 plus
up to ten minutes with 240, a catch-up at 23:00. Two faults allow a lost answer on both watchdogs, or an outage and a kill. The verdict of a run is free at every instant and costs no fault. Two faults do not allow three refusals of one
dispatch; that a watchdog gives up is there as the definitive refusal. The US schedule and the D1 workflow are the same code with other times.

Decision ledger: T, T+1 and a third session (a late bar, a second
batch), two events of one symbol and one of another in the same group, and one run more than sessions, so
that a failed run can be followed by another on the same session. Its limits are scaled to two units in total and
one per group: the group limit binds in the run, the total in the
comparison of `reserve`; the theorems hold for all limits.

Paper: the four paths are a stop, an open outside the zone, a halt on the day of the entry, and a profit given back, filled at the next open; three
sessions are signal, entry and exit, of which any may be missed. A turn may fail on any of them. Two symbols show that one's failed feed does not speak for the other. Symmetry (`AnyEvent`) is sound: the
events differ in nothing, and no liveness is checked. Opportunity: three tracked sessions are a first, a middle and a maturing one; two events of a symbol share
its bars and are born on different sessions. Positions and setups: lookback 1 instead of 5, so that swings confirm within the bound; eight days
hold a higher low that raises the stop, the trigger, the give-back and the exit at the next open. The pasts of the setups rise in weekly waves, fall, or are young;
the free sessions after them confirm, fail and rearm an impulse of either setup, and one week lacks its Friday. Prices are chosen so that the first
impulse is wide: either setup is admitted, or refused for its entry zone, its upside or its R/R, in some run; the averages take two sessions instead of 14. No
confirmation is stale there (an invalidation above HIGH3 needs bars that widen from day to day), and the projections leave none without a target.
Holdings: a year of four days with the gap and boundary rules scaled to it; one symbol with one canonical source and one with two; two commands are a first and its retry, and any of their four operations.

Runs and events are declared symmetric only where no liveness property is checked. Deadlock checking is off because runs and sessions run out.

### Fairness

`D1Collection` and `ReportDelivery` (used by `ReportDay`): weak fairness of each run's next call: a started process
makes its next call, since nothing in the code waits for
another run; a call that hangs is ended by its own timeout or by the job limit, which is a crash, a fault. Starting a run, faults,
crashes, and the calendar are never fair. `report_day` has no faults of storage or process, because with them the delivery
promises to fail closed, not to succeed; for the same reason `FirstEvidenceAppears` excuses a behaviour in which a run failed. `MarketCloseTriggers` has faults too: its fairness is that a waiting run of the workflow is given a runner, that a
run computes and ends (the job has a time limit), and that a watchdog's bounded calls return. Triggers and watchdogs themselves may never fire; the property begins when the VPS has looked.
The other components have no liveness property: they run when an operator starts them, and the code promises nothing in between.

## 4. What is proved

All theorems hold for every set of runs, sessions, events, symbols and every setting of the fault switches, from the
named assumptions on the constants, and without bounds.

- `ReportDeliveryProofs`, one run against the markers: `TypeCorrect`, `AtMostOnce`, `MailedUnderMarker`, `LegacyAudited`, `OneBark`,
  `BetterEvidence`, `Refinement` (of `FinalNotification`, with a configured store). `TypeOK` is not inductive: an alert call needs the run to be
  routed to it (`RoutedOK`). Uniqueness rests on `ClaimInv`: who claimed a session holds its marker, two
  claimants have different sessions, and whoever is at the email call or past it has claimed; `BarkInv` is the same argument for a status key. These invariants
  say nothing of other runs' program counters, which is why no mutual exclusion is needed. `AuditInv` carries
  "authorised" and "recorded" from the scan to the claim; both survive because markers are never removed. `BetterEvidence` rests on `FinalIsRobust`, a
  lemma on the ladder for all facts, and on `FinalPath`: whoever is past the gate had final facts.
  `AlertsRespectFinal` and `LedgerRespectsFinal` are about one invocation at a time. `GuardInv`: a run that read the markers and found none still finds none until it
  claims, because at most one run is active (`Solo`).
- The same module, the day: `FinalExcludes` (the ladder, whatever the facts), `FinalIsFit` (the facts are honest, for any set of symbols, any
  thresholds and either market) and `ClaimsRestOnFitFeeds`. Neither assumes anything of the provider's text: they claim the broad-stale gate for the US market alone, where the
  code has it. The property is not inductive: a run claims several calls after it computed. `FeedInv` says that a final outcome has a fit
  feed, and that a run on the way to the claim, or past it, has a final outcome. Last, the triggers: `WatchdogsJudgeRight`, for any calendar and any
  number of faults; it needs no invariant beyond "a run was created at a minute of the schedule" (`TriggersInv`), and arithmetic on the schedule (`Windows`).
- `D1CollectionProofs`: `TypeCorrect`, `PointersReadable`, `SuccessDurable`, `EvidenceProspective`,
  `ForeignEvidence`, `EvidenceRefinement`. `EvidenceInv` adds to the two properties that each stage of the commit
  knows what is already in the store (`OwnEvidence`, `Progress`); `ProspectiveInv` carries the admission
  checked at `ReadActivation` up to the pointer, although the clock moves on.
- `DecisionChainProofs`: `ReservationStaysWithin`: from positions within the limits, the batch any candidates get is
  within the limits. The argument takes the reservation that comes last in the order: it was admitted
  against all others; induction on sets is not needed, a finite set has a last element. `TypeCorrect` for every setting; `CapacityHolds`, `RecordsAreUnique`, `OneBatch`,
  `ApprovalFollowsPublication`, `BookRefinement`, `OneTornEvent` and `NothingElseHidden` under `Serialized` and `PositionsListed`: the operator runs one
  stateful invocation at a time, and lists every fill before the next one.
  `RiskWithinLimits` is not inductive: between `ReserveBatch` and the appends, capacity is promised in memory.
  `LedgerInv` adds: at most one run is active (`Solo`); its memory is the worksheet; the positions and fills it counted
  include all open positions (`Counted`), and together with the reservations and its grants are within the limits; its grants
  were published by another run; every unsettled reservation is of a symbol it analyses, so that one
  pending it does not see cannot exist; unsettled reservations are its own once it writes. `NeatInv` is about what is half-written: a run that settles finds nothing unrecorded,
  and only the first due event can have an origin without a settlement; a run that writes finds nothing unsettled, and only the symbol it is
  at can have an event without its daily row, while every symbol it is through with (`ThroughWith`) hides none.
- `OpportunityLedgerProofs`: `LedgerImplementsLog`, `SummariesAreMarkers`, `RowsAreTrueSums`, for one writer. The invariant ties what the run holds
  to the worksheets: births known are births written, rows of an event are a prefix of its sessions, and what is due begins where they end. `SumInv` replaces
  the numbers of a row by what they mean (a maximum over the observed sessions, an earliest touch), which an update from the previous row keeps; it says so of the
  rows in the sheet, from which every run computes the next.
- `HoldingsSheetsProofs`: `TypeCorrect` and `RefusalHasReason` for writers that overlap as they like; `OneValidation`, `EnabledIsComplete` and `RewritesKeepRows` under
  `Serialized`. `ApartInv`: the tables a writer has read and not yet rewritten are those of the sheet, a validation row is still to be written only where there is
  none, and an ADD or REENTER that is past its repairs finds the year complete, in the sheet or in what it is about to put. The assumption on `MinBars`
  (a year has as many days as the minimum of bars) is a fact of the constants of the code.
- `SwingEngineProofs`, `PositionProofs`, the replays: `Causality` (the replay of the whole history tells of every day what was seen on it), `NoRepainting`, `StopOnlyRises`,
  `ProfitStaysLockedIn`, for every lookback, origin and price history. The loops are recursive functions. That such a function has its
  values, and that its value on a prefix does not depend on what follows, is proved by induction over a set of indices (`Induction`, `LoopRuns`), without an
  operator parameter. The rest is about what a bar can see: a swing confirmed on day i has its neighbours up to i, so a later bar changes neither it
  nor its place among the others; what of the swings a day of the position reads is confirmed by then. For the profit, only the type of the
  swings is used: whatever they are, a stop is raised and not lowered, and the trigger's stop is at least the locked-in price.
- `PositionProofs`, the paper ledger: `LedgerImplementsPaperTrade`, `FactsHold`, `CoverageHolds`, for one writer. `Inv`: the active run has read the whole worksheet, and
  what it is about to append is of an event in the state its pass is for. `TrueInv`: every row is true of the price path, not of what a feed
  showed. A close found on a part of the path is the one of the whole path because the replay is causal and an exit stands (`ExitStands`).
  `CoverInv`: continuous coverage has no hole (`CoverageOK`), and a trade that had its turn in this run is settled as of its session or in `run.failed`, unless the
  run has only just opened it (`PassOK`); that is enough because coverage is written last. The facts assume that a stop is not above the floor it was derived
  from (`Decision.stop <= Decision.floor`), which is how the evaluators compute it: an executed position then has the geometry that the rules ask for.
- `SetupLifecycleProofs`: `SetupsExclude` (SETUP_01 and SETUP_02 of a symbol are never both live), `EndsAreFinal` (a confirmed or failed lifecycle is never changed)
  and, of the specification with plans, `LifecyclesPlannedOnce` (no lifecycle is decided twice), whatever the prices, the calendar and the lookback. The last rests on
  `NumbersGrow`: between any two days the number of the lifecycle has grown, or an ended one is still the same record, with the day of its end in it.
  `PlansCausal` adds the weeks to the causality of the swings: a week that is complete on day i is made of bars up to i (`CalendarAssumption`: weeks follow one another without
  gaps and a Friday ends one). `EventsAscend`: the number of a lifecycle names its impulse, and a greater number is of a later one (`ImpulseInv`).
  `InvalidationRises`: what is followed is the candidate of the last day (`FollowedInv`), and of two days that follow the same impulse the
  later has the higher low, because swings alternate and the trend test compares neighbours (`LowsRise`).
  `EventsAreSound`: the swings that named the impulse are still those of its confirmation, so the structure test of the evaluator repeats what the lifecycle knew.

What a failed attempt showed: `EventsHavePlans` was false as it first stood (no target of a
confirmed impulse is unreasonable). Nothing excludes an expansion whose first high is below its first low. The bounds of the run have no such history.

Only model-checked: the three liveness properties `FitFeedIsReported`, `FirstEvidenceAppears`, `SessionIsPursued` (fairness and ENABLED are out of the prover's reach), the
comparison of `IsReservation` with the loop as written, and that the bounded instances can do what they are there for, since every
action and branch fires in some run. All other properties of the runs have a theorem. A host without the store's secrets (`Configured = FALSE`) is in no TLC
run; of the theorems of the delivery only `Refinement`, `AlertsRespectFinal` and `LedgerRespectsFinal` need a configured store.

## 5. Reductions, and what is not modelled

- Delivery: texts are left out. The corrected-final recovery (`operational_markers.py:454-621`) is called by nothing outside
  the tests and is left out. `ReportAttempt` reduces prices, bars and ranks to the answers the control distinguishes; the thread pool of the history loader
  needs no interleaving, since an outage of one symbol drops the results of all. Seeds with too few bars may be among NO_CANDIDATES. The gate of the US market
  that blocks when every deep target failed is not modelled separately; a paper symbol that fails makes a day without candidates degraded, as in the code.
- Triggers: the only assumption on the runs is that a job's limit ends one before the next day's first trigger; nothing is assumed of the data, the providers or
  the machines. That a session is reported in the end is therefore not claimed, only that it is pursued. Manual diagnostic dispatches (`--date`) are left out; they too count as success for a watchdog.
- Collection: the two listings of `verify()` are `Scan`, its reads `Gate`; what is committed in between only changes
  the reason of a refusal. Creating the activation record is atomic. A run before the first completed session is left out.
  The content of a snapshot is its run. Export, recover and `migrate_from` of the maintenance CLI are not modelled.
- Decision chain: one account and market. A not-READY preflight, a read-only report, the candidate and paper inputs
  write nothing to this ledger and are left out. Every position has one unit (the code sizes each at
  `BASE_RISK_FRACTION` of a constant budget), and comes from an event; manual positions only reduce what is
  free. NO_ADD concerns a symbol already held, which is blocked anyway. Daily rows without a new event carry nothing a load
  checks. The individual decision of an event is `Entry` or not. `--approve-event` is chosen at `ReserveBatch`, the only place that reads
  it. With overlapping stateful invocations (`Serialized = FALSE`, expressible in the module) no property is claimed: each store
  trusts the rows it loaded, and nothing in the code excludes the overlap.
- Paper: one writer, started by hand with `--paper-track`; one event per symbol and one geometry. That a provider restates adjusted prices is not modelled.
  A turn that fails may fail for any trade and on any run, which is more than the code allows (a stored row that made it fail once makes it fail again). The open of T+1 is one operator for both setups, whose execution functions have the same control.
- Opportunity Ledger: one market, one writer (the concurrency group). The window is checked with the time at which the attempt started, although the writes may come after the next open
  (`run_cloud_daily_report.py:1872`). A ledger that failed does not block the email, and a claimed session is not computed again: the births of such a session are lost, which is why
  `SummaryMeansRecorded` speaks of sessions with a summary. Reruns with `--date` inside the window use the same ledger. Identical duplicate rows do not show in a set;
  the DATA_* statuses are one gap status; the adverse move is left out.
- Positions: targets, wave-5 context, risk flags and the displayed action decide no exit. Half an ATR comes with the bar.
- Setups: the alternate scenario, Fibonacci regions, wave-5 context and SETUP_03 are left out. The comment in `setup01.py` on a newer low refreshing the same impulse
  describes a case that the alternation of swings excludes. Decisions: average ranges are rounded down to a tick, of the targets only the nearest counts (the plan
  of the code keeps three), a target refused beyond 5R has a gate of its own (`NO_VALID_TARGET` in one setup, `INVALID_STRUCTURE` in the other), and position sizes are left out.
- Holdings: the decision table of the full mode, symbols that only a paper plan names, and the parsing of issue events are left out.
- A paper plan is made only of a result whose event is new: one cut off from its decision by a crash is never made (`paper_lifecycle.py:751`), and nothing promises it.
- Hazards without a property have a note in `PROJECT.json`: overlapping stateful invocations (`run_production_daily_decision.py:823`) and sheet writers (`sheets_client.py:160`), a
  symbol halted on T+1 (`daily_decision_chain.py:1264`), capacity counted from a stale sheet (`daily_decision_chain.py:605`), a coverage window that moves on (`holdings_data_manager.py:390`), a
  commit long after admission (`run_market_close_reconcile.py:202`), a last watchdog that finds a run about to alert (`market_close_watchdog.py:175`).

Not modelled at all: the Drive and GCS backends of D1 (superseded, same commit contract), presentation (formatting without state), research studies and replays (one-shot
analyses over frozen data, which is most of the repository's lines), and the offline shadows (drivers of the components above on recorded inputs).

## 6. Differences between code and documents

Met while modelling. The first is a run that expects a violation; the others are no part of `PROJECT.json`, and where a configuration shows one it is named.

1. *The broad-stale gate does not see CN.* It looks for "YAHOO_CHART" before the text of an old history (`run_cloud_daily_report.py:557`); the fetch puts the name of the market's provider there
   (`providers.py:1552`), for CN another one (`market_data_contract.py:17`). `docs/DECISION_LOG.md:1184-1185` has "a bounded broad-stale gate of at least three symbols and 25% of the qualified/included base",
   without exempting a market. `report_day_broad_tail` shows a CN session claimed over a broad tail.
2. *A report without analysis can be final.* The NO_CANDIDATES branch (`run_cloud_daily_report.py:715`) does not look at the analysis count, and a candidate that is also formal
   is not loaded again, so that a complete Candidate stage may have no analysed candidate (the gate at 730 is for PARTIAL only). `docs/DECISION_LOG.md:1143-1145` says missing
   analysis is never final.
3. *The marker key has no protocol* (`operational_markers.py:680`). The V2 marker is named by market and session, so a report of a newer protocol is a no-op;
   `docs/RELIABILITY_MARKET_CLOSE_TRIGGER_RUNBOOK.md:101-102` puts the protocol in the key.
4. *The migration gate refuses the second natural session* (`run_setup01_d1_natural_collector.py:62`). It counts the
   natural evidence itself; `docs/DECISION_LOG.md:1019-1022` describes a check before the first. The
   repository's own `HANDOFF.md:51-53` and `docs/CURRENT_STATUS.md:762-764` record the refusal. `CollectionSecondSession.cfg` shows it (`GateRefusesOnlyForeignEvidence`, module `MCD1Collection`).
5. *A fill no sheet lists yet is not counted* (`daily_decision_chain.py:605`). `reserve` counts the operator's
   positions sheet and the fills of the same run. A fill that an earlier run settled is in the decision
   worksheet, and is not read for capacity;
   `docs/PROSPECTIVE_DAILY_DECISION_CHAIN_V1.md:65-66` counts every existing system-managed position. This is the assumption `PositionsListed`.
6. *A reservation stored with another event's decision* (`daily_decision_chain.py:660`). A late T+1 bar is settled by
   the run that reserves the symbol's next approved event; `_finalize_result` replaces the individual decision by the
   settlement's, and `save_pending` stores that one (`docs/PROSPECTIVE_DAILY_DECISION_CHAIN_V1.md:54-55`).
7. *Paper coverage says CONTINUOUS over a trade that was left behind.* It is judged by the first input of the market (`paper_lifecycle.py:1742`), so that neither the missing data of another tracked
   symbol nor a turn that raised (`paper_lifecycle.py:1482-1484`, `1506-1518`, `1572-1574`) shows in the row; they are errors of the run's result only.
   `docs/DECISION_LOG.md:551-552` has missing data of an active paper symbol fail closed and reported explicitly as a coverage gap. `PaperLedgerGap.cfg` shows it (`GapIsReported`, module `PaperLifecycle`);
   it is not listed as a finding because an error in the result may be read as that report.
8. *A holding cannot be synchronised after one calendar step* (`holdings_data_manager.py:390`): the rows of the year's first day now lie outside the window;
   `docs/HOLDINGS_DATA_MANAGER.md:34` promises the update. `HoldingsRollingWindow.cfg` shows it (`SyncFollowsTheCalendar`, module `MCHoldingsSheets`).
9. *SETUP_02 is confirmed by the first close above HIGH3*, say the documents; a close above HIGH3 may precede the confirmation of HIGH3 itself, and an invalidation before the lifecycle
   exists is forgotten (`setup02.py`).
10. *A setup may lose a symbol for a level it only records* (`setup02.py:207`). `setup02.py:204-206` calls the Fibonacci levels of the first leg "descriptive context
    only"; for a first high at the price of the first low `fibonacci_levels` raises (`fibonacci.py:60`), and `daily_decision_chain.py:742` reports the symbol as failed upstream on that day and
    on every later day whose replay still reads it. The model ends a history there (`IsReadable`).
11. *The first leg of SETUP_02 may fall.* A first high below the first low passes the scenario and the structure test; only a target beyond five times the risk is then
    refused, as `UNREASONABLE_TARGET`. `EventsHavePlans` names this case.

## 7. Plan

Done: the modules of section 2, and a theorem for every property of the runs that is not liveness. Left, in this order:

1. Theorems on the abstract level: what the abstract specifications promise (`SessionEvidence`, `FinalNotification`, `ReservationBook`, `PaperTrade`, `ObservationLog`) as
   consequences that a reader of those alone can cite; `IsReservation` against the loop of `reserve`, for every batch.
2. The composition of `MarketCloseTriggers` with `ReportDay` in place of its reduced run.
3. D1 maintenance: `migrate_from` and its restart; the decision chain with two accounts and the paper track.
