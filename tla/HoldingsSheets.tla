---------------------------- MODULE HoldingsSheets ----------------------------
(***************************************************************************)
(* The writers of the market-data spreadsheet: holding commands            *)
(* (ADD, REENTER, CLOSE, SYNC of holdings_data_manager.execute), the       *)
(* scheduled pipeline (main.run) and the QFQ refresh that follows it.      *)
(* Every table is rewritten by a clear and a write, from rows read before; *)
(* nothing but the schedule keeps two writers apart.                       *)
(***************************************************************************)
EXTENDS HistoryCoverage, SheetTables, Sequences

CONSTANTS
    Symbols,
    Canonical,        \* symbols of the markets with one canonical source
    Pool,             \* symbols of the enabled strategy accounts
    Named,            \* symbols the commands are about
    Legacy,           \* symbols whose history may be older than these writers
    Commands, Pipelines,
    GroupSymbols,     \* the symbols of each pipeline's markets
    Modes,            \* modes the pipelines are run in: "latest", "full"
    Depth,            \* history_days
    FirstDay, LastDay,
    Serialized,       \* whether writers are kept apart
    CallsMayFail, ProcessMayDie

ASSUME HoldingsAssumption ==
    /\ Canonical \subseteq Symbols
    /\ Pool \subseteq Symbols
    /\ Named \subseteq Symbols /\ Legacy \subseteq Symbols
    /\ Commands \cap Pipelines = {}
    /\ GroupSymbols \in [Pipelines -> SUBSET Symbols]
    /\ Modes \subseteq {"latest", "full"}
    /\ Depth \in Nat \ {0}
    /\ FirstDay \in Nat \ {0} /\ LastDay \in Nat
    /\ Serialized \in BOOLEAN /\ CallsMayFail \in BOOLEAN /\ ProcessMayDie \in BOOLEAN

Writers == Commands \cup Pipelines

VARIABLES
    today,            \* the last completed session
    sheet,            \* the rows of each table
    validation,       \* rows of the validation sheet: symbol, day, and who wrote it
    watch,            \* the watchlist: "absent", "on" or "off"
    run               \* the memory of each writer

vars == <<today, sheet, validation, watch, run>>

Ops == {"ADD", "REENTER", "CLOSE", "SYNC"}

Fresh == [pc |-> "idle", op |-> "-", symbol |-> "-", asOf |-> 0, seen |-> "absent",
          failed |-> {}, global |-> FALSE, cache |-> [t \in Tables |-> {}], todo |-> << >>, got |-> [t \in Tables |-> {}],
          validates |-> {}, faulty |-> FALSE, outcome |-> "-"]

\* The history a symbol may have before any of these writers ran.
Before == WindowStart(FirstDay)..FirstDay

Init ==
    /\ today = FirstDay
    /\ \E D \in SUBSET Before :
          sheet = [t \in Tables |-> IF t \in Histories THEN HistoryRows(Legacy, D) ELSE {}]
    /\ validation = {}
    /\ watch \in [Symbols -> {"absent", "on", "off"}]
    /\ run = [p \in Writers |-> Fresh]

Idle(p)   == run[p].pc \in {"idle", "done"}
MayStart(p) == run[p].pc = "idle" /\ (Serialized => \A q \in Writers : Idle(q))

Set(p, r) == run' = [run EXCEPT ![p] = r]
\* A writer that ended keeps nothing.
Ended            == [Fresh EXCEPT !.pc = "done"]
\* A command's verdict still has to be audited; a refusal keeps what it read.
Verdict(outcome) == [Fresh EXCEPT !.pc = "audit", !.outcome = outcome]
Refused(r)       == [r EXCEPT !.pc = "audit", !.outcome = "FAILED", !.todo = << >>]
\* A call that raised.
Raised(p) == IF p \in Commands THEN [Verdict("FAILED") EXCEPT !.faulty = TRUE] ELSE Ended
\* Whether the answer of a call that took effect arrives.
Answered == IF CallsMayFail THEN BOOLEAN ELSE {TRUE}

-----------------------------------------------------------------------------
(* What a writer puts back.                                                *)

\* Mutant: the rows written are the incoming ones only.
ContentForgets(r, t) == r.got[t]

Content(r, t) ==
    CASE t = "latest"                  -> UpsertLatest(r.cache[t], r.got[t])
      [] t # "latest" /\ r.op # "QFQ"  -> UpsertHistory(r.cache[t], r.got[t])
      [] OTHER -> ReplaceSeries(r.cache[t], r.got[t], SymbolsOf(r.got[t]))

-----------------------------------------------------------------------------
(* Holding commands.                                                       *)

\* A close needs an enabled symbol, REENTER and SYNC one of the watchlist.
Received(r) ==
    CASE r.op = "CLOSE" /\ r.seen # "on" -> Verdict("IDEMPOTENT")
      [] r.op = "CLOSE" /\ r.seen = "on" -> [r EXCEPT !.pc = "watchlist"]
      [] r.op \in {"REENTER", "SYNC"} /\ r.seen = "absent" -> Refused(r)
      [] OTHER -> [r EXCEPT !.pc = "snapshot"]

\* execute: the watchlist is read once, at the start.
Receive(c) ==
    /\ MayStart(c)
    /\ \E op \in Ops, s \in Named :
         Set(c, Received([run[c] EXCEPT !.op = op, !.symbol = s, !.seen = watch[s]]))
    /\ UNCHANGED <<today, sheet, validation, watch>>

\* _latest_snapshot: two sources that agree, or a row for review.
Snapshot(c) ==
    /\ c \in Commands /\ run[c].pc = "snapshot"
    /\ \E status \in {"VERIFIED", "REVIEW"} :
         Set(c, [run[c] EXCEPT !.pc = "load", !.asOf = today,
                    !.got["latest"] = {Row(run[c].symbol, today, status)},
                    !.todo = IF run[c].op = "SYNC" THEN <<"raw", "qfq">>
                                                   ELSE <<"raw", "qfq", "latest">>])
    /\ UNCHANGED <<today, sheet, validation, watch>>

Stored(r, t) == DaysOf(r.cache[t], r.symbol)
Start(r) == WindowStart(r.asOf)

HistoryComplete(r) == CoverageOk(Stored(r, "raw"), Stored(r, "qfq"), Start(r), r.asOf)
\* _latest_row_is_current: a DATA_OK row is not one of them.
LatestCurrent(r) == \E x \in r.cache["latest"] :
                        x.symbol = r.symbol /\ x.day = r.asOf /\ x.status \in {"VERIFIED", "REVIEW"}
ValidatedAt(s, d) == \E v \in validation : v.symbol = s /\ v.day = d

\* A history with rows after the session is refused.
Loaded(r, t) ==
    IF t \in Histories /\ \E d \in Stored(r, t) : d > r.asOf THEN Refused(r)
    ELSE IF r.todo = << >> THEN [r EXCEPT !.pc = "decide"]
    ELSE r

\* The records() of one table, kept by the client until it writes the table.
Load(c) ==
    /\ c \in Commands /\ run[c].pc = "load"
    /\ LET t == Head(run[c].todo)
       IN  Set(c, Loaded([run[c] EXCEPT !.cache[t] = sheet[t], !.todo = Tail(@)], t))
    /\ UNCHANGED <<today, sheet, validation, watch>>

\* What the provider returns for the gaps of one series: every session of them.
Asked(D, r) == UNION {p[1]..p[2] : p \in CoverageGaps(D, Start(r), r.asOf)}

\* Mutant: the validation row is appended without looking for it.
ToValidateAlways(r) == IF r.op = "SYNC" THEN {} ELSE {r.symbol}

\* _validation_row_is_current.
ToValidate(r) == IF r.op = "SYNC" \/ ValidatedAt(r.symbol, r.asOf) THEN {} ELSE {r.symbol}

\* An enabled holding with nothing to repair is answered IDEMPOTENT.
NothingToDo(r) ==
    /\ r.op # "SYNC" /\ r.seen = "on"
    /\ HistoryComplete(r) /\ LatestCurrent(r) /\ ToValidate(r) = {}

\* Mutant: the year is not checked again after the fetch.
CompletedUnchecked(r, raw, qfq) ==
    raw \cap Stored(r, "raw") = {} /\ qfq \cap Stored(r, "qfq") = {}

\* _sync_history: what is stored and what was fetched, together.
CompletedBy(r, raw, qfq) ==
    /\ raw \cap Stored(r, "raw") = {} /\ qfq \cap Stored(r, "qfq") = {}
    /\ CoverageOk(Stored(r, "raw") \cup raw, Stored(r, "qfq") \cup qfq, Start(r), r.asOf)

Written(got, op) ==
    LET If(t) == IF got[t] # {} THEN <<t>> ELSE << >>
    IN  If("raw") \o If("qfq") \o (IF op = "SYNC" THEN << >> ELSE If("latest"))

\* The next step of a writer: the next table, then the validation rows.
Onward(r) ==
    CASE r.todo # << >>                      -> [r EXCEPT !.pc = IF r.op \in Ops THEN "clear" ELSE "read"]
      [] r.todo = << >> /\ r.validates # {}  -> [r EXCEPT !.pc = "validate"]
      [] r.todo = << >> /\ r.validates = {} /\ r.op \in Ops ->
            IF r.op # "SYNC" /\ r.seen # "on" THEN [r EXCEPT !.pc = "watchlist"]
                                              ELSE Verdict("SUCCESS")
      [] OTHER -> IF r.op = "latest" /\ ~r.global /\ r.failed \subseteq Canonical
                  THEN [r EXCEPT !.pc = "plan"]
                  ELSE Ended

\* The sessions fetched for one history: none when the year is complete.
Skips(r)      == r.op # "SYNC" /\ HistoryComplete(r)
Fetched(r, t) == IF Skips(r) THEN {} ELSE Asked(Stored(r, t), r)

\* The rows the command will put into each table.
Repair(r) ==
    [t \in Tables |-> IF t \in Histories THEN HistoryRows({r.symbol}, Fetched(r, t))
                      ELSE IF LatestCurrent(r) THEN {} ELSE r.got["latest"]]

Decided(r) ==
    IF NothingToDo(r) THEN Verdict("IDEMPOTENT")
    ELSE IF ~Skips(r) /\ ~CompletedBy(r, Fetched(r, "raw"), Fetched(r, "qfq")) THEN Refused(r)
    ELSE Onward([r EXCEPT !.got = Repair(r), !.todo = Written(Repair(r), r.op),
                          !.validates = ToValidate(r)])

\* The decision what to repair, and the fetch of what is missing.
Decide(c) ==
    /\ c \in Commands /\ run[c].pc = "decide"
    /\ Set(c, Decided(run[c]))
    /\ UNCHANGED <<today, sheet, validation, watch>>

\* _close, or the last write of ADD and REENTER.
WriteWatchlist(c) ==
    /\ c \in Commands /\ run[c].pc = "watchlist"
    /\ watch' = [watch EXCEPT ![run[c].symbol] = IF run[c].op = "CLOSE" THEN "off" ELSE "on"]
    /\ \E answered \in Answered :
         Set(c, IF answered THEN Verdict("SUCCESS") ELSE Raised(c))
    /\ UNCHANGED <<today, sheet, validation>>

\* _audit_result: when the audit of a success fails, that is audited as a failure;
\* when the audit of a failure fails, execute raises.
Audit(c) ==
    /\ c \in Commands /\ run[c].pc = "audit"
    /\ \E answered \in Answered :
         Set(c, IF answered \/ run[c].outcome = "FAILED" THEN Ended ELSE Raised(c))
    /\ UNCHANGED <<today, sheet, validation, watch>>

-----------------------------------------------------------------------------
(* The scheduled pipeline and the QFQ refresh after it.                    *)

Series(S, d) == HistoryRows(S, (d - Depth + 1)..d)

\* What was fetched for the symbols: a quote each, with the status of its sources, and
\* the histories, one of which may be missing.
Prepared(ok, review, unadjusted) ==
    LET status(s) == IF s \in Canonical THEN "DATA_OK"
                     ELSE IF s \in review THEN "REVIEW" ELSE "VERIFIED"
    IN  [t \in Tables |-> IF t = "latest" THEN {Row(s, today, status(s)) : s \in ok}
                          ELSE Series(IF t = "raw" THEN ok ELSE ok \ unadjusted, today)]

\* run: the enabled symbols of the group, fetched before anything is written.
StartPipeline(p) ==
    /\ p \in Pipelines /\ MayStart(p)
    /\ LET scope == {s \in GroupSymbols[p] : watch[s] = "on"}
       IN  \E mode \in Modes, failed \in SUBSET scope, review \in SUBSET (scope \ Canonical),
              unadjusted \in SUBSET scope, global \in BOOLEAN :
             LET ok == scope \ failed
             IN  /\ review \cup unadjusted \subseteq ok
                 /\ mode = "latest" => unadjusted = {}
                 /\ global => failed \cap Canonical # {}
                 /\ Set(p, [run[p] EXCEPT !.pc = "read", !.op = mode, !.asOf = today,
                              !.failed = failed, !.global = global, !.validates = ok,
                              !.todo = IF mode = "latest" THEN <<"latest">> ELSE <<"latest", "raw", "qfq">>,
                              !.got = Prepared(ok, review, unadjusted)])
    /\ UNCHANGED <<today, sheet, validation, watch>>

\* A table is read just before it is rewritten; failures mark the row they find.
Read(p) ==
    /\ p \in Pipelines /\ run[p].pc = "read"
    /\ LET t == Head(run[p].todo)
           marks == IF t = "latest" THEN {FailureRow(sheet[t], s) : s \in run[p].failed} ELSE {}
       IN  Set(p, [run[p] EXCEPT !.pc = "clear", !.cache[t] = sheet[t], !.got[t] = @ \cup marks])
    /\ UNCHANGED <<today, sheet, validation, watch>>

\* The formal universe of the refresh, each symbol with the row that sets its target.
Refreshable(p) ==
    {x \in sheet["latest"] : /\ x.symbol \in Pool \cap GroupSymbols[p]
                             /\ watch[x.symbol] # "absent" /\ Monitorable(x)}

\* _refresh_single_source_qfq: one failed symbol is left out of the write.
PlanRefresh(p) ==
    /\ p \in Pipelines /\ run[p].pc = "plan"
    /\ \E fetched \in SUBSET Refreshable(p) :
         LET r == [run[p] EXCEPT !.op = "QFQ", !.validates = {},
                      !.todo = IF fetched = {} THEN << >> ELSE <<"qfq">>,
                      !.got["qfq"] = UNION {Series({x.symbol}, x.day) : x \in fetched}]
         IN  Set(p, Onward(r))
    /\ UNCHANGED <<today, sheet, validation, watch>>

-----------------------------------------------------------------------------
(* The writes, a call each.                                                *)

\* _replace, its first call: the table is empty from now on.
Clear(p) ==
    /\ p \in Writers /\ run[p].pc = "clear"
    /\ sheet' = [sheet EXCEPT ![Head(run[p].todo)] = {}]
    /\ \E answered \in Answered :
         Set(p, IF answered THEN [run[p] EXCEPT !.pc = "put"] ELSE Raised(p))
    /\ UNCHANGED <<today, validation, watch>>

\* _replace, its second call.
Put(p) ==
    /\ p \in Writers /\ run[p].pc = "put"
    /\ LET t == Head(run[p].todo)
       IN  /\ sheet' = [sheet EXCEPT ![t] = Content(run[p], t)]
           /\ \E answered \in Answered :
                 Set(p, IF answered
                        THEN Onward([run[p] EXCEPT !.todo = Tail(@), !.cache[t] = {}, !.got[t] = {}])
                        ELSE Raised(p))
    /\ UNCHANGED <<today, validation, watch>>

\* append_rows("校验记录").
AppendValidation(p) ==
    /\ p \in Writers /\ run[p].pc = "validate"
    /\ validation' = validation \cup
          {[symbol |-> s, day |-> run[p].asOf, by |-> p] : s \in run[p].validates}
    /\ \E answered \in Answered :
         Set(p, IF answered THEN Onward([run[p] EXCEPT !.validates = {}]) ELSE Raised(p))
    /\ UNCHANGED <<today, sheet, watch>>

-----------------------------------------------------------------------------
(* The environment.                                                        *)

\* A call fails without effect; a read, or a fetch that is refused.
CallFails(p) ==
    /\ CallsMayFail
    /\ run[p].pc \notin {"idle", "done", "audit"}
    /\ Set(p, Raised(p))
    /\ UNCHANGED <<today, sheet, validation, watch>>

Die(p) ==
    /\ ProcessMayDie
    /\ ~Idle(p)
    /\ Set(p, Ended)
    /\ UNCHANGED <<today, sheet, validation, watch>>

NextSession ==
    /\ today < LastDay
    /\ today' = today + 1
    /\ UNCHANGED <<sheet, validation, watch, run>>

CommandStep(c) ==
    \/ Receive(c) \/ Snapshot(c) \/ Load(c) \/ Decide(c) \/ WriteWatchlist(c) \/ Audit(c)

PipelineStep(p) == StartPipeline(p) \/ Read(p) \/ PlanRefresh(p)

Next ==
    \/ \E c \in Commands : CommandStep(c)
    \/ \E p \in Pipelines : PipelineStep(p)
    \/ \E p \in Writers : Clear(p) \/ Put(p) \/ AppendValidation(p) \/ CallFails(p) \/ Die(p)
    \/ NextSession

Spec == Init /\ [][Next]_vars

-----------------------------------------------------------------------------
(* Properties.                                                             *)

\* A command that enables a holding leaves, for the session it answered for, a
\* complete year of both histories, a current quote and a validation row: the
\* enable is the last write and none of the others was lost on the way.
EnableIsLast ==
    [][\A c \in Commands, s \in Symbols :
         (run[c].pc = "watchlist" /\ run'[c].pc # "watchlist" /\ run[c].symbol = s
            /\ watch[s] # "on" /\ watch'[s] = "on")
         => LET r == run[c]
                D(t) == DaysOf(sheet[t], r.symbol)
            IN  /\ CoverageOk(D("raw"), D("qfq"), Start(r), r.asOf)
                /\ \E x \in sheet["latest"] : x.symbol = r.symbol /\ x.day = r.asOf
                /\ ValidatedAt(r.symbol, r.asOf)]_vars

\* A day of the window that is not stored, in a hole too short to be asked for.
SmallHole(D, r) == \E d \in Start(r)..r.asOf : d \notin D /\ d \notin Asked(D, r)

\* Whatever was interrupted before it, a command that meets no fault of its own
\* is refused only for want of the identity, for rows outside the window, or
\* because the two series differ by a day in a hole the coverage rules allow.
RefusedOnlyWithReason ==
    \A c \in Commands :
        LET r == run[c]
        IN  (r.pc = "audit" /\ r.outcome = "FAILED" /\ ~r.faulty)
            => \/ r.op \in {"REENTER", "SYNC"} /\ r.seen = "absent"
               \/ \E t \in Histories : \E d \in Stored(r, t) : d < Start(r) \/ d > r.asOf
               \/ \E t \in Histories : SmallHole(Stored(r, t), r)

\* Retried commands do not append a second validation row for a session.
CommandsValidateOnce ==
    \A v, w \in validation :
        (v.symbol = w.symbol /\ v.day = w.day /\ {v.by, w.by} \subseteq Commands) => v.by = w.by

\* A writer about to clear a table holds every row it takes away, but for the
\* quotes it renews and the series it replaces.
RowsSurviveRewrites ==
    [][\A p \in Writers :
         (run[p].pc = "clear" /\ run'[p].pc = "put") =>
            LET t == Head(run[p].todo)
            IN  \A x \in sheet[t] :
                   \/ x \in Content(run[p], t)
                   \/ x.symbol \in SymbolsOf(run[p].got[t]) /\ (t = "latest" \/ run[p].op = "QFQ")]_vars

\* A holding that was added can be brought up to date on a later session.
SyncFollowsTheCalendar ==
    \A c \in Commands : ~(run[c].pc = "audit" /\ run[c].op = "SYNC" /\ run[c].seen = "on"
                          /\ run[c].outcome = "FAILED" /\ ~run[c].faulty)

=============================================================================
