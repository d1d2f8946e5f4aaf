------------------------- MODULE MarketCloseTriggers -------------------------
(***************************************************************************)
(* What makes the daily report of the CN market run: the triggers of the   *)
(* workflow itself, its concurrency group, and the two watchdogs that look *)
(* at the list of workflow runs and dispatch one more (the Cloudflare      *)
(* worker and the VPS timer). Nobody remembers what was dispatched: each   *)
(* watchdog judges by the newest run inside its own lookback window.       *)
(*                                                                         *)
(* A run of the report is reduced to what ReportDelivery and its exit      *)
(* status let the others see: whether the session's final report is        *)
(* claimed, and how the workflow run ended. Times are minutes, UTC.        *)
(***************************************************************************)
EXTENDS Integers, FiniteSets, FiniteSetsExt

CONSTANTS
    Days,        \* weekdays, in order: every trigger fires on each of them
    TradingDays, \* the weekdays on which the exchange is open
    MaxFaults    \* bound on killed runs, lost answers and refused calls

ASSUME TriggersAssumption ==
    /\ IsFiniteSet(Days) /\ Days = 1 .. Cardinality(Days)
    /\ TradingDays \subseteq Days /\ 1 \in TradingDays
    /\ MaxFaults \in Nat

DayLength == 1440
Close     == 420                     \* 15:00 in Shanghai

\* The workflow's own triggers: the end of the market data workflow, and two
\* cron lines. GitHub delays or drops them freely.
DueAt == [upstream |-> 570, cron |-> 600, laterCron |-> 630]

\* The VPS timer adds up to RandomDelay, and catches up when it was down.
CheckAt     == [worker |-> 585, vps |-> 725]
RandomDelay == 10

\* Mutant: the VPS looks back no further than the worker.
LookbackOfWorker == [worker |-> 90, vps |-> 90]

Lookback == [worker |-> 90, vps |-> 240]

Triggers  == DOMAIN DueAt
Watchdogs == DOMAIN CheckAt
MaxTries  == 3

\* The minutes of a day at which something is due, the VPS with its whole random
\* delay; the last one is a VPS that was down.
Instants == {570, 585, 600, 630, 735, 1380}

VARIABLES
    now,          \* minutes since the day before the first
    fired,        \* triggers and watchdogs that went off today
    holder,       \* the workflow run that has the concurrency group, or had it last
    waiting,      \* the run created since that waits for the group, or NoRun
    claimed,      \* sessions whose final report is claimed
    dogs,         \* per watchdog: tries of the dispatch it makes, or Off
    faults,       \* faults so far
    looked,       \* history: days on which the VPS looked
    pursued,      \* history: sessions of a run that ended after it looked, or as a success
    undispatched  \* history: sessions of a watchdog that gave up

seen == <<looked, pursued, undispatched>>
runs == <<holder, waiting>>
triggersVars == <<now, fired, runs, claimed, dogs, faults, seen>>

-----------------------------------------------------------------------------
(* Calendar.                                                               *)

Off == MaxTries
Day == now \div DayLength
Minute == now % DayLength
ClosedAt(s) == s * DayLength + Close

\* latest_completed_session.
Latest == Max({s \in TradingDays : ClosedAt(s) <= now})

Times == {d * DayLength + m : d \in Days, m \in Instants}

-----------------------------------------------------------------------------
(* GitHub Actions: one run of the workflow at a time, at most one waiting; *)
(* a newer one that has to wait cancels the one that waited, which nobody  *)
(* looks at again: it is neither active nor the newest.                    *)

NoRun == [created |-> 0, work |-> "none", session |-> 0, verdict |-> "",
          status |-> "none", conclusion |-> ""]

\* The head of the list of runs.
Newest == IF waiting # NoRun THEN waiting ELSE holder

Holding(r) == r.status \in {"queued", "in_progress"}
Done(r, conclusion) == [r EXCEPT !.status = "completed", !.conclusion = conclusion]

\* The slot is free: a run whose only job is skipped is over at once.
Enter(r) == IF r.work = "none" THEN Done(r, "skipped") ELSE [r EXCEPT !.status = "queued"]

Create(work) ==
    LET new == [created |-> now, work |-> work, session |-> 0, verdict |-> "",
                status |-> "pending", conclusion |-> ""]
    IN  IF Holding(holder) THEN waiting' = new /\ UNCHANGED holder
                           ELSE holder' = Enter(new) /\ UNCHANGED waiting

Fault == faults < MaxFaults /\ faults' = faults + 1

-----------------------------------------------------------------------------
TriggersInit ==
    /\ now = Min(Times)
    /\ fired = {}
    /\ holder = NoRun /\ waiting = NoRun
    /\ claimed = {}
    /\ dogs = [w \in Watchdogs |-> Off]
    /\ faults = 0
    /\ looked = {} /\ pursued = {} /\ undispatched = {}

\* A watchdog's calls take seconds: no other instant passes meanwhile. GitHub's
\* limit on a job ends every run before the next day's first trigger.
Advance ==
    LET later == {t \in Times : t > now} IN
    /\ later # {}
    /\ \A w \in Watchdogs : dogs[w] = Off
    /\ Min(later) \div DayLength > Day => ~ Holding(holder)
    /\ now' = Min(later)
    /\ fired' = IF Min(later) \div DayLength > Day THEN {} ELSE fired
    /\ UNCHANGED <<runs, claimed, dogs, faults, seen>>

\* The job of a workflow_run event is skipped unless the market data workflow
\* succeeded on its own schedule.
Trigger(t) ==
    /\ t \notin fired
    /\ Minute >= DueAt[t]
    /\ fired' = fired \cup {t}
    /\ \E work \in IF t = "upstream" THEN {"report", "none"} ELSE {"report"} : Create(work)
    /\ UNCHANGED <<now, claimed, dogs, faults, seen>>

-----------------------------------------------------------------------------
(* A run of the report, as the rest of the world sees it: the verdict of   *)
(* its last attempt, the claim some minutes later, and the exit status of  *)
(* main() as the conclusion of the workflow run.                           *)

RunStarts ==
    /\ holder.status = "queued"
    /\ holder' = [holder EXCEPT !.status = "in_progress", !.session = Latest]
    /\ UNCHANGED <<now, fired, waiting, claimed, dogs, faults, seen>>

\* The last attempt of the run: a report, or an alert where the data was not
\* complete then, a provider was out or the report degraded.
RunComputes ==
    /\ holder.status = "in_progress" /\ holder.verdict = ""
    /\ holder.session \notin claimed
    /\ \E verdict \in {"ALERT", "FINAL"} :
         holder' = [holder EXCEPT !.verdict = verdict]
    /\ UNCHANGED <<now, fired, waiting, claimed, dogs, faults, seen>>

\* The group passes to the run that waits.
Ends(conclusion) ==
    /\ holder.status = "in_progress"
    /\ holder' = IF waiting # NoRun THEN Enter(waiting) ELSE Done(holder, conclusion)
    /\ waiting' = NoRun
    /\ pursued' = IF "vps" \in fired \/ conclusion = "success"
                    THEN pursued \cup {holder.session} ELSE pursued
    /\ UNCHANGED <<now, fired, dogs, looked, undispatched>>

\* The claim is durable; a failed ledger or email makes the run a failure.
RunReports ==
    /\ holder.verdict = "FINAL"
    /\ claimed' = claimed \cup {holder.session}
    /\ \E conclusion \in {"success", "failure"} : Ends(conclusion)
    /\ UNCHANGED faults

RunFindsFinal ==
    /\ holder.verdict = "" /\ holder.session \in claimed
    /\ Ends("success")
    /\ UNCHANGED <<claimed, faults>>

RunAlerts ==
    /\ holder.verdict = "ALERT"
    /\ Ends("failure")
    /\ UNCHANGED <<claimed, faults>>

\* The store does not answer the claim, before or after it took effect: the
\* report is not sent, and the exit status says nothing of it.
RunUnclaimed ==
    /\ holder.verdict = "FINAL"
    /\ Fault
    /\ claimed' \in {claimed, claimed \cup {holder.session}}
    /\ Ends("success")

\* A run is killed wherever it is, the claim included.
RunKilled ==
    /\ Fault
    /\ \/ UNCHANGED claimed
       \/ holder.verdict = "FINAL" /\ claimed' = claimed \cup {holder.session}
    /\ Ends("failure")

RunWorks == RunComputes \/ RunReports \/ RunFindsFinal \/ RunAlerts \/ RunUnclaimed

-----------------------------------------------------------------------------
(* The watchdogs.                                                          *)

\* _recent_run / recentRun: the newest run inside the window.
Recent(w) == {r \in {Newest} \ {NoRun} : r.created >= now - Lookback[w]}

ActiveOrSuccess(r) == r.status # "completed" \/ r.conclusion = "success"

\* Mutant: an unanswered listing leaves the workflow alone.
JudgedClosed(w, answered) ==
    IF answered /\ ~\E r \in Recent(w) : ActiveOrSuccess(r) THEN 0 ELSE Off

\* No answer counts as no run: the watchdog would rather dispatch twice.
Judged(w, answered) ==
    IF answered /\ \E r \in Recent(w) : ActiveOrSuccess(r) THEN Off ELSE 0

\* The worker's cron is on time; the VPS may be late, or catch up.
Check(w) ==
    /\ w \notin fired
    /\ IF w = "worker" THEN Minute = CheckAt[w] ELSE Minute >= CheckAt[w]
    /\ fired' = fired \cup {w}
    /\ \E answered \in BOOLEAN :
         /\ dogs' = [dogs EXCEPT ![w] = Judged(w, answered)]
         /\ IF answered THEN UNCHANGED faults ELSE Fault
    /\ looked' = IF w = "vps" THEN looked \cup ({Day} \cap TradingDays) ELSE looked
    /\ UNCHANGED <<now, runs, claimed, pursued, undispatched>>

\* One try of the dispatch. A lost answer is retried like a refusal that may
\* pass, although the run exists by then.
Post(w) ==
    /\ dogs[w] < MaxTries
    /\ \/ /\ Create("report")
          /\ dogs' = [dogs EXCEPT ![w] = Off]
          /\ UNCHANGED <<faults, undispatched>>
       \/ /\ Fault
          /\ Create("report")
          /\ dogs' = [dogs EXCEPT ![w] = @ + 1]
          /\ UNCHANGED undispatched
       \/ /\ Fault
          /\ dogs' = [dogs EXCEPT ![w] = @ + 1]
          /\ undispatched' = IF dogs[w] + 1 = MaxTries THEN undispatched \cup {Latest}
                                                       ELSE undispatched
          /\ UNCHANGED runs
       \/ /\ Fault
          /\ dogs' = [dogs EXCEPT ![w] = Off]
          /\ undispatched' = undispatched \cup {Latest}
          /\ UNCHANGED runs
    /\ UNCHANGED <<now, fired, claimed, looked, pursued>>

-----------------------------------------------------------------------------
TriggersNext ==
    \/ Advance
    \/ \E t \in Triggers : Trigger(t)
    \/ RunStarts \/ RunWorks \/ RunKilled
    \/ \E w \in Watchdogs : Check(w) \/ Post(w)

TriggersSpec == TriggersInit /\ [][TriggersNext]_triggersVars

\* GitHub gives a waiting run its runner, a run ends (its job has a time
\* limit), and a watchdog's bounded calls return.
TriggersFairness ==
    /\ WF_triggersVars(RunStarts)
    /\ WF_triggersVars(RunWorks)
    /\ \A w \in Watchdogs : WF_triggersVars(Post(w))

FairTriggersSpec == TriggersSpec /\ TriggersFairness

-----------------------------------------------------------------------------
(* Properties.                                                             *)

\* The newest run that was created since the session the report is for closed.
SinceClose == {r \in {Newest} \ {NoRun} : r.created >= ClosedAt(Latest)}
Covered == \E r \in SinceClose : ActiveOrSuccess(r)

\* A watchdog that saw the list judges this session: it never stays out for a
\* run of an earlier session, and, when it is on time, never dispatches while
\* the newest run of this session is active or succeeded
\* (market_close_watchdog.py:22-27, README.md:8-13 of the VPS watchdog). The
\* newest is all it asks about: a skipped workflow_run behind a success is no
\* reason to stay out, and the code dispatches once more.
WatchdogsJudgeThisSession ==
    [][ \A w \in Watchdogs :
          (w \in fired' \ fired /\ Day \in TradingDays) =>
            /\ dogs'[w] = Off => Covered
            /\ (Covered /\ faults' = faults /\ Minute <= CheckAt[w] + RandomDelay)
                 => dogs'[w] = Off ]_triggersVars

\* "Trigger: AT_LEAST_ONCE" (docs/RELIABILITY_MARKET_CLOSE_TRIGGER_RUNBOOK.md:13-14):
\* once the VPS has looked at a session, no run that failed before is the last
\* word on it. A run of the session ends after the look, or had ended as a
\* success; or GitHub took no dispatch. Whatever was lost, skipped, cancelled
\* or killed, and wherever in its work the look found the run.
SessionIsPursued ==
    \A s \in TradingDays : s \in looked ~> s \in pursued \cup undispatched

=============================================================================
