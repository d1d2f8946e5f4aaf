--------------------------- MODULE ReportDelivery ---------------------------
(***************************************************************************)
(* Delivery of the daily report of one market: the runs of                 *)
(* scripts/run_cloud_daily_report.py (main, run_cloud_daily_report,        *)
(* _notify) against the durable markers of trading/operational_markers.py. *)
(* Markets share neither marker names nor a workflow concurrency group, so *)
(* one market is modelled; its sessions are dates.                         *)
(*                                                                         *)
(* A run resolves its session, makes bounded attempts (finality preflight, *)
(* computation, ledger), and routes one terminal payload: the final report *)
(* by email after a create-only claim, anything else as a Bark alert after *)
(* a claim of its own. A step is one call that leaves the process: a store *)
(* read, a store put, a ledger write, an SMTP or a Bark call. A run may    *)
(* crash between any two of them and its process is never resumed.         *)
(***************************************************************************)
EXTENDS CreateOnlyStore, DeliveryReadiness

CONSTANTS
    Runs,            \* process invocations; each is started at most once
    Sessions,        \* trading dates of the market
    Protocols,       \* values of CLOUD_DAILY_REPORT_PROTOCOL_VERSION
    LegacyIds,       \* identities a legacy V1 marker can carry
    NoIdentity,      \* no --legacy-recovery-identity given
    Corrupt,         \* a V2 object that fails its schema check
    Nobody, Lost,    \* holders of a session in the abstract specification
    DayOutcomes,     \* the outcomes an attempt may have
    MaxAttempts,     \* --retry-not-ready-attempts
    Serialized,      \* the workflow's concurrency group admits one run at a time
    Configured,      \* the D1_VPS_* secrets are present
    StorageMayFail,  \* the store can be unreachable or lose a receipt
    ProcessMayFail   \* a runner can be killed, or composing a message can raise

Identities == LegacyIds \cup {NoIdentity}

\* The V2 marker payload: the fields that differ between two claims of one
\* name. A claim over legacy markers records the identity that authorised it.
FinalMarkers == [protocol : Protocols, recovery : Identities]

ASSUME DeliveryAssumption ==
    /\ DayOutcomes \subseteq Outcomes
    /\ MaxAttempts \in 1 .. 8
    /\ {Serialized, Configured, StorageMayFail, ProcessMayFail} \subseteq BOOLEAN
    /\ NoIdentity \notin LegacyIds
    /\ Absent # Corrupt
    /\ {Absent, Corrupt} \cap (FinalMarkers \cup Protocols \cup LegacyIds) = {}
    /\ Nobody # Lost /\ {Nobody, Lost} \cap Runs = {}

VARIABLES
    pc,          \* per run: the next call it makes
    job,         \* per run: what it was started with
    attempt,     \* per run: index of the current readiness attempt
    outcome,     \* per run: classification of the latest attempt
    ledger,      \* per run: OPPORTUNITY_LEDGER_STATUS of the latest attempt
    claim,       \* per run: how its claim on the session ended
    final,       \* per session: the V2 final marker
    legacy,      \* per session: identities of the legacy V1 markers
    migrated,    \* per session: identities with a V1-to-V2 migration marker
    alerts,      \* per session and alert state: the alert marker
    mailed,      \* history: runs whose final report reached SMTP
    barked,      \* history: <<run, alert state>> handed to Bark
    wrote        \* history: runs that wrote the Opportunity Ledger

local   == <<job, attempt, outcome, ledger, claim>>
markers == <<final, legacy, migrated, alerts>>
history == <<mailed, barked, wrote>>
vars    == <<pc, local, markers, history>>

-----------------------------------------------------------------------------
(* Data.                                                                   *)

Idle     == "idle"
Finished == {"done", "crashed"}
Active(r) == pc[r] \notin {Idle} \cup Finished

\* natural: no --date was given, which main() uses both for automatic
\* resolution and for the NATURAL delivery scope; otherwise DIAGNOSTIC.
Jobs == [session : Sessions, natural : BOOLEAN, recovery : Identities, protocol : Protocols]

LedgerStatuses == {"NOT_RUN", "SUCCESS", "FAILED", "MISSED_PROSPECTIVE_SESSION",
                   "NOT_ENABLED_FOR_DIAGNOSTIC", "NOT_ELIGIBLE_DELIVERY_READINESS"}

ClaimStatuses == {"NONE", "CLAIMED", "NOOP_ALREADY_SENT", "IDEMPOTENCY_UNAVAILABLE",
                  "LEGACY_V1_MARKER_PRESENT", "LEGACY_RECOVERY_NOT_AUTHORIZED",
                  "NOT_CONFIGURED", "NOT_NOTIFYABLE", "FINAL_MARKER_INVALID",
                  "FINAL_SESSION_ALREADY_COMPLETED"}

DegradedState(o) == <<o.readiness, o.reason>>
LedgerState(l)   == <<"LEDGER_ERROR", l>>
EmailState       == <<"EMAIL_DELIVERY_FAILED", "">>

AlertStates ==
    {DegradedState(o) : o \in {o \in Outcomes : ~IsFinal(o)}}
    \cup {LedgerState(l) : l \in {"FAILED", "MISSED_PROSPECTIVE_SESSION"}}
    \cup {EmailState}

\* _finality_preflight_failure_payload: a failed run nobody is told about.
PreflightFailure == [Failed("REPORT_EXECUTION_FAILED") EXCEPT !.mode = "NONE"]
NoOutcome == [Failed("") EXCEPT !.mode = "NONE"]

LedgerFailed(r) == ledger[r] \in {"FAILED", "MISSED_PROSPECTIVE_SESSION"}
\* Mutant: a marker that is already there is taken for a claim.
MaySendOnReplay(status) == status \in {"CLAIMED", "NOT_CONFIGURED", "NOOP_ALREADY_SENT"}

MaySend(status) == status \in {"CLAIMED", "NOT_CONFIGURED"}

\* Mutant: an idempotent replay claims.
ClaimOfReplay == [CREATED |-> "CLAIMED", IDEMPOTENT_REPLAY |-> "CLAIMED",
                  ERROR |-> "IDEMPOTENCY_UNAVAILABLE"]
\* _claim_marker's reading of a put status.
ClaimOf == [CREATED           |-> "CLAIMED",
            IDEMPOTENT_REPLAY |-> "NOOP_ALREADY_SENT",
            ERROR             |-> "IDEMPOTENCY_UNAVAILABLE"]

Calls == {"preflightV2", "preflightLegacy", "compute", "ledger", "claimScan",
          "claimMigration", "claimFinal", "claimLedgerAlert", "ledgerBark", "email",
          "claimEmailAlert", "emailBark", "alertV2", "alertLegacy", "claimAlert", "alertBark"}

-----------------------------------------------------------------------------
(* Control that makes no call of its own.                                  *)

Goto(r, call) == pc' = [pc EXCEPT ![r] = call]
Session(r)    == job[r].session
Natural(r)    == job[r].natural

\* Mutant: no preflight.
FirstCallUnguarded(r) == "compute"

\* The preflight guards natural automatic runs without a recovery identity;
\* without a configured store it answers NOT_CONFIGURED and the run goes on.
FirstCall(r) ==
    IF Natural(r) /\ job[r].recovery = NoIdentity /\ Configured
      THEN "preflightV2" ELSE "compute"

AfterLedgerAlert(status) == IF MaySend(status) THEN "email" ELSE "done"

AfterClaim(r, status) ==
    IF LedgerFailed(r) THEN "claimLedgerAlert" ELSE AfterLedgerAlert(status)

\* Mutant: a degraded run claims its alert without the terminality guard.
RouteUnguarded(r, o, l) ==
    IF ~Natural(r) \/ o.reason = "NON_SESSION" THEN "done"
    ELSE IF ~IsFinal(o) THEN (IF Configured THEN "claimAlert" ELSE "alertBark")
    ELSE IF Configured THEN "claimScan" ELSE "email"

\* _notify: what the terminal payload of an attempt leads to, given the ledger
\* status l. A claim without a configured store reads and writes nothing.
Route(r, o, l) ==
    IF ~Natural(r) \/ o.reason = "NON_SESSION" THEN "done"
    ELSE IF ~IsFinal(o) THEN (IF Configured THEN "alertV2" ELSE "alertBark")
    ELSE IF Configured THEN "claimScan"
    ELSE IF l \in {"FAILED", "MISSED_PROSPECTIVE_SESSION"} THEN "claimLedgerAlert"
    ELSE "email"

-----------------------------------------------------------------------------
Init ==
    /\ pc = [r \in Runs |-> Idle]
    /\ job \in [Runs -> Jobs]
    /\ attempt = [r \in Runs |-> 0]
    /\ outcome = [r \in Runs |-> NoOutcome]
    /\ ledger = [r \in Runs |-> "NOT_RUN"]
    /\ claim = [r \in Runs |-> IF Configured THEN "NONE" ELSE "NOT_CONFIGURED"]
    /\ final \in [Sessions -> {Absent, Corrupt}]
    /\ legacy \in [Sessions -> SUBSET LegacyIds]
    /\ migrated = [s \in Sessions |-> {}]
    /\ alerts = [s \in Sessions |-> [a \in AlertStates |-> Absent]]
    /\ mailed = {}
    /\ barked = {}
    /\ wrote = {}

(* A run begins. The concurrency group (cancel-in-progress: false) keeps a *)
(* second run of the workflow waiting until the first one is gone.         *)
MayStart(r) ==
    /\ pc[r] = Idle
    /\ Serialized => \A q \in Runs : ~Active(q)

Start(r) ==
    /\ MayStart(r)
    /\ Goto(r, FirstCall(r))
    /\ UNCHANGED <<local, markers, history>>

\* resolve_cloud_trade_date raised: main() notifies at once, under the civil
\* date it falls back to and without a preflight.
StartUnresolved(r) ==
    /\ MayStart(r)
    /\ Natural(r)
    /\ Failed("REPORT_EXECUTION_FAILED") \in DayOutcomes
    /\ outcome' = [outcome EXCEPT ![r] = Failed("REPORT_EXECUTION_FAILED")]
    /\ Goto(r, Route(r, outcome'[r], "NOT_RUN"))
    /\ UNCHANGED <<job, attempt, ledger, claim, markers, history>>

-----------------------------------------------------------------------------
(* final_report_session_status: the V2 marker, then the legacy scan. A     *)
(* legacy marker is evidence of delivery just like the V2 marker.          *)

StorageFault == IF StorageMayFail THEN {"IDEMPOTENCY_UNAVAILABLE"} ELSE {}

V2Status(s) ==
    StorageFault \cup
    {IF final[s] = Absent THEN "ABSENT"
     ELSE IF final[s] = Corrupt THEN "FINAL_MARKER_INVALID"
     ELSE "FINAL_SESSION_ALREADY_COMPLETED"}

LegacyStatus(s) ==
    StorageFault \cup
    {IF legacy[s] = {} THEN "ABSENT" ELSE "FINAL_SESSION_ALREADY_COMPLETED"}

\* Evidence stops the run: as a no-op, or, when it could not be read or is
\* invalid, as a failed run whose notification mode is NONE.
Stop(r, status) ==
    /\ Goto(r, "done")
    /\ IF status = "FINAL_SESSION_ALREADY_COMPLETED"
         THEN /\ claim' = [claim EXCEPT ![r] = status]
              /\ UNCHANGED outcome
         ELSE /\ claim' = [claim EXCEPT ![r] = "NOT_NOTIFYABLE"]
              /\ outcome' = [outcome EXCEPT ![r] = PreflightFailure]

Pass(r, call) == Goto(r, call) /\ UNCHANGED <<outcome, claim>>

PreflightV2(r) ==
    /\ pc[r] = "preflightV2"
    /\ \E status \in V2Status(Session(r)) :
         IF status = "ABSENT" THEN Pass(r, "preflightLegacy") ELSE Stop(r, status)
    /\ UNCHANGED <<job, attempt, ledger, markers, history>>

PreflightLegacy(r) ==
    /\ pc[r] = "preflightLegacy"
    /\ \E status \in LegacyStatus(Session(r)) :
         IF status = "ABSENT" THEN Pass(r, "compute") ELSE Stop(r, status)
    /\ UNCHANGED <<job, attempt, ledger, markers, history>>

-----------------------------------------------------------------------------
(* The attempt itself.                                                     *)

\* Only a final-eligible attempt reaches the ledger; any other one is retried
\* silently while main() has attempts left, or routed.
Compute(r) ==
    /\ pc[r] = "compute"
    /\ \E o \in DayOutcomes :
         /\ outcome' = [outcome EXCEPT ![r] = o]
         /\ \/ /\ IsFinal(o)
               /\ Goto(r, "ledger")
               /\ UNCHANGED <<attempt, ledger>>
            \/ /\ ~IsFinal(o)
               /\ o.retryable /\ attempt[r] + 1 < MaxAttempts
               /\ attempt' = [attempt EXCEPT ![r] = @ + 1]
               /\ Goto(r, FirstCall(r))
               /\ UNCHANGED ledger
            \/ /\ ~IsFinal(o)
               /\ ~(o.retryable /\ attempt[r] + 1 < MaxAttempts)
               /\ ledger' = [ledger EXCEPT ![r] = "NOT_ELIGIBLE_DELIVERY_READINESS"]
               /\ Goto(r, Route(r, o, "NOT_ELIGIBLE_DELIVERY_READINESS"))
               /\ UNCHANGED attempt
    /\ UNCHANGED <<job, claim, markers, history>>

\* persist_daily_opportunities, unless the next session has already opened. A
\* failed write may have appended rows before it failed, or none.
PersistLedger(r) ==
    /\ pc[r] = "ledger"
    /\ \/ \E l \in {"SUCCESS", "FAILED"} :
            /\ ledger' = [ledger EXCEPT ![r] = l]
            /\ wrote' = wrote \cup {r}
       \/ /\ ledger' = [ledger EXCEPT ![r] = "FAILED"]
          /\ UNCHANGED wrote
       \/ /\ ledger' = [ledger EXCEPT ![r] = IF Natural(r)
                                               THEN "MISSED_PROSPECTIVE_SESSION"
                                               ELSE "NOT_ENABLED_FOR_DIAGNOSTIC"]
          /\ UNCHANGED wrote
    /\ Goto(r, Route(r, outcome[r], ledger'[r]))
    /\ UNCHANGED <<job, attempt, outcome, claim, markers, mailed, barked>>

-----------------------------------------------------------------------------
(* claim_final_report_notification: legacy scan, migration, V2 claim.      *)

Claimed(r, status) ==
    /\ claim' = [claim EXCEPT ![r] = status]
    /\ Goto(r, AfterClaim(r, status))

ClaimScan(r) ==
    /\ pc[r] = "claimScan"
    /\ LET found == legacy[Session(r)]  id == job[r].recovery IN
         \/ StorageMayFail /\ Claimed(r, "IDEMPOTENCY_UNAVAILABLE")
         \/ found = {} /\ Goto(r, "claimFinal") /\ UNCHANGED claim
         \/ found # {} /\ id = NoIdentity /\ Claimed(r, "LEGACY_V1_MARKER_PRESENT")
         \/ found # {} /\ id \notin found \cup {NoIdentity}
              /\ Claimed(r, "LEGACY_RECOVERY_NOT_AUTHORIZED")
         \/ found # {} /\ id \in found /\ Goto(r, "claimMigration") /\ UNCHANGED claim
    /\ UNCHANGED <<job, attempt, outcome, ledger, markers, history>>

\* Mutant: a migration that was not recorded does not stop the claim.
ClaimMigrationUnrecorded(r) ==
    /\ pc[r] = "claimMigration"
    /\ LET s == Session(r)  id == job[r].recovery IN
         \E put \in PutResults(IF id \in migrated[s] THEN id ELSE Absent, id, StorageMayFail) :
           migrated' = [migrated EXCEPT ![s] = @ \cup ({put.object} \ {Absent})]
    /\ Goto(r, "claimFinal")
    /\ UNCHANGED <<local, final, legacy, alerts, history>>

\* The migration marker's payload depends on nothing but its name.
ClaimMigration(r) ==
    /\ pc[r] = "claimMigration"
    /\ LET s == Session(r)  id == job[r].recovery IN
         \E put \in PutResults(IF id \in migrated[s] THEN id ELSE Absent, id, StorageMayFail) :
           /\ migrated' = [migrated EXCEPT ![s] = @ \cup ({put.object} \ {Absent})]
           /\ IF put.status = "ERROR"
                THEN Claimed(r, "IDEMPOTENCY_UNAVAILABLE")
                ELSE Goto(r, "claimFinal") /\ UNCHANGED claim
    /\ UNCHANGED <<job, attempt, outcome, ledger, final, legacy, alerts, history>>

FinalMarker(r) ==
    [protocol |-> job[r].protocol,
     recovery |-> IF legacy[Session(r)] = {} THEN NoIdentity ELSE job[r].recovery]

ClaimFinal(r) ==
    /\ pc[r] = "claimFinal"
    /\ \E put \in PutResults(final[Session(r)], FinalMarker(r), StorageMayFail) :
         /\ final' = [final EXCEPT ![Session(r)] = put.object]
         /\ Claimed(r, ClaimOf[put.status])
    /\ UNCHANGED <<job, attempt, outcome, ledger, legacy, migrated, alerts, history>>

-----------------------------------------------------------------------------
(* Alerts: one create-only marker per session and alert state, then Bark.  *)

\* Mutant: an alert whose marker is already there is sent again.
ClaimAlertReplay(r, state, bark, skip) ==
    IF Configured
      THEN \E put \in PutResults(alerts[Session(r)][state], job[r].protocol, StorageMayFail) :
             /\ alerts' = [alerts EXCEPT ![Session(r)][state] = put.object]
             /\ Goto(r, IF put.status # "ERROR" THEN bark ELSE skip)
      ELSE UNCHANGED alerts /\ Goto(r, bark)

ClaimAlertMarker(r, state, bark, skip) ==
    IF Configured
      THEN \E put \in PutResults(alerts[Session(r)][state], job[r].protocol, StorageMayFail) :
             /\ alerts' = [alerts EXCEPT ![Session(r)][state] = put.object]
             /\ Goto(r, IF put.status = "CREATED" THEN bark ELSE skip)
      ELSE UNCHANGED alerts /\ Goto(r, bark)

\* send_bark never raises; a failed request may or may not have arrived.
Bark(r, state, next) ==
    /\ \/ barked' = barked \cup {<<r, state>>}
       \/ UNCHANGED barked
    /\ Goto(r, next)

ClaimLedgerAlert(r) ==
    /\ pc[r] = "claimLedgerAlert"
    /\ ClaimAlertMarker(r, LedgerState(ledger[r]), "ledgerBark", AfterLedgerAlert(claim[r]))
    /\ UNCHANGED <<local, final, legacy, migrated, history>>

LedgerBark(r) ==
    /\ pc[r] = "ledgerBark"
    /\ Bark(r, LedgerState(ledger[r]), AfterLedgerAlert(claim[r]))
    /\ UNCHANGED <<local, markers, mailed, wrote>>

\* send_optional_email: accepted; failed, before or after the server took the
\* message; or not configured, which sends nothing and is no failure.
Email(r) ==
    /\ pc[r] = "email"
    /\ \/ mailed' = mailed \cup {r} /\ Goto(r, "done")
       \/ mailed' = mailed \cup {r} /\ Goto(r, "claimEmailAlert")
       \/ UNCHANGED mailed /\ Goto(r, "claimEmailAlert")
       \/ UNCHANGED mailed /\ Goto(r, "done")
    /\ UNCHANGED <<local, markers, barked, wrote>>

ClaimEmailAlert(r) ==
    /\ pc[r] = "claimEmailAlert"
    /\ ClaimAlertMarker(r, EmailState, "emailBark", "done")
    /\ UNCHANGED <<local, final, legacy, migrated, history>>

EmailBark(r) ==
    /\ pc[r] = "emailBark"
    /\ Bark(r, EmailState, "done")
    /\ UNCHANGED <<local, markers, mailed, wrote>>

\* claim_degraded_alert: the terminality guard, then the claim.
GuardAlert(r, status, next) ==
    IF status = "ABSENT"
      THEN Goto(r, next) /\ UNCHANGED claim
      ELSE Goto(r, "done") /\ claim' = [claim EXCEPT ![r] = status]

AlertV2(r) ==
    /\ pc[r] = "alertV2"
    /\ \E status \in V2Status(Session(r)) : GuardAlert(r, status, "alertLegacy")
    /\ UNCHANGED <<job, attempt, outcome, ledger, markers, history>>

AlertLegacy(r) ==
    /\ pc[r] = "alertLegacy"
    /\ \E status \in LegacyStatus(Session(r)) : GuardAlert(r, status, "claimAlert")
    /\ UNCHANGED <<job, attempt, outcome, ledger, markers, history>>

ClaimAlert(r) ==
    /\ pc[r] = "claimAlert"
    /\ ClaimAlertMarker(r, DegradedState(outcome[r]), "alertBark", "done")
    /\ UNCHANGED <<local, final, legacy, migrated, history>>

AlertBark(r) ==
    /\ pc[r] = "alertBark"
    /\ Bark(r, DegradedState(outcome[r]), "done")
    /\ UNCHANGED <<local, markers, mailed, wrote>>

-----------------------------------------------------------------------------
(* Failures of the process.                                                *)

\* The runner is killed (job timeout, cancellation, lost machine).
Crash(r) ==
    /\ ProcessMayFail
    /\ Active(r)
    /\ Goto(r, "crashed")
    /\ UNCHANGED <<local, markers, history>>

\* Composing a message raises: _notify swallows it and sends nothing more.
NotifyRaises(r) ==
    /\ ProcessMayFail
    /\ pc[r] \in {"ledgerBark", "email", "emailBark", "alertBark"}
    /\ Goto(r, "done")
    /\ UNCHANGED <<local, markers, history>>

Begin(r) == Start(r) \/ StartUnresolved(r)

Call(r) ==
    \/ PreflightV2(r) \/ PreflightLegacy(r) \/ Compute(r) \/ PersistLedger(r)
    \/ ClaimScan(r) \/ ClaimMigration(r) \/ ClaimFinal(r)
    \/ ClaimLedgerAlert(r) \/ LedgerBark(r) \/ Email(r)
    \/ ClaimEmailAlert(r) \/ EmailBark(r)
    \/ AlertV2(r) \/ AlertLegacy(r) \/ ClaimAlert(r) \/ AlertBark(r)

Next == \E r \in Runs : Begin(r) \/ Call(r) \/ Crash(r) \/ NotifyRaises(r)

Spec == Init /\ [][Next]_vars

\* A started process makes its next call: nothing in it waits for another run.
Fairness == \A r \in Runs : WF_vars(Call(r))

-----------------------------------------------------------------------------
(* Properties.                                                             *)

TypeOK ==
    /\ pc \in [Runs -> {Idle} \cup Finished \cup Calls]
    /\ job \in [Runs -> Jobs]
    /\ attempt \in [Runs -> 0 .. MaxAttempts - 1]
    /\ outcome \in [Runs -> Outcomes \cup {NoOutcome, PreflightFailure}]
    /\ ledger \in [Runs -> LedgerStatuses]
    /\ claim \in [Runs -> ClaimStatuses]
    /\ final \in [Sessions -> FinalMarkers \cup {Absent, Corrupt}]
    /\ legacy \in [Sessions -> SUBSET LegacyIds]
    /\ migrated \in [Sessions -> SUBSET LegacyIds]
    /\ alerts \in [Sessions -> [AlertStates -> Protocols \cup {Absent}]]
    /\ mailed \subseteq Runs
    /\ barked \subseteq Runs \X AlertStates
    /\ wrote \subseteq Runs

\* No session's final report is mailed twice, whatever runs overlap, crash or
\* lose a receipt (claim_report_notification's docstring, operational_markers.py:808-813).
AtMostOneFinalEmail ==
    Configured => \A q, r \in mailed : Session(q) = Session(r) => q = r

\* A report is mailed only under a durable V2 marker that its own run put
\* there, with that run's protocol in it: the claim precedes SMTP.
MailedUnderOwnMarker ==
    Configured => \A r \in mailed : final[Session(r)] = FinalMarker(r)

\* A session with legacy V1 evidence gets a V2 marker only with an identity
\* of that evidence, and only after its migration was recorded
\* (operational_markers.py:14-17, 650-695).
LegacyNeedsAuditedMigration ==
    \A s \in Sessions :
        (final[s] \in FinalMarkers /\ legacy[s] # {})
            => final[s].recovery \in legacy[s] \cap migrated[s]

\* One Bark per session and alert state, however often the state recurs.
OneBarkPerState ==
    Configured => \A p, q \in barked :
        (p[2] = q[2] /\ Session(p[1]) = Session(q[1])) => p = q

\* A Bark about a degraded report is never sent once the session's final
\* evidence is durable (DECISION_LOG.md:1217-1218). Two runs that overlap can
\* break it, since the guard reads before it claims: it is the workflow's
\* concurrency group that makes the guard hold.
NoDegradedBarkAfterFinal ==
    [][ (Serialized /\ Configured) =>
          \A r \in Runs : \A o \in DayOutcomes :
            (~IsFinal(o) /\ <<r, DegradedState(o)>> \in barked' \ barked)
                => final[Session(r)] = Absent /\ legacy[Session(r)] = {} ]_vars

\* A natural run never rewrites the ledger of a session whose final evidence
\* is durable: a later trigger does not rerun the report (DECISION_LOG.md:1210-1211).
NoLedgerWorkAfterFinal ==
    [][ (Serialized /\ Configured) =>
          \A r \in wrote' \ wrote :
            (Natural(r) /\ job[r].recovery = NoIdentity)
                => final[Session(r)] = Absent /\ legacy[Session(r)] = {} ]_vars

\* What a claimed report was computed from: every combination of facts an
\* attempt can leave, against the outcomes that combination leads to. Better
\* are: one more usable formal symbol, one more analysed row, a stale base that
\* recovered, a Candidate error that went away, no symbol failed any more.
Improvements(f) ==
    { g \in { [f EXCEPT !.usable = @ + 1, !.exact = @ + 1], [f EXCEPT !.exact = @ + 1],
              [f EXCEPT !.analysed = 1], [f EXCEPT !.broadStale = FALSE],
              [f EXCEPT !.candidateError = FALSE],
              [f EXCEPT !.symbolFailed = f.usable < f.attempted] } : g \in Facts }

Fragile ==
    {f \in Facts : \E g \in Improvements(f) : ~IsFinal(DeliveryOutcome("COMPUTED", g))}

FragileOutcomes == {DeliveryOutcome("COMPUTED", f) : f \in Fragile}

\* Better evidence never takes the final report away: no run claims on an
\* outcome that one more usable symbol or one error less would have lost.
\* Otherwise the bounded retry of main() could turn a deliverable report into
\* a degraded one.
BetterEvidenceKeepsFinal ==
    \A r \in Runs : claim[r] = "CLAIMED" => outcome[r] \notin FragileOutcomes

\* The protocol implements FinalNotification: a session is held by the run
\* whose claim was acknowledged; a claim whose receipt was lost holds it for
\* nobody.
Holder(s) ==
    IF \E r \in Runs : claim[r] = "CLAIMED" /\ Session(r) = s
      THEN CHOOSE r \in Runs : claim[r] = "CLAIMED" /\ Session(r) = s
      ELSE IF final[s] \in FinalMarkers THEN Lost ELSE Nobody

FN == INSTANCE FinalNotification
        WITH holder <- [s \in Sessions |-> Holder(s)],
             delivered <- {Session(r) : r \in mailed}

ImplementsFinalNotification == FN!Spec

=============================================================================
