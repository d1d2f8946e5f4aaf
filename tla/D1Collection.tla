---------------------------- MODULE D1Collection ----------------------------
(***************************************************************************)
(* Prospective evidence of CN and US sessions: reconcile_market of         *)
(* scripts/run_market_close_reconcile.py, the natural collector it calls   *)
(* (collect_natural_session, _migration_gate), and the commit protocol of  *)
(* research/setup01_d1_vps_store.py over the create-only store.            *)
(*                                                                         *)
(* Time is counted per market in half sessions: session s opens at 2s - 1  *)
(* and closes at 2s, so at instant t the latest completed session is t / 2 *)
(* and its collection window is open while t is even. A run fixes its      *)
(* instant once, at the start; the clock moves on while it works. A step   *)
(* is one call of the store or the whole provider run.                     *)
(***************************************************************************)
EXTENDS CreateOnlyStore, Integers, FiniteSets

CONSTANTS
    Markets,
    Runs,            \* process invocations; each is started at most once
    LastSession,     \* bound on the modelled calendar
    Horizon,         \* per market: its last instant, the same bound market by market
    EndBoundary,     \* first session after the activation window
    Imported,        \* a snapshot of an earlier source contract
    Pasts,           \* what that contract may have left in the store
    Serialized,      \* the workflow's concurrency group: one run per market
    StorageMayFail,  \* the store can be unreachable or lose a receipt
    SourcesMayFail,  \* the calendar or the market-data providers can fail
    ProcessMayFail   \* a runner can be killed

Sessions  == 0 .. LastSession
Instants  == 0 .. 2 * LastSession + 1
Snapshots == Runs \cup {Imported}

ASSUME CollectionAssumption ==
    /\ LastSession \in Nat \ {0}
    /\ Horizon \in [Markets -> Instants]
    /\ EndBoundary \in Nat
    /\ Pasts \subseteq [legacy : SUBSET Markets, foreign : SUBSET Markets]
    /\ Imported \notin Runs
    /\ Absent \notin Snapshots
    /\ Absent \notin Sessions \cup Markets
    /\ {Serialized, StorageMayFail, SourcesMayFail, ProcessMayFail} \subseteq BOOLEAN

VARIABLES
    clock,     \* per market: the instant
    legacy,    \* markets with a V1 activation record
    epoch,     \* per market: first eligible session of its V2 activation record
    pointer,   \* per market and session: snapshot its pointer names
    objects,   \* snapshots whose content-addressed object exists
    pc,        \* per run: the next call it makes
    market,    \* per run: --market, Absent before the start
    at,        \* per run: generated_at, the instant it was started
    seen,      \* per run: the object names its verify() scanned
    verdict,   \* per run: the store's answer to its pointer put
    status,    \* per run: receipt status
    reason     \* per run: what refused the collection

store == <<legacy, epoch, pointer, objects>>
run   == <<market, at, seen, verdict, status, reason>>
vars  == <<clock, store, pc, run>>

-----------------------------------------------------------------------------
Idle      == "idle"
Calls     == {"load", "activation", "scan", "gate", "collect", "putObject",
              "putPointer", "commitReadBack", "readBack"}
Active(r) == pc[r] \in Calls

\* D1_ACTIVATION_REQUIRED and the other receipt statuses; NONE before the end.
Statuses == {"NONE", "COMMITTED", "IDEMPOTENT_REPLAY", "NOOP_ALREADY_COMMITTED",
             "NOOP_BEFORE_ACTIVATION", "NOOP_AFTER_D1_WINDOW", "MISSED_PROSPECTIVE_SESSION",
             "D1_ACTIVATION_REQUIRED", "SESSION_RESOLUTION_ERROR", "COLLECTION_FAILED",
             "READBACK_FAILED"}
Reasons  == {"NONE", "UNVERIFIED", "FORMAL_EVIDENCE", "LEGACY_MISSING", "RUNTIME", "STORE"}

\* ExactExchangeCalendarProvider: latest_completed_session and the window
\* session_close <= now < next_session_open, of the instant a run was given.
Completed(t)  == t \div 2
WindowOpen(t) == t % 2 = 0
Session(r)    == Completed(at[r])

\* The first full session after an activation at t: none that has opened.
FirstEligible(t) == (t + 1) \div 2 + 1

InActivationWindow(m, s) == epoch[m] <= s /\ s < EndBoundary

Goto(r, call) == pc' = [pc EXCEPT ![r] = call]

Finish(r, s, why) ==
    /\ Goto(r, "done")
    /\ status' = [status EXCEPT ![r] = s]
    /\ reason' = [reason EXCEPT ![r] = why]

\* A snapshot is content-addressed and carries its run's acquired_at, so it is
\* its run's own. load() wants the pointer and the object it names.
Readable(m, s) == pointer[m][s] \in objects

-----------------------------------------------------------------------------
Init ==
    /\ clock = [m \in Markets |-> 0]
    /\ epoch = [m \in Markets |-> Absent]
    /\ \E past \in Pasts :
         /\ legacy = past.legacy
         /\ pointer = [m \in Markets |-> [s \in Sessions |->
                         IF s = 0 /\ m \in past.foreign THEN Imported ELSE Absent]]
         /\ objects = IF past.foreign = {} THEN {} ELSE {Imported}
    /\ pc = [r \in Runs |-> Idle]
    /\ market = [r \in Runs |-> Absent]
    /\ at = [r \in Runs |-> 0]
    /\ seen = [r \in Runs |-> {}]
    /\ verdict = [r \in Runs |-> "NONE"]
    /\ status = [r \in Runs |-> "NONE"]
    /\ reason = [r \in Runs |-> "NONE"]

\* A session of m opens or closes.
Tick(m) ==
    /\ clock[m] < Horizon[m]
    /\ clock' = [clock EXCEPT ![m] = @ + 1]
    /\ UNCHANGED <<store, pc, run>>

\* An operator creates the V2 activation record of m (create_activation_record).
Activate(m) ==
    /\ epoch[m] = Absent
    /\ FirstEligible(clock[m]) \in Sessions
    /\ epoch' = [epoch EXCEPT ![m] = FirstEligible(clock[m])]
    /\ UNCHANGED <<clock, legacy, pointer, objects, pc, run>>

MayStart(r, m) ==
    /\ pc[r] = Idle
    /\ Serialized => \A q \in Runs : market[q] = m => ~Active(q)

\* The session of a run is resolved from its own instant.
Start(r, m) ==
    /\ MayStart(r, m)
    /\ market' = [market EXCEPT ![r] = m]
    /\ at' = [at EXCEPT ![r] = clock[m]]
    /\ \/ Goto(r, "load") /\ UNCHANGED <<status, reason>>
       \/ SourcesMayFail /\ Finish(r, "SESSION_RESOLUTION_ERROR", "NONE")
    /\ UNCHANGED <<clock, store, seen, verdict>>

-----------------------------------------------------------------------------
(* reconcile_market before the collector.                                  *)

\* A missing pointer and a pointer without its object both read as missing.
LoadSession(r) ==
    /\ pc[r] = "load"
    /\ \/ /\ Readable(market[r], Session(r))
          /\ Finish(r, "NOOP_ALREADY_COMMITTED", "NONE")
       \/ /\ ~Readable(market[r], Session(r))
          /\ Goto(r, "activation")
          /\ UNCHANGED <<status, reason>>
       \/ StorageMayFail /\ Finish(r, "READBACK_FAILED", "STORE")
    /\ UNCHANGED <<clock, store, market, at, seen, verdict>>

\* Mutant: the window is not looked at.
ReadActivationAnyTime(r) ==
    /\ pc[r] = "activation"
    /\ LET m == market[r]  s == Session(r) IN
         IF epoch[m] # Absent /\ InActivationWindow(m, s)
           THEN Goto(r, "scan") /\ UNCHANGED <<status, reason>>
           ELSE Finish(r, "NOOP_BEFORE_ACTIVATION", "NONE")
    /\ UNCHANGED <<clock, store, market, at, seen, verdict>>

ReadActivation(r) ==
    /\ pc[r] = "activation"
    /\ LET m == market[r]  s == Session(r) IN
         \/ StorageMayFail /\ Finish(r, "READBACK_FAILED", "STORE")
         \/ epoch[m] = Absent /\ Finish(r, "D1_ACTIVATION_REQUIRED", "NONE")
         \/ epoch[m] # Absent /\ s < epoch[m] /\ Finish(r, "NOOP_BEFORE_ACTIVATION", "NONE")
         \/ epoch[m] # Absent /\ epoch[m] <= s /\ s >= EndBoundary
              /\ Finish(r, "NOOP_AFTER_D1_WINDOW", "NONE")
         \/ epoch[m] # Absent /\ InActivationWindow(m, s) /\ ~WindowOpen(at[r])
              /\ Finish(r, "MISSED_PROSPECTIVE_SESSION", "NONE")
         \/ epoch[m] # Absent /\ InActivationWindow(m, s) /\ WindowOpen(at[r])
              /\ Goto(r, "scan") /\ UNCHANGED <<status, reason>>
    /\ UNCHANGED <<clock, store, market, at, seen, verdict>>

-----------------------------------------------------------------------------
(* The collector: _migration_gate (verify() scans the names, then reads    *)
(* the pointers of both markets), the providers, the commit.               *)

Scan(r) ==
    /\ pc[r] = "scan"
    /\ \/ /\ seen' = [seen EXCEPT ![r] = objects]
          /\ Goto(r, "gate")
          /\ UNCHANGED <<status, reason>>
       \/ /\ StorageMayFail
          /\ Finish(r, "COLLECTION_FAILED", "STORE")
          /\ UNCHANGED seen
    /\ UNCHANGED <<clock, store, market, at, verdict>>

Evidence(m) == {pointer[m][s] : s \in Sessions} \ {Absent}

\* Mutant: only the evidence of the run's own market is counted.
GateEvidenceOwnMarket(r) == Evidence(market[r])

GateEvidence(r) == UNION {Evidence(m) : m \in Markets}

Gate(r) ==
    /\ pc[r] = "gate"
    /\ LET found == GateEvidence(r) IN
         \/ ~(found \subseteq seen[r]) /\ Finish(r, "COLLECTION_FAILED", "UNVERIFIED")
         \/ found # {} /\ found \subseteq seen[r]
              /\ Finish(r, "COLLECTION_FAILED", "FORMAL_EVIDENCE")
         \/ found = {} /\ market[r] \notin legacy
              /\ Finish(r, "COLLECTION_FAILED", "LEGACY_MISSING")
         \/ found = {} /\ market[r] \in legacy
              /\ Goto(r, "collect") /\ UNCHANGED <<status, reason>>
         \/ StorageMayFail /\ Finish(r, "COLLECTION_FAILED", "STORE")
    /\ UNCHANGED <<clock, store, market, at, seen, verdict>>

\* ProductionCandidateRuntime.run and the snapshot: long, and the collector's
\* session, activation and window checks before it see what they saw before.
Collect(r) ==
    /\ pc[r] = "collect"
    /\ \/ Goto(r, "putObject") /\ UNCHANGED <<status, reason>>
       \/ SourcesMayFail /\ Finish(r, "COLLECTION_FAILED", "RUNTIME")
    /\ UNCHANGED <<clock, store, market, at, seen, verdict>>

\* Mutant: a failed put of the object does not stop the commit.
PutObjectUnchecked(r) ==
    /\ pc[r] = "putObject"
    /\ \E put \in PutResults(IF r \in objects THEN r ELSE Absent, r, StorageMayFail) :
         objects' = objects \cup ({put.object} \ {Absent})
    /\ Goto(r, "putPointer")
    /\ UNCHANGED <<clock, legacy, epoch, pointer, run>>

PutObject(r) ==
    /\ pc[r] = "putObject"
    /\ \E put \in PutResults(IF r \in objects THEN r ELSE Absent, r, StorageMayFail) :
         /\ objects' = objects \cup ({put.object} \ {Absent})
         /\ IF put.status = "ERROR"
              THEN Finish(r, "COLLECTION_FAILED", "STORE")
              ELSE Goto(r, "putPointer") /\ UNCHANGED <<status, reason>>
    /\ UNCHANGED <<clock, legacy, epoch, pointer, market, at, seen, verdict>>

\* Mutants: the pointer is replaced; a conflict is not an error; the pointer is
\* forgotten.
PutPointerReplace(r) ==
    /\ pc[r] = "putPointer"
    /\ pointer' = [pointer EXCEPT ![market[r]][Session(r)] = r]
    /\ verdict' = [verdict EXCEPT ![r] = "CREATED"]
    /\ Goto(r, "commitReadBack")
    /\ UNCHANGED <<clock, legacy, epoch, objects, market, at, seen, status, reason>>

PutPointerUnchecked(r) ==
    /\ pc[r] = "putPointer"
    /\ \E put \in PutResults(pointer[market[r]][Session(r)], r, StorageMayFail) :
         /\ pointer' = [pointer EXCEPT ![market[r]][Session(r)] = put.object]
         /\ verdict' = [verdict EXCEPT ![r] = put.status]
    /\ Finish(r, "COMMITTED", "NONE")
    /\ UNCHANGED <<clock, legacy, epoch, objects, market, at, seen>>

PutPointerForgotten(r) ==
    /\ pc[r] = "putPointer"
    /\ Finish(r, "COMMITTED", "NONE")
    /\ UNCHANGED <<clock, store, market, at, seen, verdict>>

\* The pointer's verdict is the receipt status once the read-back agrees.
PutPointer(r) ==
    /\ pc[r] = "putPointer"
    /\ \E put \in PutResults(pointer[market[r]][Session(r)], r, StorageMayFail) :
         /\ pointer' = [pointer EXCEPT ![market[r]][Session(r)] = put.object]
         /\ verdict' = [verdict EXCEPT ![r] = put.status]
         /\ IF put.status = "ERROR"
              THEN Finish(r, "COLLECTION_FAILED", "STORE")
              ELSE Goto(r, "commitReadBack") /\ UNCHANGED <<status, reason>>
    /\ UNCHANGED <<clock, legacy, epoch, objects, market, at, seen>>

\* commit() loads its session back through the pointer before it reports; the
\* collector then reads the session counts.
CommitReadBack(r) ==
    /\ pc[r] = "commitReadBack"
    /\ IF Readable(market[r], Session(r)) /\ pointer[market[r]][Session(r)] = r
         THEN \/ Goto(r, "readBack") /\ UNCHANGED <<status, reason>>
              \/ StorageMayFail /\ Finish(r, "COLLECTION_FAILED", "STORE")
         ELSE Finish(r, "COLLECTION_FAILED", "STORE")
    /\ UNCHANGED <<clock, store, market, at, seen, verdict>>

\* reconcile_market reads the session back once more.
ReadBack(r) ==
    /\ pc[r] = "readBack"
    /\ IF Readable(market[r], Session(r)) /\ pointer[market[r]][Session(r)] = r
         THEN \/ Finish(r, IF verdict[r] = "CREATED" THEN "COMMITTED" ELSE verdict[r], "NONE")
              \/ StorageMayFail /\ Finish(r, "READBACK_FAILED", "STORE")
         ELSE Finish(r, "READBACK_FAILED", "STORE")
    /\ UNCHANGED <<clock, store, market, at, seen, verdict>>

\* The runner is killed (job timeout, lost machine).
Crash(r) ==
    /\ ProcessMayFail
    /\ Active(r)
    /\ Goto(r, "crashed")
    /\ UNCHANGED <<clock, store, run>>

Call(r) ==
    \/ LoadSession(r) \/ ReadActivation(r) \/ Scan(r) \/ Gate(r) \/ Collect(r)
    \/ PutObject(r) \/ PutPointer(r) \/ CommitReadBack(r) \/ ReadBack(r)

Next ==
    \/ \E m \in Markets : Tick(m) \/ Activate(m)
    \/ \E r \in Runs : Call(r) \/ Crash(r) \/ \E m \in Markets : Start(r, m)

Spec == Init /\ [][Next]_vars

\* A started process makes its next call; nothing in it waits for another run.
FairSpec == Spec /\ \A r \in Runs : WF_vars(Call(r))

-----------------------------------------------------------------------------
(* Properties.                                                             *)

TypeOK ==
    /\ clock \in [Markets -> Instants]
    /\ legacy \subseteq Markets
    /\ epoch \in [Markets -> Sessions \cup {Absent}]
    /\ pointer \in [Markets -> [Sessions -> Snapshots \cup {Absent}]]
    /\ objects \subseteq Snapshots
    /\ pc \in [Runs -> Calls \cup {Idle, "done", "crashed"}]
    /\ market \in [Runs -> Markets \cup {Absent}]
    /\ at \in [Runs -> Instants]
    /\ seen \in [Runs -> SUBSET Snapshots]
    /\ verdict \in [Runs -> {"NONE", "CREATED", "IDEMPOTENT_REPLAY", "ERROR"}]
    /\ status \in [Runs -> Statuses]
    /\ reason \in [Runs -> Reasons]

\* Whatever crashes or loses its receipt, a pointer never names an object that
\* is not there: the object is durable before the pointer is tried
\* (VpsD1Store.commit, setup01_d1_vps_store.py:787-825).
PointerNamesAnObject ==
    \A m \in Markets : \A s \in Sessions :
        pointer[m][s] # Absent => pointer[m][s] \in objects

\* A run that reports COMMITTED owns the evidence of its session, and one that
\* reports a success of any kind leaves the session readable: "a commit is not
\* accepted without read-back" (run_market_close_reconcile.py:226).
Successes == {"COMMITTED", "IDEMPOTENT_REPLAY", "NOOP_ALREADY_COMMITTED"}

SuccessIsDurable ==
    \A r \in Runs :
        /\ status[r] = "COMMITTED" => pointer[market[r]][Session(r)] = r
        /\ status[r] \in Successes => Readable(market[r], Session(r))

\* Evidence is prospective: its run was started after the activation, for a
\* session of the activation window that had closed and before the next one
\* opened; a market without an activation record gets none.
EvidenceIsProspective ==
    \A m \in Markets : \A s \in Sessions :
        LET x == pointer[m][s] IN
            x \in Runs =>
                /\ epoch[m] # Absent /\ InActivationWindow(m, s)
                /\ market[x] = m /\ Session(x) = s
                /\ at[x] = 2 * s

\* Formal evidence of an earlier source contract, in either market, stops the
\* collection of both: contracts never mix in one store (_migration_gate).
ForeignEvidenceStopsCollection ==
    (Imported \in objects) =>
        \A m \in Markets : \A s \in Sessions : pointer[m][s] \notin Runs

\* The commit protocol keeps the promise of the D1 store: evidence is what the
\* pointers name, and a run reports the evidence of its own session.
Bound    == [k \in Markets \X Sessions |-> pointer[k[1]][k[2]]]
Receipt(r) == <<<<market[r], Session(r)>>, pointer[market[r]][Session(r)]>>
Reported == {Receipt(r) : r \in {q \in Runs : status[q] \in Successes}}

SE == INSTANCE SessionEvidence
        WITH Keys <- Markets \X Sessions, None <- Absent,
             evidence <- Bound, reported <- Reported

ImplementsSessionEvidence == SE!Spec

\* With the legacy activation in place, a run that gets as far as the gate of
\* an empty store leads to a committed session, unless the providers, the store
\* or its machine fail a run.
Failed(r) == reason[r] \in {"RUNTIME", "STORE"} \/ pc[r] = "crashed"

FirstEvidenceAppears ==
    (legacy = Markets /\ objects = {} /\ \E r \in Runs : pc[r] = "gate")
        ~> \/ \E m \in Markets : Evidence(m) # {}
           \/ \E r \in Runs : Failed(r)

-----------------------------------------------------------------------------
(* What the documents say and the code does not do.                        *)

\* "Before the first natural V2 session, the migration gate verifies ...
\* formal session counts" (DECISION_LOG.md:1019-1022): it never refuses a
\* store whose only evidence is the natural V2 evidence itself.
GateRefusesOnlyForeignEvidence ==
    \A r \in Runs : reason[r] = "FORMAL_EVIDENCE" => Imported \in objects

=============================================================================
