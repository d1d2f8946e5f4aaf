------------------------ MODULE ReportDeliveryProofs ------------------------
(***************************************************************************)
(* Theorems about ReportDelivery, for any number of runs, sessions,        *)
(* protocols and legacy identities, any bound on attempts and any faults,  *)
(* then about the ReportDay composed of it and ReportAttempt, for any set  *)
(* of symbols and whatever the providers answer, and at the end about the  *)
(* watchdogs of MarketCloseTriggers, which see to it that the report runs. *)
(***************************************************************************)
EXTENDS ReportDay, MarketCloseTriggers, FiniteSetTheorems, WellFoundedInduction, TLAPS

(***************************************************************************)
(* The put. What one create-only put can return: an acknowledged creation  *)
(* found the name free, and a name that was bound keeps its content.       *)
(***************************************************************************)
LEMMA PutProperties ==
    ASSUME NEW current, NEW content, NEW mayFail \in BOOLEAN, content # Absent,
           NEW put \in PutResults(current, content, mayFail)
    PROVE  /\ put.object \in {current, content}
           /\ current # Absent => put.object = current
           /\ put.status = "CREATED" => current = Absent /\ put.object = content
           /\ put.status = "IDEMPOTENT_REPLAY" => current = content
           /\ put.status \in {"CREATED", "IDEMPOTENT_REPLAY", "ERROR"}
  BY DEF PutResults, PutVerdict, Linked

\* Every way a run is routed leads to one of the calls.
LEMMA RouteIsCall ==
    ASSUME NEW r \in Runs, NEW o, NEW l
    PROVE  Route(r, o, l) \in {"done", "claimScan", "claimLedgerAlert", "email", "alertV2", "alertBark"}
  BY DEF Route

LEMMA OutcomeStates ==
    ASSUME NEW o \in Outcomes, ~IsFinal(o)
    PROVE  DegradedState(o) \in AlertStates
  BY DEF AlertStates

-----------------------------------------------------------------------------
(***************************************************************************)
(* Type correctness. The histories are typed only because a run never      *)
(* reaches an alert call with an outcome or a ledger status no alert is    *)
(* about, which the routing facts of RoutedOK record.                      *)
(***************************************************************************)
AlertCalls == {"alertV2", "alertLegacy", "claimAlert", "alertBark"}

RoutedOK ==
    \A r \in Runs :
        /\ pc[r] \in AlertCalls => outcome[r] \in Outcomes /\ ~IsFinal(outcome[r])
        /\ pc[r] \in {"claimLedgerAlert", "ledgerBark"} => LedgerFailed(r)
        /\ pc[r] = "claimMigration" => job[r].recovery \in LegacyIds
        /\ pc[r] = "ledger" => IsFinal(outcome[r])

TypeInv == TypeOK /\ RoutedOK

LEMMA InitTypeInv == Init => TypeInv
  <1> SUFFICES ASSUME Init PROVE TypeInv  OBVIOUS
  <1>1. TypeOK
    BY DeliveryAssumption DEF Init, TypeOK, ClaimStatuses, LedgerStatuses
  <1>2. RoutedOK
    BY DeliveryAssumption DEF Init, RoutedOK, AlertCalls, Idle
  <1> QED  BY <1>1, <1>2 DEF TypeInv

LEMMA AlertStateFacts ==
    /\ EmailState \in AlertStates
    /\ \A l \in {"FAILED", "MISSED_PROSPECTIVE_SESSION"} : LedgerState(l) \in AlertStates
  BY DEF AlertStates

LEMMA FailedIsOutcome ==
    /\ Failed("REPORT_EXECUTION_FAILED") \in Outcomes
    /\ ~IsFinal(Failed("REPORT_EXECUTION_FAILED"))
  BY DEF Outcomes, Failed, IsFinal

LEMMA StepTypeInv == TypeInv /\ [Next]_vars => TypeInv'
  <1> SUFFICES ASSUME TypeInv, [Next]_vars PROVE TypeInv'  OBVIOUS
  <1> USE DEF TypeInv, Calls, Finished, Idle, local, markers, history, Goto
  <1>1. CASE UNCHANGED vars
    BY <1>1 DEF vars, TypeOK, RoutedOK, LedgerFailed
  <1>2. ASSUME NEW r \in Runs, Start(r) PROVE TypeInv'
    <2>1. TypeOK'
      BY <1>2 DEF Start, FirstCall, TypeOK
    <2>2. RoutedOK'
      BY <1>2 DEF Start, FirstCall, TypeOK, RoutedOK, AlertCalls, LedgerFailed
    <2> QED  BY <2>1, <2>2
  <1>3. ASSUME NEW r \in Runs, StartUnresolved(r) PROVE TypeInv'
    <2>1. TypeOK'
      BY <1>3, FailedIsOutcome, RouteIsCall DEF StartUnresolved, TypeOK
    <2>2. RoutedOK'
      BY <1>3, FailedIsOutcome DEF StartUnresolved, Route, TypeOK, RoutedOK, AlertCalls, LedgerFailed
    <2> QED  BY <2>1, <2>2
  <1>4. ASSUME NEW r \in Runs, PreflightV2(r) PROVE TypeInv'
    <2>1. TypeOK'
      BY <1>4 DEF PreflightV2, Stop, Pass, ClaimStatuses, TypeOK
    <2>2. RoutedOK'
      BY <1>4 DEF PreflightV2, Stop, Pass, TypeOK, RoutedOK, AlertCalls, LedgerFailed
    <2> QED  BY <2>1, <2>2
  <1>5. ASSUME NEW r \in Runs, PreflightLegacy(r) PROVE TypeInv'
    <2>1. TypeOK'
      BY <1>5 DEF PreflightLegacy, Stop, Pass, ClaimStatuses, TypeOK
    <2>2. RoutedOK'
      BY <1>5 DEF PreflightLegacy, Stop, Pass, TypeOK, RoutedOK, AlertCalls, LedgerFailed
    <2> QED  BY <2>1, <2>2
  <1>6. ASSUME NEW r \in Runs, Compute(r) PROVE TypeInv'
    <2>1. PICK o \in DayOutcomes :
             /\ outcome' = [outcome EXCEPT ![r] = o]
             /\ \/ /\ IsFinal(o) /\ Goto(r, "ledger") /\ UNCHANGED <<attempt, ledger>>
                \/ /\ ~IsFinal(o)
                   /\ o.retryable /\ attempt[r] + 1 < MaxAttempts
                   /\ attempt' = [attempt EXCEPT ![r] = @ + 1]
                   /\ Goto(r, FirstCall(r)) /\ UNCHANGED ledger
                \/ /\ ~IsFinal(o)
                   /\ ~(o.retryable /\ attempt[r] + 1 < MaxAttempts)
                   /\ ledger' = [ledger EXCEPT ![r] = "NOT_ELIGIBLE_DELIVERY_READINESS"]
                   /\ Goto(r, Route(r, o, "NOT_ELIGIBLE_DELIVERY_READINESS"))
                   /\ UNCHANGED attempt
      BY <1>6 DEF Compute
    <2>2. o \in Outcomes
      BY DeliveryAssumption
    <2>3. UNCHANGED <<job, claim, final, legacy, migrated, alerts, mailed, barked, wrote>>
      BY <1>6 DEF Compute
    <2>4. attempt' \in [Runs -> 0 .. MaxAttempts - 1]
      BY <2>1, DeliveryAssumption DEF TypeOK, RoutedOK
    <2>5. pc' \in [Runs -> {Idle} \cup Finished \cup Calls]
      BY <2>1, RouteIsCall DEF TypeOK, FirstCall
    <2>6. ledger' \in [Runs -> LedgerStatuses]
      BY <2>1 DEF TypeOK, LedgerStatuses
    <2>7. TypeOK'
      BY <2>1, <2>2, <2>3, <2>4, <2>5, <2>6 DEF TypeOK
    <2>8. RoutedOK'
      BY <2>1, <2>2, <2>3, <2>4 DEF TypeOK, RoutedOK, AlertCalls, LedgerFailed, FirstCall, Route
    <2> QED  BY <2>7, <2>8
  <1>7. ASSUME NEW r \in Runs, PersistLedger(r) PROVE TypeInv'
    <2>1. TypeOK'
      BY <1>7, RouteIsCall DEF PersistLedger, TypeOK, LedgerStatuses
    <2>2. RoutedOK'
      BY <1>7 DEF PersistLedger, Route, TypeOK, RoutedOK, AlertCalls, LedgerFailed
    <2> QED  BY <2>1, <2>2
  <1>8. ASSUME NEW r \in Runs, ClaimScan(r) PROVE TypeInv'
    <2>1. legacy[Session(r)] \subseteq LegacyIds
      BY DEF TypeOK, Jobs, Session
    <2>2. TypeOK'
      BY <1>8 DEF ClaimScan, Claimed, AfterClaim, AfterLedgerAlert, ClaimStatuses, TypeOK
    <2>3. RoutedOK'
      BY <1>8, <2>1 DEF ClaimScan, Claimed, AfterClaim, AfterLedgerAlert, TypeOK, RoutedOK, AlertCalls, LedgerFailed
    <2> QED  BY <2>2, <2>3
  <1>9. ASSUME NEW r \in Runs, ClaimMigration(r) PROVE TypeInv'
    <2> DEFINE s == Session(r)  id == job[r].recovery
    <2>1. id \in LegacyIds /\ s \in Sessions
      BY <1>9 DEF ClaimMigration, TypeOK, RoutedOK, Jobs, Session
    <2>2. id # Absent
      BY <2>1, DeliveryAssumption
    <2>3. PICK put \in PutResults(IF id \in migrated[s] THEN id ELSE Absent, id, StorageMayFail) :
             /\ migrated' = [migrated EXCEPT ![s] = @ \cup ({put.object} \ {Absent})]
             /\ IF put.status = "ERROR"
                  THEN Claimed(r, "IDEMPOTENCY_UNAVAILABLE")
                  ELSE Goto(r, "claimFinal") /\ UNCHANGED claim
      BY <1>9 DEF ClaimMigration
    <2>4. put.object \in {id, Absent}
      BY <2>2, DeliveryAssumption, PutProperties
    <2>5. UNCHANGED <<job, attempt, outcome, ledger, final, legacy, alerts, mailed, barked, wrote>>
      BY <1>9 DEF ClaimMigration
    <2>6. migrated' \in [Sessions -> SUBSET LegacyIds]
      BY <2>1, <2>3, <2>4 DEF TypeOK
    <2>7. TypeOK'
      BY <2>3, <2>5, <2>6 DEF Claimed, AfterClaim, AfterLedgerAlert, ClaimStatuses, TypeOK
    <2>8. RoutedOK'
      BY <2>3, <2>5 DEF Claimed, AfterClaim, AfterLedgerAlert, TypeOK, RoutedOK, AlertCalls, LedgerFailed
    <2> QED  BY <2>7, <2>8
  <1>10. ASSUME NEW r \in Runs, ClaimFinal(r) PROVE TypeInv'
    <2>1. FinalMarker(r) \in FinalMarkers /\ FinalMarker(r) # Absent /\ Session(r) \in Sessions
      BY DeliveryAssumption DEF TypeOK, Jobs, FinalMarker, FinalMarkers, Session, Identities
    <2>2. PICK put \in PutResults(final[Session(r)], FinalMarker(r), StorageMayFail) :
             /\ final' = [final EXCEPT ![Session(r)] = put.object]
             /\ Claimed(r, ClaimOf[put.status])
      BY <1>10 DEF ClaimFinal
    <2>3. put.object \in FinalMarkers \cup {Absent, Corrupt}
      BY <2>1, DeliveryAssumption, PutProperties DEF TypeOK
    <2>4. ClaimOf[put.status] \in ClaimStatuses
      BY <2>1, DeliveryAssumption, PutProperties DEF ClaimOf, ClaimStatuses
    <2>5. UNCHANGED <<job, attempt, outcome, ledger, legacy, migrated, alerts, mailed, barked, wrote>>
      BY <1>10 DEF ClaimFinal
    <2>6. TypeOK'
      BY <2>1, <2>2, <2>3, <2>4, <2>5 DEF Claimed, AfterClaim, AfterLedgerAlert, TypeOK
    <2>7. RoutedOK'
      BY <2>2, <2>5 DEF Claimed, AfterClaim, AfterLedgerAlert, TypeOK, RoutedOK, AlertCalls, LedgerFailed
    <2> QED  BY <2>6, <2>7
  <1>11. ASSUME NEW r \in Runs, NEW state \in AlertStates, NEW bark, NEW skip,
               ClaimAlertMarker(r, state, bark, skip)
         PROVE  alerts' \in [Sessions -> [AlertStates -> Protocols \cup {Absent}]]
                  /\ (Goto(r, bark) \/ Goto(r, skip))
    <2>1. job[r].protocol \in Protocols /\ job[r].protocol # Absent /\ Session(r) \in Sessions
      BY DeliveryAssumption DEF TypeOK, Jobs, Session
    <2>2. CASE ~Configured
      BY <1>11, <2>2 DEF ClaimAlertMarker, TypeOK
    <2>3. CASE Configured
      <3>1. PICK put \in PutResults(alerts[Session(r)][state], job[r].protocol, StorageMayFail) :
               /\ alerts' = [alerts EXCEPT ![Session(r)][state] = put.object]
               /\ Goto(r, IF put.status = "CREATED" THEN bark ELSE skip)
        BY <1>11, <2>3 DEF ClaimAlertMarker
      <3>2. put.object \in Protocols \cup {Absent}
        BY <2>1, DeliveryAssumption, PutProperties DEF TypeOK
      <3> QED  BY <2>1, <3>1, <3>2 DEF TypeOK
    <2> QED  BY <2>2, <2>3
  <1>12. ASSUME NEW r \in Runs, ClaimLedgerAlert(r) PROVE TypeInv'
    <2>1. LedgerState(ledger[r]) \in AlertStates
      BY <1>12, AlertStateFacts DEF ClaimLedgerAlert, RoutedOK, LedgerFailed
    <2>2. /\ alerts' \in [Sessions -> [AlertStates -> Protocols \cup {Absent}]]
          /\ (Goto(r, "ledgerBark") \/ Goto(r, AfterLedgerAlert(claim[r])))
      BY <1>11, <1>12, <2>1 DEF ClaimLedgerAlert
    <2>3. UNCHANGED <<local, final, legacy, migrated, history>> /\ LedgerFailed(r)
      BY <1>12 DEF ClaimLedgerAlert, RoutedOK
    <2>4. TypeOK'
      BY <2>2, <2>3 DEF AfterLedgerAlert, TypeOK
    <2>5. RoutedOK'
      BY <2>2, <2>3 DEF AfterLedgerAlert, TypeOK, RoutedOK, AlertCalls, LedgerFailed
    <2> QED  BY <2>4, <2>5
  <1>13. ASSUME NEW r \in Runs, LedgerBark(r) PROVE TypeInv'
    <2>1. LedgerState(ledger[r]) \in AlertStates
      BY <1>13, AlertStateFacts DEF LedgerBark, RoutedOK, LedgerFailed
    <2>2. TypeOK'
      BY <1>13, <2>1 DEF LedgerBark, Bark, AfterLedgerAlert, TypeOK
    <2>3. RoutedOK'
      BY <1>13 DEF LedgerBark, Bark, AfterLedgerAlert, TypeOK, RoutedOK, AlertCalls, LedgerFailed
    <2> QED  BY <2>2, <2>3
  <1>14. ASSUME NEW r \in Runs, Email(r) PROVE TypeInv'
    BY <1>14 DEF Email, TypeOK, RoutedOK, AlertCalls, LedgerFailed
  <1>15. ASSUME NEW r \in Runs, ClaimEmailAlert(r) PROVE TypeInv'
    <2>1. /\ alerts' \in [Sessions -> [AlertStates -> Protocols \cup {Absent}]]
          /\ (Goto(r, "emailBark") \/ Goto(r, "done"))
      BY <1>11, <1>15, AlertStateFacts DEF ClaimEmailAlert
    <2>2. UNCHANGED <<local, final, legacy, migrated, history>>
      BY <1>15 DEF ClaimEmailAlert
    <2> QED  BY <2>1, <2>2 DEF TypeOK, RoutedOK, AlertCalls, LedgerFailed
  <1>16. ASSUME NEW r \in Runs, EmailBark(r) PROVE TypeInv'
    BY <1>16, AlertStateFacts DEF EmailBark, Bark, TypeOK, RoutedOK, AlertCalls, LedgerFailed
  <1>17. ASSUME NEW r \in Runs, AlertV2(r) PROVE TypeInv'
    <2>1. TypeOK'
      BY <1>17 DEF AlertV2, V2Status, StorageFault, GuardAlert, ClaimStatuses, TypeOK
    <2>2. RoutedOK'
      BY <1>17 DEF AlertV2, GuardAlert, TypeOK, RoutedOK, AlertCalls, LedgerFailed
    <2> QED  BY <2>1, <2>2
  <1>18. ASSUME NEW r \in Runs, AlertLegacy(r) PROVE TypeInv'
    <2>1. TypeOK'
      BY <1>18 DEF AlertLegacy, LegacyStatus, StorageFault, GuardAlert, ClaimStatuses, TypeOK
    <2>2. RoutedOK'
      BY <1>18 DEF AlertLegacy, GuardAlert, TypeOK, RoutedOK, AlertCalls, LedgerFailed
    <2> QED  BY <2>1, <2>2
  <1>19. ASSUME NEW r \in Runs, pc[r] \in AlertCalls
         PROVE  DegradedState(outcome[r]) \in AlertStates
    BY <1>19, OutcomeStates DEF RoutedOK
  <1>20. ASSUME NEW r \in Runs, ClaimAlert(r) PROVE TypeInv'
    <2>1. /\ alerts' \in [Sessions -> [AlertStates -> Protocols \cup {Absent}]]
          /\ (Goto(r, "alertBark") \/ Goto(r, "done"))
      BY <1>11, <1>19, <1>20 DEF ClaimAlert, AlertCalls
    <2>2. UNCHANGED <<local, final, legacy, migrated, history>> /\ pc[r] \in AlertCalls
      BY <1>20 DEF ClaimAlert, AlertCalls
    <2> QED  BY <2>1, <2>2 DEF TypeOK, RoutedOK, AlertCalls, LedgerFailed
  <1>21. ASSUME NEW r \in Runs, AlertBark(r) PROVE TypeInv'
    <2>1. DegradedState(outcome[r]) \in AlertStates
      BY <1>19, <1>21 DEF AlertBark, AlertCalls
    <2> QED  BY <1>21, <2>1 DEF AlertBark, Bark, TypeOK, RoutedOK, AlertCalls, LedgerFailed
  <1>22. ASSUME NEW r \in Runs, Crash(r) PROVE TypeInv'
    BY <1>22 DEF Crash, TypeOK, RoutedOK, AlertCalls, LedgerFailed
  <1>23. ASSUME NEW r \in Runs, NotifyRaises(r) PROVE TypeInv'
    BY <1>23 DEF NotifyRaises, TypeOK, RoutedOK, AlertCalls, LedgerFailed
  <1> QED
    BY <1>1, <1>2, <1>3, <1>4, <1>5, <1>6, <1>7, <1>8, <1>9, <1>10, <1>12, <1>13, <1>14,
       <1>15, <1>16, <1>17, <1>18, <1>20, <1>21, <1>22, <1>23 DEF Next, Begin, Call

\* Every reachable state of the protocol is well typed: in particular no alert
\* is ever claimed or sent for a state the routing does not alert on.
THEOREM TypeCorrect == Spec => []TypeOK
  <1>1. Init => TypeInv
    BY InitTypeInv
  <1>2. TypeInv /\ [Next]_vars => TypeInv'
    BY StepTypeInv
  <1>3. TypeInv => TypeOK
    BY DEF TypeInv
  <1> QED  BY <1>1, <1>2, <1>3, PTL DEF Spec

-----------------------------------------------------------------------------
(***************************************************************************)
(* At most one final email. AtMostOneFinalEmail is not inductive: it has   *)
(* to be known that whoever is about to mail, or has mailed, holds a claim *)
(* the store acknowledged, that such a claim stands behind the marker of   *)
(* its session, and that a run that mailed never gets back to the email.   *)
(***************************************************************************)
Claimant(r) == claim[r] = "CLAIMED"
Over        == {"claimEmailAlert", "emailBark"} \cup Finished
Told        == {"claimLedgerAlert", "ledgerBark", "email"} \cup Over

ClaimantsHold == \A r \in Runs : Claimant(r) => final[Session(r)] = FinalMarker(r) /\ pc[r] \in Told
ClaimsExclude == \A q, r \in Runs : Claimant(q) /\ Claimant(r) /\ Session(q) = Session(r) => q = r
EmailsClaimed == \A r \in Runs : claim[r] # "NOT_CONFIGURED" /\ (pc[r] = "email" => Claimant(r))
MailedClaimed == \A r \in mailed : Claimant(r) /\ pc[r] \in Over

ClaimInv == Configured => ClaimantsHold /\ ClaimsExclude /\ EmailsClaimed /\ MailedClaimed

LEMMA InitClaimInv == Init => ClaimInv
  BY DEF Init, ClaimInv, ClaimantsHold, ClaimsExclude, EmailsClaimed, MailedClaimed, Claimant, Idle

\* A step that claims nothing, mails nothing and touches no final marker keeps
\* the invariant if it moves its run in accordance with it.
LEMMA ClaimFrame ==
    ASSUME TypeOK, ClaimInv, Configured, NEW r \in Runs, NEW call,
           Goto(r, call), UNCHANGED <<job, claim, final, legacy, mailed>>,
           Claimant(r) => call \in Told,
           call = "email" => Claimant(r),
           r \in mailed => call \in Over
    PROVE  ClaimInv'
  <1> USE DEF Goto, TypeOK, Claimant, Session, FinalMarker
  <1>1. ClaimantsHold' /\ ClaimsExclude'
    BY DEF ClaimInv, ClaimantsHold, ClaimsExclude
  <1>2. EmailsClaimed' /\ MailedClaimed'
    BY DEF ClaimInv, EmailsClaimed, MailedClaimed
  <1> QED  BY <1>1, <1>2 DEF ClaimInv

\* A run without an acknowledged claim that learns some other status keeps it.
LEMMA StatusFrame ==
    ASSUME TypeOK, ClaimInv, Configured, NEW r \in Runs, NEW call, NEW status,
           ~Claimant(r), status \notin {"CLAIMED", "NOT_CONFIGURED"}, call # "email",
           Goto(r, call), claim' = [claim EXCEPT ![r] = status],
           UNCHANGED <<job, legacy, mailed>>,
           \A s \in Sessions : final[s] # Absent => final'[s] = final[s]
    PROVE  ClaimInv'
  <1> USE DEF Goto, TypeOK, Claimant
  <1>1. \A q \in Runs : FinalMarker(q) \in FinalMarkers /\ FinalMarker(q) # Absent /\ Session(q) \in Sessions
    BY DeliveryAssumption DEF Jobs, FinalMarker, FinalMarkers, Session, Identities
  <1>2. \A q \in Runs : Session(q)' = Session(q) /\ FinalMarker(q)' = FinalMarker(q)
    BY DEF Session, FinalMarker
  <1>3. ClaimantsHold'
    BY <1>1, <1>2 DEF ClaimInv, ClaimantsHold
  <1>4. ClaimsExclude'
    BY <1>2 DEF ClaimInv, ClaimsExclude
  <1>5. EmailsClaimed' /\ MailedClaimed'
    BY DEF ClaimInv, EmailsClaimed, MailedClaimed
  <1> QED  BY <1>3, <1>4, <1>5 DEF ClaimInv

LEMMA StepClaimInv == TypeInv /\ ClaimInv /\ [Next]_vars => ClaimInv'
  <1> SUFFICES ASSUME TypeInv, ClaimInv, [Next]_vars, Configured PROVE ClaimInv'
    BY DEF ClaimInv
  <1>t. TypeOK
    BY DEF TypeInv
  <1>p. \A r \in Runs : /\ pc[r] \notin Told => ~Claimant(r) /\ r \notin mailed
                        /\ pc[r] \notin Over => r \notin mailed
                        /\ pc[r] = "email" => Claimant(r)
                        /\ claim[r] # "NOT_CONFIGURED"
    BY DEF ClaimInv, ClaimantsHold, MailedClaimed, EmailsClaimed
  <1>r. \A r \in Runs : \A o, l : Route(r, o, l) \in {"done", "claimScan", "alertV2"}
    BY DEF Route
  <1> USE DEF Told, Over, Finished, Idle, local, markers, history
  <1>1. CASE UNCHANGED vars
    BY <1>1 DEF vars, ClaimInv, ClaimantsHold, ClaimsExclude, EmailsClaimed, MailedClaimed, Claimant,
                Session, FinalMarker
  <1>2. ASSUME NEW r \in Runs, Start(r) PROVE ClaimInv'
    BY <1>2, <1>t, <1>p, ClaimFrame DEF Start, MayStart, FirstCall
  <1>3. ASSUME NEW r \in Runs, StartUnresolved(r) PROVE ClaimInv'
    BY <1>3, <1>t, <1>p, <1>r, ClaimFrame DEF StartUnresolved, MayStart
  <1>4. ASSUME NEW r \in Runs, pc[r] \notin Told, NEW status, status \notin {"CLAIMED", "NOT_CONFIGURED"},
               Stop(r, status), UNCHANGED <<job, legacy, mailed, final>>
         PROVE ClaimInv'
    <2>1. PICK told \in {status, "NOT_NOTIFYABLE"} : claim' = [claim EXCEPT ![r] = told] /\ Goto(r, "done")
      BY <1>4 DEF Stop
    <2> QED  BY <1>4, <1>t, <1>p, <2>1, StatusFrame
  <1>5. ASSUME NEW r \in Runs, PreflightV2(r) PROVE ClaimInv'
    <2>1. PICK status \in V2Status(Session(r)) :
             IF status = "ABSENT" THEN Pass(r, "preflightLegacy") ELSE Stop(r, status)
      BY <1>5 DEF PreflightV2
    <2>2. status \notin {"CLAIMED", "NOT_CONFIGURED"}
      BY DEF V2Status, StorageFault
    <2>3. pc[r] = "preflightV2" /\ UNCHANGED <<job, legacy, mailed, final>>
      BY <1>5 DEF PreflightV2
    <2>4. CASE status = "ABSENT"
      BY <1>t, <1>p, <2>1, <2>3, <2>4, ClaimFrame DEF Pass
    <2> QED  BY <1>4, <2>1, <2>2, <2>3, <2>4
  <1>6. ASSUME NEW r \in Runs, PreflightLegacy(r) PROVE ClaimInv'
    <2>1. PICK status \in LegacyStatus(Session(r)) :
             IF status = "ABSENT" THEN Pass(r, "compute") ELSE Stop(r, status)
      BY <1>6 DEF PreflightLegacy
    <2>2. status \notin {"CLAIMED", "NOT_CONFIGURED"}
      BY DEF LegacyStatus, StorageFault
    <2>3. pc[r] = "preflightLegacy" /\ UNCHANGED <<job, legacy, mailed, final>>
      BY <1>6 DEF PreflightLegacy
    <2>4. CASE status = "ABSENT"
      BY <1>t, <1>p, <2>1, <2>3, <2>4, ClaimFrame DEF Pass
    <2> QED  BY <1>4, <2>1, <2>2, <2>3, <2>4
  <1>7. ASSUME NEW r \in Runs, Compute(r) PROVE ClaimInv'
    <2>1. PICK call : Goto(r, call) /\ call \notin Told \ {"done"}
      BY <1>7, <1>r DEF Compute, FirstCall
    <2>2. pc[r] = "compute" /\ UNCHANGED <<job, legacy, mailed, final, claim>>
      BY <1>7 DEF Compute
    <2> QED  BY <1>t, <1>p, <2>1, <2>2, ClaimFrame
  <1>8. ASSUME NEW r \in Runs, PersistLedger(r) PROVE ClaimInv'
    BY <1>8, <1>t, <1>p, <1>r, ClaimFrame DEF PersistLedger
  <1>9. ASSUME NEW r \in Runs, pc[r] \notin Told, NEW status, Claimed(r, status),
               status \notin {"CLAIMED", "NOT_CONFIGURED"},
               UNCHANGED <<job, legacy, mailed>>,
               \A s \in Sessions : final[s] # Absent => final'[s] = final[s]
        PROVE ClaimInv'
    <2>1. AfterClaim(r, status) # "email"
      BY <1>9 DEF AfterClaim, AfterLedgerAlert, MaySend
    <2> QED  BY <1>9, <1>t, <1>p, <2>1, StatusFrame DEF Claimed
  <1>10. ASSUME NEW r \in Runs, ClaimScan(r) PROVE ClaimInv'
    <2>1. pc[r] = "claimScan" /\ UNCHANGED <<job, legacy, mailed, final>>
      BY <1>10 DEF ClaimScan
    <2>2. CASE UNCHANGED claim /\ \E call \in {"claimFinal", "claimMigration"} : Goto(r, call)
      BY <1>t, <1>p, <2>1, <2>2, ClaimFrame
    <2>3. CASE \E status \in {"IDEMPOTENCY_UNAVAILABLE", "LEGACY_V1_MARKER_PRESENT",
                               "LEGACY_RECOVERY_NOT_AUTHORIZED"} : Claimed(r, status)
      BY <1>9, <2>1, <2>3
    <2> QED  BY <1>10, <2>2, <2>3 DEF ClaimScan
  <1>11. ASSUME NEW r \in Runs, ClaimMigration(r) PROVE ClaimInv'
    <2>1. pc[r] = "claimMigration" /\ UNCHANGED <<job, legacy, mailed, final>>
      BY <1>11 DEF ClaimMigration
    <2>2. \/ Claimed(r, "IDEMPOTENCY_UNAVAILABLE")
          \/ Goto(r, "claimFinal") /\ UNCHANGED claim
      BY <1>11 DEF ClaimMigration
    <2> QED  BY <1>9, <1>t, <1>p, <2>1, <2>2, ClaimFrame
  <1>12. ASSUME NEW r \in Runs, ClaimFinal(r) PROVE ClaimInv'
    <2> DEFINE s == Session(r)
    <2>1. pc[r] = "claimFinal" /\ UNCHANGED <<job, legacy, mailed>>
      BY <1>12 DEF ClaimFinal
    <2>2. FinalMarker(r) # Absent /\ s \in Sessions
      BY <1>t, DeliveryAssumption DEF TypeOK, Jobs, FinalMarker, FinalMarkers, Session, Identities
    <2>3. PICK put \in PutResults(final[s], FinalMarker(r), StorageMayFail) :
             final' = [final EXCEPT ![s] = put.object] /\ Claimed(r, ClaimOf[put.status])
      BY <1>12 DEF ClaimFinal
    <2>4. /\ final[s] # Absent => put.object = final[s]
          /\ put.status = "CREATED" => final[s] = Absent /\ put.object = FinalMarker(r)
          /\ put.status \in {"CREATED", "IDEMPOTENT_REPLAY", "ERROR"}
      BY <2>2, DeliveryAssumption, PutProperties
    <2>5. CASE put.status # "CREATED"
      <3>1. \A t \in Sessions : final[t] # Absent => final'[t] = final[t]
        BY <1>t, <2>2, <2>3, <2>4 DEF TypeOK
      <3>2. ClaimOf[put.status] \notin {"CLAIMED", "NOT_CONFIGURED"}
        BY <2>4, <2>5 DEF ClaimOf
      <3> QED  BY <1>9, <2>1, <2>3, <3>1, <3>2
    <2>6. CASE put.status = "CREATED"
      <3> USE <1>t DEF TypeOK, Claimant
      <3>1. claim' = [claim EXCEPT ![r] = "CLAIMED"] /\ \E call \in Told : Goto(r, call)
        BY <2>3, <2>6 DEF ClaimOf, Claimed, AfterClaim, AfterLedgerAlert
      <3>2. final[s] = Absent /\ final' = [final EXCEPT ![s] = FinalMarker(r)]
        BY <2>3, <2>4, <2>6
      <3>3. \A q \in Runs : Session(q)' = Session(q) /\ FinalMarker(q)' = FinalMarker(q)
        BY <2>1 DEF Session, FinalMarker
      <3>4. \A q \in Runs : FinalMarker(q) # Absent /\ Session(q) \in Sessions
        BY DeliveryAssumption DEF Jobs, FinalMarker, FinalMarkers, Session, Identities
      <3>5. \A q \in Runs : Claimant(q) => Session(q) # s
        BY <3>2, <3>4 DEF ClaimInv, ClaimantsHold
      <3>6. ClaimantsHold'
        BY <2>2, <3>1, <3>2, <3>3, <3>4, <3>5 DEF ClaimInv, ClaimantsHold, Goto
      <3>7. ClaimsExclude'
        BY <3>1, <3>3, <3>5 DEF ClaimInv, ClaimsExclude
      <3>8. EmailsClaimed'
        BY <1>p, <3>1 DEF EmailsClaimed, Goto
      <3>9. MailedClaimed'
        BY <1>p, <2>1, <3>1 DEF ClaimInv, MailedClaimed, Goto
      <3> QED  BY <3>6, <3>7, <3>8, <3>9 DEF ClaimInv
    <2> QED  BY <2>5, <2>6
  <1>13. \A r \in Runs : AfterLedgerAlert(claim[r]) \in Told
                        /\ (AfterLedgerAlert(claim[r]) = "email" => Claimant(r))
    BY <1>p DEF AfterLedgerAlert, MaySend, Claimant
  <1>14. ASSUME NEW r \in Runs, ClaimLedgerAlert(r) PROVE ClaimInv'
    <2>1. PICK call \in {"ledgerBark", AfterLedgerAlert(claim[r])} : Goto(r, call)
      BY <1>14 DEF ClaimLedgerAlert, ClaimAlertMarker
    <2> QED  BY <1>14, <1>t, <1>p, <1>13, <2>1, ClaimFrame DEF ClaimLedgerAlert
  <1>15. ASSUME NEW r \in Runs, LedgerBark(r) PROVE ClaimInv'
    BY <1>15, <1>t, <1>p, <1>13, ClaimFrame DEF LedgerBark, Bark
  <1>16. ASSUME NEW r \in Runs, Email(r) PROVE ClaimInv'
    <2> USE <1>t DEF TypeOK, Claimant, Goto
    <2>1. pc[r] = "email" /\ Claimant(r) /\ UNCHANGED <<job, legacy, claim, final>>
      BY <1>16, <1>p DEF Email
    <2>2. PICK call \in {"done", "claimEmailAlert"} : pc' = [pc EXCEPT ![r] = call]
      BY <1>16 DEF Email
    <2>3. mailed' \in {mailed, mailed \cup {r}}
      BY <1>16 DEF Email
    <2>4. ClaimantsHold' /\ ClaimsExclude'
      BY <2>1, <2>2 DEF ClaimInv, ClaimantsHold, ClaimsExclude, Session, FinalMarker
    <2>5. EmailsClaimed' /\ MailedClaimed'
      BY <2>1, <2>2, <2>3 DEF ClaimInv, EmailsClaimed, MailedClaimed
    <2> QED  BY <2>4, <2>5 DEF ClaimInv
  <1>17. ASSUME NEW r \in Runs, ClaimEmailAlert(r) PROVE ClaimInv'
    <2>1. PICK call \in {"emailBark", "done"} : Goto(r, call)
      BY <1>17 DEF ClaimEmailAlert, ClaimAlertMarker
    <2> QED  BY <1>17, <1>t, <1>p, <2>1, ClaimFrame DEF ClaimEmailAlert
  <1>18. ASSUME NEW r \in Runs, EmailBark(r) PROVE ClaimInv'
    BY <1>18, <1>t, <1>p, ClaimFrame DEF EmailBark, Bark
  <1>19. ASSUME NEW r \in Runs, NEW status, NEW next, {next, pc[r]} \cap Told = {},
                GuardAlert(r, status, next), status \notin {"CLAIMED", "NOT_CONFIGURED"},
                UNCHANGED <<job, legacy, mailed, final>>
         PROVE ClaimInv'
    <2>1. CASE status = "ABSENT"
      BY <1>19, <1>t, <1>p, <2>1, ClaimFrame DEF GuardAlert
    <2>2. CASE status # "ABSENT"
      BY <1>19, <1>t, <1>p, <2>2, StatusFrame DEF GuardAlert
    <2> QED  BY <2>1, <2>2
  <1>20. ASSUME NEW r \in Runs, AlertV2(r) PROVE ClaimInv'
    BY <1>19, <1>20 DEF AlertV2, V2Status, StorageFault
  <1>21. ASSUME NEW r \in Runs, AlertLegacy(r) PROVE ClaimInv'
    BY <1>19, <1>21 DEF AlertLegacy, LegacyStatus, StorageFault
  <1>22. ASSUME NEW r \in Runs, ClaimAlert(r) PROVE ClaimInv'
    <2>1. PICK call \in {"alertBark", "done"} : Goto(r, call)
      BY <1>22 DEF ClaimAlert, ClaimAlertMarker
    <2> QED  BY <1>22, <1>t, <1>p, <2>1, ClaimFrame DEF ClaimAlert
  <1>23. ASSUME NEW r \in Runs, AlertBark(r) PROVE ClaimInv'
    BY <1>23, <1>t, <1>p, ClaimFrame DEF AlertBark, Bark
  <1>24. ASSUME NEW r \in Runs, Crash(r) PROVE ClaimInv'
    BY <1>24, <1>t, <1>p, ClaimFrame DEF Crash
  <1>25. ASSUME NEW r \in Runs, NotifyRaises(r) PROVE ClaimInv'
    BY <1>25, <1>t, <1>p, ClaimFrame DEF NotifyRaises
  <1> QED
    BY <1>1, <1>2, <1>3, <1>5, <1>6, <1>7, <1>8, <1>10, <1>11, <1>12, <1>14, <1>15, <1>16, <1>17,
       <1>18, <1>20, <1>21, <1>22, <1>23, <1>24, <1>25 DEF Next, Begin, Call

LEMMA ClaimInvariant == Spec => [](TypeInv /\ ClaimInv)
  <1>1. Init => TypeInv /\ ClaimInv
    BY InitTypeInv, InitClaimInv
  <1>2. TypeInv /\ ClaimInv /\ [Next]_vars => (TypeInv /\ ClaimInv)'
    BY StepTypeInv, StepClaimInv
  <1> QED  BY <1>1, <1>2, PTL DEF Spec

\* However many runs of however many sessions overlap, crash or lose receipts,
\* no session's final report is mailed twice: the claim is the only gate, and
\* it needs no mutual exclusion of the workflow.
THEOREM AtMostOnce == Spec => []AtMostOneFinalEmail
  <1>1. TypeInv /\ ClaimInv => AtMostOneFinalEmail
    BY DEF TypeInv, TypeOK, ClaimInv, ClaimsExclude, MailedClaimed, AtMostOneFinalEmail
  <1> QED  BY <1>1, ClaimInvariant, PTL

\* A report is mailed only under a durable marker with its own run's content.
THEOREM MailedUnderMarker == Spec => []MailedUnderOwnMarker
  <1>1. TypeInv /\ ClaimInv => MailedUnderOwnMarker
    BY DEF TypeInv, TypeOK, ClaimInv, ClaimantsHold, MailedClaimed, MailedUnderOwnMarker
  <1> QED  BY <1>1, ClaimInvariant, PTL

-----------------------------------------------------------------------------
(***************************************************************************)
(* The protocol implements FinalNotification. Under ClaimInv the holder of *)
(* a session is its one claimant, so only three kinds of step matter: one  *)
(* that changes no claim, marker or mail, the put of a final marker, and   *)
(* the email.                                                              *)
(***************************************************************************)
HolderIsClaimant == \A r \in Runs : Claimant(r) => Holder(Session(r)) = r

UnclaimedHolder ==
    \A s \in Sessions : (\A r \in Runs : Claimant(r) => Session(r) # s)
        => Holder(s) = IF final[s] \in FinalMarkers THEN Lost ELSE Nobody

LEMMA HolderFacts == ClaimInv /\ Configured => HolderIsClaimant /\ UnclaimedHolder
  BY DEF ClaimInv, ClaimsExclude, HolderIsClaimant, UnclaimedHolder, Holder, Claimant

Quiet == /\ UNCHANGED <<job, legacy, final, mailed>>
         /\ \A r \in Runs : Claimant(r)' <=> Claimant(r)

LEMMA StepKinds ==
    TypeInv /\ ClaimInv /\ Configured /\ [Next]_vars
        => Quiet \/ \E r \in Runs : ClaimFinal(r) \/ Email(r)
  <1> SUFFICES ASSUME TypeInv, ClaimInv, Configured, [Next]_vars, ~Quiet
               PROVE  \E r \in Runs : ClaimFinal(r) \/ Email(r)
    OBVIOUS
  <1> USE DEF local, markers, history
  <1>1. ASSUME NEW r \in Runs, UNCHANGED <<job, legacy, final, mailed>>,
               UNCHANGED claim \/ \E status : /\ status # "CLAIMED" /\ ~Claimant(r)
                                              /\ claim' = [claim EXCEPT ![r] = status]
        PROVE FALSE
    BY <1>1 DEF Quiet, Claimant, TypeInv, TypeOK
  <1>2. \A r \in Runs : pc[r] \notin Told => ~Claimant(r)
    BY DEF ClaimInv, ClaimantsHold
  <1>3. ~UNCHANGED vars
    BY DEF vars, Quiet, Claimant
  <1>4. ASSUME NEW r \in Runs, Begin(r) \/ Compute(r) \/ PersistLedger(r) \/ Crash(r) \/ NotifyRaises(r)
        PROVE FALSE
    BY <1>1, <1>4 DEF Begin, Start, StartUnresolved, Compute, PersistLedger, Crash, NotifyRaises
  <1>5. ASSUME NEW r \in Runs, PreflightV2(r) \/ PreflightLegacy(r) PROVE FALSE
    <2>1. UNCHANGED <<job, legacy, final, mailed>> /\ ~Claimant(r)
      BY <1>2, <1>5 DEF PreflightV2, PreflightLegacy, Told, Over, Finished
    <2>2. UNCHANGED claim \/ \E status : status # "CLAIMED" /\ claim' = [claim EXCEPT ![r] = status]
      BY <1>5 DEF PreflightV2, PreflightLegacy, Pass, Stop
    <2> QED  BY <1>1, <2>1, <2>2
  <1>6. ASSUME NEW r \in Runs, ClaimScan(r) PROVE FALSE
    <2>1. UNCHANGED <<job, legacy, final, mailed>> /\ ~Claimant(r)
      BY <1>2, <1>6 DEF ClaimScan, Told, Over, Finished
    <2>2. UNCHANGED claim \/ \E status : status # "CLAIMED" /\ claim' = [claim EXCEPT ![r] = status]
      BY <1>6 DEF ClaimScan, Claimed
    <2> QED  BY <1>1, <2>1, <2>2
  <1>7. ASSUME NEW r \in Runs, ClaimMigration(r) PROVE FALSE
    <2>1. UNCHANGED <<job, legacy, final, mailed>> /\ ~Claimant(r)
      BY <1>2, <1>7 DEF ClaimMigration, Told, Over, Finished
    <2>2. UNCHANGED claim \/ \E status : status # "CLAIMED" /\ claim' = [claim EXCEPT ![r] = status]
      BY <1>7 DEF ClaimMigration, Claimed
    <2> QED  BY <1>1, <2>1, <2>2
  <1>8. ASSUME NEW r \in Runs, ClaimLedgerAlert(r) \/ ClaimEmailAlert(r) \/ ClaimAlert(r) PROVE FALSE
    BY <1>1, <1>8 DEF ClaimLedgerAlert, ClaimEmailAlert, ClaimAlert
  <1>9. ASSUME NEW r \in Runs, LedgerBark(r) \/ EmailBark(r) \/ AlertBark(r) PROVE FALSE
    BY <1>1, <1>9 DEF LedgerBark, EmailBark, AlertBark
  <1>10. ASSUME NEW r \in Runs, AlertV2(r) \/ AlertLegacy(r) PROVE FALSE
    <2>1. UNCHANGED <<job, legacy, final, mailed>> /\ ~Claimant(r)
      BY <1>2, <1>10 DEF AlertV2, AlertLegacy, Told, Over, Finished
    <2>2. UNCHANGED claim \/ \E status : status # "CLAIMED" /\ claim' = [claim EXCEPT ![r] = status]
      BY <1>10 DEF AlertV2, AlertLegacy, V2Status, LegacyStatus, StorageFault, GuardAlert
    <2> QED  BY <1>1, <2>1, <2>2
  <1> QED
    BY <1>3, <1>4, <1>5, <1>6, <1>7, <1>8, <1>9, <1>10 DEF Next, Begin, Call

Good == TypeInv /\ ClaimInv /\ HolderIsClaimant /\ UnclaimedHolder

LEMMA RefinedInit == Init /\ Configured => FN!Init
  <1> SUFFICES ASSUME Init, Configured PROVE FN!Init  OBVIOUS
  <1>1. \A s \in Sessions : final[s] \notin FinalMarkers
    BY DeliveryAssumption DEF Init
  <1>2. \A r \in Runs : claim[r] # "CLAIMED"
    BY DEF Init
  <1>3. \A s \in Sessions : Holder(s) = Nobody
    BY <1>1, <1>2 DEF Holder
  <1> QED  BY <1>3 DEF Init, FN!Init

LEMMA RefinedStep == Good /\ Good' /\ Configured /\ [Next]_vars => [FN!Next]_FN!vars
  <1> SUFFICES ASSUME Good, Good', Configured, [Next]_vars PROVE [FN!Next]_FN!vars
    OBVIOUS
  <1> USE DEF Good
  <1>1. \A r \in Runs : FinalMarker(r) \in FinalMarkers /\ Session(r) \in Sessions
    BY DEF TypeInv, TypeOK, Jobs, FinalMarker, FinalMarkers, Session, Identities
  <1>2. CASE Quiet
    <2>1. \A s \in Sessions : Holder(s)' = Holder(s)
      BY <1>2 DEF Quiet, HolderIsClaimant, UnclaimedHolder, Session
    <2> QED  BY <1>2, <2>1 DEF Quiet, FN!vars, Session
  <1>3. ASSUME NEW r \in Runs, Email(r) PROVE [FN!Next]_FN!vars
    <2> DEFINE s == Session(r)
    <2>1. Claimant(r) /\ r \notin mailed /\ UNCHANGED <<job, claim, final, legacy>>
      BY <1>3 DEF Email, local, markers, ClaimInv, EmailsClaimed, MailedClaimed, Over, Finished
    <2>2. Holder(s) = r /\ \A t \in Sessions : Holder(t)' = Holder(t)
      BY <2>1 DEF HolderIsClaimant, Holder, Session
    <2>3. s \notin {Session(q) : q \in mailed}
      BY <2>1 DEF ClaimInv, ClaimsExclude, MailedClaimed, TypeInv, TypeOK
    <2>4. mailed' \in {mailed, mailed \cup {r}}
      BY <1>3 DEF Email
    <2>5. CASE mailed' = mailed
      BY <2>1, <2>2, <2>5 DEF FN!vars, Session
    <2>6. CASE mailed' = mailed \cup {r}
      <3>1. {Session(q) : q \in mailed}' = {Session(q) : q \in mailed} \cup {s}
        BY <2>1, <2>6 DEF Session
      <3>2. FN!Deliver(s)
        BY <1>1, <2>2, <2>3, <3>1 DEF FN!Deliver
      <3> QED  BY <1>1, <3>2 DEF FN!Next
    <2> QED  BY <2>4, <2>5, <2>6
  <1>4. ASSUME NEW r \in Runs, ClaimFinal(r) PROVE [FN!Next]_FN!vars
    <2> DEFINE s == Session(r)
    <2>1. PICK put \in PutResults(final[s], FinalMarker(r), StorageMayFail) :
             final' = [final EXCEPT ![s] = put.object] /\ Claimed(r, ClaimOf[put.status])
      BY <1>4 DEF ClaimFinal
    <2>2. /\ put.object \in {final[s], FinalMarker(r)}
          /\ final[s] # Absent => put.object = final[s]
          /\ put.status = "CREATED" => final[s] = Absent /\ put.object = FinalMarker(r)
          /\ put.status \in {"CREATED", "IDEMPOTENT_REPLAY", "ERROR"}
      BY <1>1, DeliveryAssumption, PutProperties
    <2>3. pc[r] = "claimFinal" /\ UNCHANGED <<job, legacy, mailed>>
      BY <1>4 DEF ClaimFinal, history
    <2>4. ~Claimant(r) /\ claim' = [claim EXCEPT ![r] = ClaimOf[put.status]]
      BY <2>1, <2>3 DEF Claimed, ClaimInv, ClaimantsHold, Told, Over, Finished
    <2>5. \A q \in Runs : q # r => (Claimant(q)' <=> Claimant(q))
      BY <2>4 DEF Claimant, TypeInv, TypeOK
    <2>6. Claimant(r)' <=> put.status = "CREATED"
      BY <2>2, <2>4 DEF Claimant, TypeInv, TypeOK, ClaimOf
    <2>7. \A t \in Sessions : t # s => final'[t] = final[t]
      BY <2>1 DEF TypeInv, TypeOK
    <2>8. final'[s] = put.object
      BY <1>1, <2>1 DEF TypeInv, TypeOK
    <2>9. \A q \in Runs : Session(q)' = Session(q)
      BY <2>3 DEF Session
    <2>10. \A t \in Sessions : t # s => Holder(t)' = Holder(t)
      <3> SUFFICES ASSUME NEW t \in Sessions, t # s PROVE Holder(t)' = Holder(t)
        OBVIOUS
      <3>1. CASE \E q \in Runs : Claimant(q) /\ Session(q) = t
        BY <2>5, <2>9, <3>1 DEF HolderIsClaimant
      <3>2. CASE ~\E q \in Runs : Claimant(q) /\ Session(q) = t
        BY <2>5, <2>7, <2>9, <3>2 DEF UnclaimedHolder
      <3> QED  BY <3>1, <3>2
    <2>11. {Session(q) : q \in mailed}' = {Session(q) : q \in mailed}
      BY <2>3 DEF Session
    <2>12. CASE final[s] # Absent
      <3>1. put.object = final[s] /\ \A q \in Runs : Claimant(q)' <=> Claimant(q)
        BY <2>2, <2>4, <2>5, <2>6, <2>12
      <3>2. Holder(s)' = Holder(s)
        <4>1. CASE \E q \in Runs : Claimant(q) /\ Session(q) = s
          BY <2>9, <3>1, <4>1 DEF HolderIsClaimant
        <4>2. CASE ~\E q \in Runs : Claimant(q) /\ Session(q) = s
          BY <1>1, <2>8, <2>9, <3>1, <4>2 DEF UnclaimedHolder
        <4> QED  BY <4>1, <4>2
      <3> QED  BY <2>9, <2>10, <2>11, <3>2 DEF FN!vars
    <2>13. CASE final[s] = Absent
      <3>1. final[s] \notin FinalMarkers
        BY <2>13, DeliveryAssumption
      <3>2. \A q \in Runs : Claimant(q) => Session(q) # s
        BY <1>1, <3>1 DEF ClaimInv, ClaimantsHold
      <3>3. Holder(s) = Nobody
        BY <1>1, <3>1, <3>2 DEF UnclaimedHolder
      <3>4. CASE put.status = "CREATED"
        <4>1. Holder(s)' = r
          BY <2>6, <2>9, <3>4 DEF HolderIsClaimant
        <4>2. FN!Claim(s, r)
          BY <1>1, <2>9, <2>10, <2>11, <3>3, <4>1 DEF FN!Claim
        <4> QED  BY <1>1, <4>2 DEF FN!Next
      <3>5. CASE put.status # "CREATED" /\ put.object = final[s]
        <4>1. Holder(s)' = Nobody
          BY <1>1, <2>5, <2>6, <2>8, <2>9, <3>1, <3>2, <3>5 DEF UnclaimedHolder
        <4> QED  BY <2>9, <2>10, <2>11, <3>3, <4>1 DEF FN!vars
      <3>6. CASE put.status # "CREATED" /\ put.object = FinalMarker(r)
        <4>1. Holder(s)' = Lost
          BY <1>1, <2>5, <2>6, <2>8, <2>9, <3>2, <3>6 DEF UnclaimedHolder
        <4>2. FN!Claim(s, Lost)
          BY <1>1, <2>9, <2>10, <2>11, <3>3, <4>1 DEF FN!Claim
        <4> QED  BY <1>1, <4>2 DEF FN!Next
      <3> QED  BY <2>2, <3>4, <3>5, <3>6
    <2> QED  BY <2>12, <2>13
  <1> QED  BY <1>2, <1>3, <1>4, StepKinds

\* The marker protocol implements its abstract promise: a session is held by
\* one run for ever, only the holder mails, and it mails once.
THEOREM Refinement == Configured => (Spec => ImplementsFinalNotification)
  <1> SUFFICES ASSUME Configured PROVE Spec => ImplementsFinalNotification
    OBVIOUS
  <1>1. Init => FN!Init
    BY RefinedInit
  <1>2. TypeInv /\ ClaimInv => Good
    BY HolderFacts DEF Good
  <1>3. Good /\ Good' /\ [Next]_vars => [FN!Next]_FN!vars
    BY RefinedStep
  <1> QED  BY <1>1, <1>2, <1>3, ClaimInvariant, PTL DEF Spec, ImplementsFinalNotification, FN!Spec

-----------------------------------------------------------------------------
(***************************************************************************)
(* Legacy evidence. A run that gets past the legacy scan of a session with *)
(* legacy markers names one of them, and a run at the claim has recorded   *)
(* its migration; migrations are never taken back.                         *)
(***************************************************************************)
Authorized(r) == job[r].recovery \in legacy[Session(r)]
Audited(r) == Authorized(r) /\ job[r].recovery \in migrated[Session(r)]

AuditInv ==
    /\ LegacyNeedsAuditedMigration
    /\ \A r \in Runs : /\ pc[r] = "claimMigration" => Authorized(r)
                       /\ pc[r] = "claimFinal" /\ legacy[Session(r)] # {} => Audited(r)

LEMMA InitAuditInv == Init => AuditInv
  <1> SUFFICES ASSUME Init PROVE AuditInv  OBVIOUS
  <1>1. \A s \in Sessions : final[s] \notin FinalMarkers
    BY DeliveryAssumption DEF Init
  <1> QED  BY <1>1 DEF Init, AuditInv, LegacyNeedsAuditedMigration, Idle

\* A step that touches no session's evidence and reaches neither the migration
\* nor the claim.
LEMMA AuditFrame ==
    ASSUME TypeOK, AuditInv, NEW r \in Runs, NEW call, Goto(r, call),
           call \notin {"claimMigration", "claimFinal"},
           UNCHANGED <<job, final, legacy, migrated>>
    PROVE  AuditInv'
  BY DEF TypeOK, AuditInv, LegacyNeedsAuditedMigration, Authorized, Audited, Session, Goto

LEMMA StepAuditInv == TypeInv /\ AuditInv /\ [Next]_vars => AuditInv'
  <1> SUFFICES ASSUME TypeInv, AuditInv, [Next]_vars PROVE AuditInv'
    OBVIOUS
  <1> USE DEF TypeInv, local, markers, history
  <1>1. CASE UNCHANGED vars
    BY <1>1 DEF vars, AuditInv, LegacyNeedsAuditedMigration, Authorized, Audited, Session
  <1>2. ASSUME NEW r \in Runs, Begin(r) \/ Compute(r) \/ PersistLedger(r) PROVE AuditInv'
    <2>1. PICK call : call \notin {"claimMigration", "claimFinal"} /\ Goto(r, call)
      BY <1>2 DEF Begin, Start, StartUnresolved, Compute, PersistLedger, FirstCall, Route
    <2> QED
      BY <1>2, <2>1, AuditFrame DEF Begin, Start, StartUnresolved, Compute, PersistLedger
  <1>3. ASSUME NEW r \in Runs, PreflightV2(r) \/ PreflightLegacy(r) PROVE AuditInv'
    BY <1>3, AuditFrame DEF PreflightV2, PreflightLegacy, Pass, Stop
  <1>4. \A r \in Runs : \A status : AfterClaim(r, status) \notin {"claimMigration", "claimFinal"}
    BY DEF AfterClaim, AfterLedgerAlert
  <1>5. ASSUME NEW r \in Runs, ClaimScan(r) PROVE AuditInv'
    <2>1. UNCHANGED <<job, final, legacy, migrated>>
      BY <1>5 DEF ClaimScan
    <2>2. CASE \E status : Claimed(r, status)
      BY <1>4, <2>1, <2>2, AuditFrame DEF Claimed
    <2>3. CASE legacy[Session(r)] = {} /\ Goto(r, "claimFinal")
      BY <2>1, <2>3 DEF TypeOK, AuditInv, LegacyNeedsAuditedMigration, Authorized, Audited, Session, Goto
    <2>4. CASE Authorized(r) /\ Goto(r, "claimMigration")
      BY <2>1, <2>4 DEF TypeOK, AuditInv, LegacyNeedsAuditedMigration, Authorized, Audited, Session, Goto
    <2> QED  BY <1>5, <2>2, <2>3, <2>4 DEF ClaimScan, Authorized
  <1>6. ASSUME NEW r \in Runs, ClaimMigration(r) PROVE AuditInv'
    <2> DEFINE s == Session(r)  id == job[r].recovery
    <2>1. pc[r] = "claimMigration" /\ Authorized(r) /\ UNCHANGED <<job, final, legacy>>
      BY <1>6 DEF ClaimMigration, AuditInv
    <2>2. s \in Sessions /\ id # Absent
      BY <2>1, DeliveryAssumption DEF Authorized, TypeOK, Jobs, Session
    <2>3. PICK put \in PutResults(IF id \in migrated[s] THEN id ELSE Absent, id, StorageMayFail) :
             /\ migrated' = [migrated EXCEPT ![s] = @ \cup ({put.object} \ {Absent})]
             /\ IF put.status = "ERROR"
                  THEN Claimed(r, "IDEMPOTENCY_UNAVAILABLE")
                  ELSE Goto(r, "claimFinal") /\ UNCHANGED claim
      BY <1>6 DEF ClaimMigration
    <2>4. \A t \in Sessions : migrated[t] \subseteq migrated'[t]
      BY <2>3 DEF TypeOK
    <2>5. LegacyNeedsAuditedMigration'
      BY <2>1, <2>4 DEF AuditInv, LegacyNeedsAuditedMigration, TypeOK
    <2>6. CASE put.status = "ERROR"
      <3>1. PICK call : call \notin {"claimMigration", "claimFinal"} /\ Goto(r, call)
        BY <1>4, <2>3, <2>6 DEF Claimed
      <3> QED
        BY <2>1, <2>4, <2>5, <3>1 DEF AuditInv, Authorized, Audited, Session, TypeOK, Jobs, Goto
    <2>7. CASE put.status # "ERROR"
      <3>1. put.object = id
        BY <2>2, <2>7, DeliveryAssumption, PutProperties
      <3>2. Goto(r, "claimFinal") /\ id \in migrated'[s]
        BY <2>2, <2>3, <2>7, <3>1 DEF TypeOK
      <3> QED
        BY <2>1, <2>4, <2>5, <3>2 DEF AuditInv, Authorized, Audited, Session, TypeOK, Jobs, Goto
    <2> QED  BY <2>6, <2>7
  <1>7. ASSUME NEW r \in Runs, ClaimFinal(r) PROVE AuditInv'
    <2> DEFINE s == Session(r)
    <2>1. pc[r] = "claimFinal" /\ UNCHANGED <<job, legacy, migrated>>
      BY <1>7 DEF ClaimFinal
    <2>2. s \in Sessions /\ FinalMarker(r) # Absent /\ (legacy[s] # {} => Audited(r))
      BY <2>1, DeliveryAssumption
      DEF AuditInv, TypeOK, Jobs, Session, FinalMarker, FinalMarkers, Identities
    <2>3. PICK put \in PutResults(final[s], FinalMarker(r), StorageMayFail) :
             final' = [final EXCEPT ![s] = put.object] /\ Claimed(r, ClaimOf[put.status])
      BY <1>7 DEF ClaimFinal
    <2>4. put.object \in {final[s], FinalMarker(r)}
      BY <2>2, DeliveryAssumption, PutProperties
    <2>5. LegacyNeedsAuditedMigration'
      BY <2>1, <2>2, <2>3, <2>4
      DEF AuditInv, LegacyNeedsAuditedMigration, TypeOK, FinalMarker, Authorized, Audited
    <2>6. PICK call : call \notin {"claimMigration", "claimFinal"} /\ Goto(r, call)
      BY <1>4, <2>3 DEF Claimed
    <2> QED
      BY <2>1, <2>5, <2>6 DEF AuditInv, Authorized, Audited, Session, TypeOK, Goto
  <1>8. ASSUME NEW r \in Runs, ClaimLedgerAlert(r) \/ ClaimEmailAlert(r) \/ ClaimAlert(r) PROVE AuditInv'
    <2>1. PICK call : call \notin {"claimMigration", "claimFinal"} /\ Goto(r, call)
      BY <1>8 DEF ClaimLedgerAlert, ClaimEmailAlert, ClaimAlert, ClaimAlertMarker, AfterLedgerAlert
    <2> QED  BY <1>8, <2>1, AuditFrame DEF ClaimLedgerAlert, ClaimEmailAlert, ClaimAlert
  <1>9. ASSUME NEW r \in Runs, LedgerBark(r) \/ Email(r) \/ EmailBark(r) \/ AlertBark(r) PROVE AuditInv'
    <2>1. PICK call : call \notin {"claimMigration", "claimFinal"} /\ Goto(r, call)
      BY <1>9 DEF LedgerBark, Email, EmailBark, AlertBark, Bark, AfterLedgerAlert
    <2> QED  BY <1>9, <2>1, AuditFrame DEF LedgerBark, Email, EmailBark, AlertBark
  <1>10. ASSUME NEW r \in Runs, AlertV2(r) \/ AlertLegacy(r) PROVE AuditInv'
    BY <1>10, AuditFrame DEF AlertV2, AlertLegacy, GuardAlert
  <1>11. ASSUME NEW r \in Runs, Crash(r) \/ NotifyRaises(r) PROVE AuditInv'
    BY <1>11, AuditFrame DEF Crash, NotifyRaises
  <1> QED
    BY <1>1, <1>2, <1>3, <1>5, <1>6, <1>7, <1>8, <1>9, <1>10, <1>11 DEF Next, Call

\* A session whose delivery only a legacy V1 marker attests is never closed
\* again under V2 without one of its own identities and a recorded migration,
\* with or without storage faults.
THEOREM LegacyAudited == Spec => []LegacyNeedsAuditedMigration
  <1>1. Init => TypeInv /\ AuditInv
    BY InitTypeInv, InitAuditInv
  <1>2. TypeInv /\ AuditInv /\ [Next]_vars => (TypeInv /\ AuditInv)'
    BY StepTypeInv, StepAuditInv
  <1>3. AuditInv => LegacyNeedsAuditedMigration
    BY DEF AuditInv
  <1> QED  BY <1>1, <1>2, <1>3, PTL DEF Spec

-----------------------------------------------------------------------------
(***************************************************************************)
(* Better evidence. Two halves: the ladder is monotone, and whoever claims *)
(* does it on a final outcome, several calls after the computation.        *)
(***************************************************************************)

\* The ladder in one piece: when a computed attempt is final.
Deliverable(f) ==
    /\ ~f.globalFailure /\ ~f.coreFailed /\ (f.preflightReady \/ f.reports)
    /\ ~(f.attempted > 0 /\ f.usable = 0)
    /\ f.reports /\ (f.exact > 0 \/ f.sessionRows)
    /\ \/ /\ f.candidate = "NO_CANDIDATES" /\ f.selection = "NO_CANDIDATES"
          /\ ~f.candidateError
       \/ /\ f.candidate = "SUCCESS" \/ (f.candidate = "PARTIAL" /\ f.included > 0 /\ f.analysed > 0)
          /\ ~f.broadStale /\ f.exact > 0

LEMMA FinalIsDeliverable ==
    ASSUME NEW f \in Facts
    PROVE  IsFinal(DeliveryOutcome("COMPUTED", f)) <=> Deliverable(f)
<1> USE MaxSymbolsAssumption DEF IsFinal, Final, NotReady, Degraded, Failed, NonSession
<1>t. /\ f.attempted \in Nat /\ f.usable \in Nat /\ f.exact \in Nat
      /\ f.included \in {0, 1} /\ f.analysed \in {0, 1}
      /\ f.candidate \in CandidateStatuses
      /\ \A x \in {f.preflightReady, f.reports, f.sessionRows, f.symbolFailed, f.coreFailed,
                   f.globalFailure, f.candidateError, f.broadStale} : x \in BOOLEAN
  BY DEF Facts, Counts
<1>1. CASE f.attempted > 0 /\ f.usable = 0
  BY <1>1 DEF DeliveryOutcome, RunStatus, Deliverable
<1>2. CASE ~(f.attempted > 0 /\ f.usable = 0)
  <2>1. DataStatus(f) \in {"PARTIAL", "OK"}
    BY <1>2, <1>t DEF DataStatus
  <2>2. RunStatus(f) = IF f.globalFailure THEN "PROVIDER_GLOBAL_FAILURE"
                       ELSE IF f.coreFailed \/ ~(f.preflightReady \/ f.reports) THEN "FAILED"
                       ELSE "COMPLETED"
    BY <2>1, <1>t DEF RunStatus
  <2>3. OperationallyComplete(f) <=> f.reports /\ ~f.coreFailed /\ (f.exact > 0 \/ f.sessionRows)
    BY <2>1 DEF OperationallyComplete
  <2>4. IsFinal(DeliveryOutcome("COMPUTED", f)) <=>
          RunStatus(f) = "COMPLETED" /\ IsFinal(CandidateOutcome(f))
    BY <1>2, <2>2 DEF DeliveryOutcome
  <2>5. IsFinal(CandidateOutcome(f)) <=>
          /\ OperationallyComplete(f)
          /\ \/ /\ f.candidate = "NO_CANDIDATES" /\ f.selection = "NO_CANDIDATES" /\ ~f.candidateError
             \/ /\ f.candidate = "SUCCESS" \/ (f.candidate = "PARTIAL" /\ f.included > 0 /\ f.analysed > 0)
                /\ ~f.broadStale /\ f.exact > 0
    <3>1. CASE f.candidate \in {"UNAVAILABLE", "NOT_RUN"}
      BY <3>1 DEF CandidateOutcome
    <3>2. CASE f.candidate = "NO_CANDIDATES"
      BY <3>2 DEF CandidateOutcome, CandidateFailed
    <3>3. CASE f.candidate = "PARTIAL"
      BY <3>3, <1>t DEF CandidateOutcome
    <3>4. CASE f.candidate = "SUCCESS"
      BY <3>4, <1>t DEF CandidateOutcome
    <3> QED  BY <1>t, <3>1, <3>2, <3>3, <3>4 DEF CandidateStatuses
  <2> QED  BY <1>2, <2>2, <2>3, <2>4, <2>5 DEF Deliverable
<1> QED  BY <1>1, <1>2

LEMMA BetterIsDeliverable ==
    ASSUME NEW f \in Facts, NEW g \in Improvements(f), Deliverable(f)
    PROVE  Deliverable(g)
<1>t. /\ f.attempted \in Nat /\ f.usable \in Nat /\ f.exact \in Nat /\ f.analysed \in {0, 1}
  BY MaxSymbolsAssumption DEF Facts, Counts
<1>1. CASE g = [f EXCEPT !.usable = f.usable + 1, !.exact = f.exact + 1]
  BY <1>t, <1>1 DEF Deliverable, Facts
<1>2. CASE g = [f EXCEPT !.exact = f.exact + 1]
  BY <1>t, <1>2 DEF Deliverable, Facts
<1>3. CASE g = [f EXCEPT !.analysed = 1]
  BY <1>t, <1>3 DEF Deliverable, Facts
<1>4. CASE g = [f EXCEPT !.broadStale = FALSE]
  BY <1>t, <1>4 DEF Deliverable, Facts
<1>5. CASE g = [f EXCEPT !.candidateError = FALSE]
  BY <1>t, <1>5 DEF Deliverable, Facts
<1>6. CASE g = [f EXCEPT !.symbolFailed = f.usable < f.attempted]
  BY <1>t, <1>6 DEF Deliverable, Facts
<1> QED  BY <1>1, <1>2, <1>3, <1>4, <1>5, <1>6 DEF Improvements

\* A deliverable attempt stays deliverable under better evidence, for every
\* size of the universe.
THEOREM FinalIsRobust ==
    ASSUME NEW f \in Fragile
    PROVE  ~IsFinal(DeliveryOutcome("COMPUTED", f))
<1>1. PICK g \in Improvements(f) : ~IsFinal(DeliveryOutcome("COMPUTED", g))
  BY DEF Fragile
<1>2. f \in Facts /\ g \in Facts
  BY DEF Fragile, Improvements
<1> QED  BY <1>1, <1>2, FinalIsDeliverable, BetterIsDeliverable

ClaimPath == {"claimScan", "claimMigration", "claimFinal"}

FinalPath ==
    \A r \in Runs : /\ pc[r] \in ClaimPath \/ Claimant(r) => IsFinal(outcome[r])
                    /\ Claimant(r) => pc[r] \in Told

LEMMA InitFinalPath == Init => FinalPath
  BY DEF Init, FinalPath, ClaimPath, Claimant, Idle

\* A call of r, which may set its own outcome and claim.
LEMMA PathFrame ==
    ASSUME TypeOK, FinalPath, NEW r \in Runs, NEW call, Goto(r, call),
           \A q \in Runs \ {r} : outcome'[q] = outcome[q] /\ claim'[q] = claim[q],
           call \in ClaimPath \/ claim'[r] = "CLAIMED" => IsFinal(outcome'[r]),
           claim'[r] = "CLAIMED" => call \in Told
    PROVE  FinalPath'
  <1>1. pc'[r] = call /\ \A q \in Runs \ {r} : pc'[q] = pc[q]
    BY DEF Goto, TypeOK
  <1> QED  BY <1>1 DEF FinalPath, Claimant, IsFinal

LEMMA StepFinalPath == TypeInv /\ FinalPath /\ [Next]_vars => FinalPath'
  <1> SUFFICES ASSUME TypeInv, FinalPath, [Next]_vars PROVE FinalPath'
    OBVIOUS
  <1> USE DEF local, markers, history
  <1>t. TypeOK
    BY DEF TypeInv
  <1>u. \A r \in Runs : pc[r] \notin Told => claim[r] # "CLAIMED"
    BY DEF FinalPath, Claimant
  <1>r. \A r \in Runs : \A o, l : /\ Route(r, o, l) \in ClaimPath => IsFinal(o)
                                  /\ FirstCall(r) \notin ClaimPath
    BY DEF Route, FirstCall, ClaimPath
  <1>d. \A r \in Runs : \A s : /\ AfterClaim(r, s) \notin ClaimPath /\ AfterLedgerAlert(s) \notin ClaimPath
                               /\ AfterClaim(r, s) \in Told /\ AfterLedgerAlert(s) \in Told
    BY DEF AfterClaim, AfterLedgerAlert, ClaimPath, Told, Over, Finished
  <1>1. CASE UNCHANGED vars
    BY <1>1 DEF vars, FinalPath, Claimant
  <1>2. ASSUME NEW r \in Runs, Start(r) PROVE FinalPath'
    <2>1. pc[r] \notin Told /\ UNCHANGED <<outcome, claim>>
      BY <1>2, <1>t DEF Start, MayStart, Told, Over, Finished, Idle
    <2> QED  BY <1>2, <1>t, <1>u, <1>r, <2>1, PathFrame DEF Start
  <1>3. ASSUME NEW r \in Runs, StartUnresolved(r) PROVE FinalPath'
    <2>1. pc[r] \notin Told /\ UNCHANGED claim /\ \A q \in Runs \ {r} : outcome'[q] = outcome[q]
      BY <1>3, <1>t DEF StartUnresolved, MayStart, Told, Over, Finished, Idle, TypeOK
    <2> QED  BY <1>3, <1>t, <1>u, <1>r, <2>1, PathFrame DEF StartUnresolved
  <1>4. ASSUME NEW r \in Runs, PreflightV2(r) \/ PreflightLegacy(r) PROVE FinalPath'
    <2>1. pc[r] \notin Told
      BY <1>4 DEF PreflightV2, PreflightLegacy, Told, Over, Finished
    <2>2. PICK call, status : /\ Pass(r, call) \/ Stop(r, status)
                              /\ call \notin ClaimPath /\ status # "CLAIMED"
      BY <1>4 DEF PreflightV2, PreflightLegacy, V2Status, LegacyStatus, StorageFault, ClaimPath
    <2>3. PICK next : Goto(r, next) /\ next \notin ClaimPath
      BY <2>2 DEF Pass, Stop, ClaimPath
    <2>4. claim'[r] # "CLAIMED" /\ \A q \in Runs \ {r} : outcome'[q] = outcome[q] /\ claim'[q] = claim[q]
      BY <1>t, <1>u, <2>1, <2>2 DEF Pass, Stop, TypeOK
    <2> QED  BY <1>t, <2>3, <2>4, PathFrame
  <1>5. ASSUME NEW r \in Runs, Compute(r) PROVE FinalPath'
    <2>1. pc[r] \notin Told /\ UNCHANGED claim
      BY <1>5 DEF Compute, Told, Over, Finished
    <2>2. PICK o, call : /\ outcome' = [outcome EXCEPT ![r] = o] /\ Goto(r, call)
                         /\ call \in ClaimPath => IsFinal(o)
      BY <1>5, <1>r DEF Compute, ClaimPath
    <2>3. outcome'[r] = o /\ \A q \in Runs \ {r} : outcome'[q] = outcome[q]
      BY <1>t, <2>2 DEF TypeOK
    <2> QED  BY <1>t, <1>u, <2>1, <2>2, <2>3, PathFrame
  <1>6. ASSUME NEW r \in Runs, PersistLedger(r) PROVE FinalPath'
    <2>1. pc[r] \notin Told /\ UNCHANGED <<outcome, claim>>
      BY <1>6 DEF PersistLedger, Told, Over, Finished
    <2> QED  BY <1>6, <1>t, <1>u, <1>r, <2>1, PathFrame DEF PersistLedger
  <1>7. ASSUME NEW r \in Runs, ClaimScan(r) \/ ClaimMigration(r) \/ ClaimFinal(r) PROVE FinalPath'
    <2>1. pc[r] \in ClaimPath /\ pc[r] \notin Told /\ UNCHANGED outcome
      BY <1>7 DEF ClaimScan, ClaimMigration, ClaimFinal, ClaimPath, Told, Over, Finished
    <2>2. IsFinal(outcome[r]) /\ claim[r] # "CLAIMED"
      BY <1>u, <2>1 DEF FinalPath
    <2>3. CASE UNCHANGED claim /\ \E call : Goto(r, call)
      BY <1>t, <2>1, <2>2, <2>3, PathFrame
    <2>4. CASE \E status : Claimed(r, status)
      <3>1. PICK status : claim' = [claim EXCEPT ![r] = status] /\ Goto(r, AfterClaim(r, status))
        BY <2>4 DEF Claimed
      <3>2. \A q \in Runs \ {r} : claim'[q] = claim[q]
        BY <1>t, <3>1 DEF TypeOK
      <3> QED  BY <1>t, <1>d, <2>1, <2>2, <3>1, <3>2, PathFrame
    <2> QED  BY <1>7, <2>3, <2>4 DEF ClaimScan, ClaimMigration, ClaimFinal
  <1>8. ASSUME NEW r \in Runs, \/ ClaimLedgerAlert(r) \/ ClaimEmailAlert(r) \/ ClaimAlert(r) \/ LedgerBark(r)
                               \/ EmailBark(r) \/ AlertBark(r) \/ Email(r) \/ Crash(r) \/ NotifyRaises(r)
        PROVE FinalPath'
    <2>1. UNCHANGED <<outcome, claim>>
      BY <1>8 DEF ClaimLedgerAlert, ClaimEmailAlert, ClaimAlert, LedgerBark, EmailBark, AlertBark, Email,
                  Crash, NotifyRaises
    <2>2. PICK call : Goto(r, call) /\ call \notin ClaimPath /\ (call \in Told \/ pc[r] \notin Told)
      BY <1>8, <1>d DEF ClaimLedgerAlert, ClaimEmailAlert, ClaimAlert, LedgerBark, EmailBark, AlertBark, Email,
                  Crash, NotifyRaises, Bark, ClaimAlertMarker, ClaimPath, Told, Over, Finished
    <2> QED  BY <1>t, <1>u, <2>1, <2>2, PathFrame DEF FinalPath, Claimant
  <1>9. ASSUME NEW r \in Runs, AlertV2(r) \/ AlertLegacy(r) PROVE FinalPath'
    <2>1. pc[r] \notin Told /\ UNCHANGED outcome
      BY <1>9 DEF AlertV2, AlertLegacy, Told, Over, Finished
    <2>2. PICK status, next : GuardAlert(r, status, next) /\ status # "CLAIMED" /\ next \notin ClaimPath
      BY <1>9 DEF AlertV2, AlertLegacy, V2Status, LegacyStatus, StorageFault, ClaimPath
    <2>3. PICK call : Goto(r, call) /\ call \notin ClaimPath
      BY <2>2 DEF GuardAlert, ClaimPath
    <2>4. claim'[r] # "CLAIMED" /\ \A q \in Runs \ {r} : claim'[q] = claim[q]
      BY <1>t, <1>u, <2>1, <2>2 DEF GuardAlert, TypeOK
    <2> QED  BY <1>t, <2>1, <2>3, <2>4, PathFrame
  <1> QED
    BY <1>1, <1>2, <1>3, <1>4, <1>5, <1>6, <1>7, <1>8, <1>9 DEF Next, Begin, Call

\* No run claims a session on an outcome that better evidence would have
\* turned into a diagnostic.
THEOREM BetterEvidence == Spec => []BetterEvidenceKeepsFinal
  <1>1. Init => TypeInv /\ FinalPath
    BY InitTypeInv, InitFinalPath
  <1>2. TypeInv /\ FinalPath /\ [Next]_vars => (TypeInv /\ FinalPath)'
    BY StepTypeInv, StepFinalPath
  <1>3. FinalPath => BetterEvidenceKeepsFinal
    BY FinalIsRobust DEF FinalPath, Claimant, BetterEvidenceKeepsFinal, FragileOutcomes
  <1> QED  BY <1>1, <1>2, <1>3, PTL DEF Spec

-----------------------------------------------------------------------------
(***************************************************************************)
(* One Bark per state. Like the final report, an alert is sent on a claim: *)
(* between the put and the request the right to send is with one run, and  *)
(* it stays with it when the request is sent. OneBarkPerState says nothing *)
(* of that gap, so that it is not inductive.                               *)
(***************************************************************************)
BarkCalls == {"ledgerBark", "emailBark", "alertBark"}

\* The alert a run is about to send.
Composed(r, a) ==
    \/ pc[r] = "ledgerBark" /\ a = LedgerState(ledger[r])
    \/ pc[r] = "emailBark" /\ a = EmailState
    \/ pc[r] = "alertBark" /\ a = DegradedState(outcome[r])

OwnsAlert(r, a) == Composed(r, a) \/ <<r, a>> \in barked

OwnersHold == \A r \in Runs, a \in AlertStates : OwnsAlert(r, a) => alerts[Session(r)][a] # Absent
OwnersExclude ==
    \A q, r \in Runs, a \in AlertStates :
        OwnsAlert(q, a) /\ OwnsAlert(r, a) /\ Session(q) = Session(r) => q = r

BarkInv == Configured => OwnersHold /\ OwnersExclude

LEMMA InitBarkInv == Init => BarkInv
  BY DEF Init, BarkInv, OwnersHold, OwnersExclude, OwnsAlert, Composed, Idle

\* A step after which no run owns an alert it did not own before.
LEMMA BarkFrame ==
    ASSUME TypeOK, BarkInv, UNCHANGED <<job, alerts>>,
           \A q \in Runs : \A a : OwnsAlert(q, a)' => OwnsAlert(q, a)
    PROVE  BarkInv'
  <1>1. \A q \in Runs : Session(q)' = Session(q)
    BY DEF Session
  <1>2. Configured => OwnersHold'
    BY <1>1 DEF BarkInv, OwnersHold
  <1>3. Configured => OwnersExclude'
    BY <1>1 DEF BarkInv, OwnersExclude
  <1> QED  BY <1>2, <1>3 DEF BarkInv

\* Every call but the claims of alerts and the requests themselves.
LEMMA QuietCall ==
    ASSUME TypeOK, BarkInv, NEW r \in Runs, NEW call, Goto(r, call), call \notin BarkCalls,
           UNCHANGED <<job, alerts, barked>>,
           \A q \in Runs \ {r} : outcome'[q] = outcome[q] /\ ledger'[q] = ledger[q]
    PROVE  BarkInv'
  <1>1. \A q \in Runs \ {r} : pc'[q] = pc[q]
    BY DEF Goto, TypeOK
  <1>2. pc'[r] = call
    BY DEF Goto, TypeOK
  <1>3. \A q \in Runs : \A a : OwnsAlert(q, a)' => OwnsAlert(q, a)
    BY <1>1, <1>2 DEF OwnsAlert, Composed, BarkCalls, LedgerState, DegradedState
  <1> QED  BY <1>3, BarkFrame

\* The claim of an alert: an acknowledged creation finds a state nobody owns.
LEMMA AlertClaimed ==
    ASSUME TypeInv, BarkInv, NEW r \in Runs, NEW state \in AlertStates, NEW bark, NEW skip,
           ClaimAlertMarker(r, state, bark, skip), skip \notin BarkCalls,
           UNCHANGED <<job, outcome, ledger, barked>>,
           \A a : (Goto(r, bark) /\ Composed(r, a)') => a = state
    PROVE  BarkInv'
  <1> SUFFICES ASSUME Configured PROVE BarkInv'
    BY DEF BarkInv
  <1> USE DEF TypeInv
  <1> DEFINE s == Session(r)
  <1>1. PICK put \in PutResults(alerts[s][state], job[r].protocol, StorageMayFail) :
           /\ alerts' = [alerts EXCEPT ![s][state] = put.object]
           /\ Goto(r, IF put.status = "CREATED" THEN bark ELSE skip)
    BY DEF ClaimAlertMarker
  <1>2. s \in Sessions /\ job[r].protocol # Absent
    BY DeliveryAssumption DEF TypeOK, Jobs, Session
  <1>3. /\ alerts[s][state] # Absent => put.object = alerts[s][state]
        /\ put.status = "CREATED" => alerts[s][state] = Absent /\ put.object # Absent
    BY <1>2, DeliveryAssumption, PutProperties
  <1>4. \A q \in Runs : Session(q)' = Session(q)
    BY DEF Session
  <1>5. \A t \in Sessions, a \in AlertStates : alerts[t][a] # Absent => alerts'[t][a] # Absent
    BY <1>1, <1>3 DEF TypeOK
  <1>6. \A q \in Runs \ {r} : \A a : OwnsAlert(q, a)' => OwnsAlert(q, a)
    <2>1. \A q \in Runs \ {r} : pc'[q] = pc[q]
      BY <1>1 DEF Goto, TypeOK
    <2> QED  BY <2>1 DEF OwnsAlert, Composed, LedgerState, DegradedState
  <1>7. CASE put.status = "CREATED"
    <2>1. \A a : OwnsAlert(r, a)' => OwnsAlert(r, a) \/ a = state
      BY <1>1, <1>7 DEF OwnsAlert
    <2>2. alerts'[s][state] # Absent
      BY <1>1, <1>2, <1>3, <1>7 DEF TypeOK
    <2>3. \A q \in Runs : Session(q) = s => ~OwnsAlert(q, state)
      BY <1>3, <1>7 DEF BarkInv, OwnersHold
    <2>4. \A q \in Runs : Session(q) \in Sessions
      BY DEF TypeOK, Jobs, Session
    <2>5. OwnersHold'
      BY <1>4, <1>5, <1>6, <2>1, <2>2, <2>4 DEF BarkInv, OwnersHold
    <2>6. OwnersExclude'
      BY <1>4, <1>6, <2>1, <2>3 DEF BarkInv, OwnersExclude
    <2> QED  BY <2>5, <2>6 DEF BarkInv
  <1>8. CASE put.status # "CREATED"
    <2>1. pc'[r] \notin BarkCalls
      BY <1>1, <1>8 DEF Goto, TypeOK
    <2>2. \A a : OwnsAlert(r, a)' => OwnsAlert(r, a)
      BY <2>1 DEF OwnsAlert, Composed, BarkCalls
    <2>4. \A q \in Runs : Session(q) \in Sessions
      BY DEF TypeOK, Jobs, Session
    <2>5. OwnersHold'
      BY <1>4, <1>5, <1>6, <2>2, <2>4 DEF BarkInv, OwnersHold
    <2>6. OwnersExclude'
      BY <1>4, <1>6, <2>2 DEF BarkInv, OwnersExclude
    <2> QED  BY <2>5, <2>6 DEF BarkInv
  <1> QED  BY <1>7, <1>8

\* The request: whoever sends owns what it sends.
LEMMA AlertSent ==
    ASSUME TypeOK, BarkInv, NEW r \in Runs, NEW state, NEW next, Bark(r, state, next),
           Composed(r, state), next \notin BarkCalls, UNCHANGED <<job, outcome, ledger, alerts>>
    PROVE  BarkInv'
  <1>1. \A q \in Runs \ {r} : pc'[q] = pc[q]
    BY DEF Bark, Goto, TypeOK
  <1>2. pc'[r] = next
    BY DEF Bark, Goto, TypeOK
  <1>3. \A q \in Runs : \A a : <<q, a>> \in barked' => <<q, a>> \in barked \/ (q = r /\ a = state)
    BY DEF Bark
  <1>4. \A q \in Runs : \A a : OwnsAlert(q, a)' => OwnsAlert(q, a)
    BY <1>1, <1>2, <1>3 DEF OwnsAlert, Composed, BarkCalls, LedgerState, DegradedState
  <1> QED  BY <1>4, BarkFrame

LEMMA StepBarkInv == TypeInv /\ BarkInv /\ [Next]_vars => BarkInv'
  <1> SUFFICES ASSUME TypeInv, BarkInv, Configured, [Next]_vars PROVE BarkInv'
    BY DEF BarkInv
  <1> USE DEF local, markers, history
  <1>t. TypeOK
    BY DEF TypeInv
  <1>r. \A r \in Runs : /\ \A o, l : Route(r, o, l) \notin BarkCalls
                        /\ FirstCall(r) \notin BarkCalls
                        /\ \A s : AfterClaim(r, s) \notin BarkCalls /\ AfterLedgerAlert(s) \notin BarkCalls
    BY DEF Route, FirstCall, AfterClaim, AfterLedgerAlert, BarkCalls
  <1>1. CASE UNCHANGED vars
    BY <1>1, <1>t, BarkFrame DEF vars, OwnsAlert, Composed, LedgerState, DegradedState
  <1>2. ASSUME NEW r \in Runs, Begin(r) \/ Compute(r) \/ PersistLedger(r) PROVE BarkInv'
    <2>1. PICK call : call \notin BarkCalls /\ Goto(r, call)
      BY <1>2, <1>r DEF Begin, Start, StartUnresolved, Compute, PersistLedger, BarkCalls
    <2>2. UNCHANGED <<job, alerts, barked>>
      BY <1>2 DEF Begin, Start, StartUnresolved, Compute, PersistLedger
    <2>3. \A q \in Runs \ {r} : outcome'[q] = outcome[q] /\ ledger'[q] = ledger[q]
      BY <1>2, <1>t DEF Begin, Start, StartUnresolved, Compute, PersistLedger, TypeOK
    <2> QED  BY <1>t, <2>1, <2>2, <2>3, QuietCall
  <1>3. ASSUME NEW r \in Runs, PreflightV2(r) \/ PreflightLegacy(r) PROVE BarkInv'
    <2>1. PICK call : call \notin BarkCalls /\ Goto(r, call)
      BY <1>3 DEF PreflightV2, PreflightLegacy, Stop, Pass, BarkCalls
    <2>2. UNCHANGED <<job, alerts, barked, ledger>>
      BY <1>3 DEF PreflightV2, PreflightLegacy
    <2>3. \A q \in Runs \ {r} : outcome'[q] = outcome[q]
      BY <1>3, <1>t DEF PreflightV2, PreflightLegacy, Stop, Pass, TypeOK
    <2> QED  BY <1>t, <2>1, <2>2, <2>3, QuietCall
  <1>4. ASSUME NEW r \in Runs, ClaimScan(r) \/ ClaimMigration(r) \/ ClaimFinal(r) PROVE BarkInv'
    <2>1. PICK call : call \notin BarkCalls /\ Goto(r, call)
      BY <1>4, <1>r DEF ClaimScan, ClaimMigration, ClaimFinal, Claimed, BarkCalls
    <2>2. UNCHANGED <<job, alerts, barked, outcome, ledger>>
      BY <1>4 DEF ClaimScan, ClaimMigration, ClaimFinal
    <2> QED  BY <1>t, <2>1, <2>2, QuietCall
  <1>5. ASSUME NEW r \in Runs, Email(r) \/ AlertV2(r) \/ AlertLegacy(r) \/ Crash(r) \/ NotifyRaises(r)
        PROVE BarkInv'
    <2>1. PICK call : call \notin BarkCalls /\ Goto(r, call)
      BY <1>5 DEF Email, AlertV2, AlertLegacy, GuardAlert, Crash, NotifyRaises, BarkCalls
    <2>2. UNCHANGED <<job, alerts, barked, outcome, ledger>>
      BY <1>5 DEF Email, AlertV2, AlertLegacy, Crash, NotifyRaises
    <2> QED  BY <1>t, <2>1, <2>2, QuietCall
  <1>6. ASSUME NEW r \in Runs, ClaimLedgerAlert(r) PROVE BarkInv'
    <2>1. LedgerState(ledger[r]) \in AlertStates
      BY <1>6, AlertStateFacts DEF ClaimLedgerAlert, TypeInv, RoutedOK, LedgerFailed
    <2>2. UNCHANGED <<job, outcome, ledger, barked>>
      BY <1>6 DEF ClaimLedgerAlert
    <2>3. \A a : (Goto(r, "ledgerBark") /\ Composed(r, a)') => a = LedgerState(ledger[r])
      BY <1>t, <2>2 DEF Goto, TypeOK, Composed, LedgerState
    <2> QED  BY <1>6, <1>r, <2>1, <2>2, <2>3, AlertClaimed DEF ClaimLedgerAlert
  <1>7. ASSUME NEW r \in Runs, ClaimEmailAlert(r) PROVE BarkInv'
    <2>2. UNCHANGED <<job, outcome, ledger, barked>>
      BY <1>7 DEF ClaimEmailAlert
    <2>3. \A a : (Goto(r, "emailBark") /\ Composed(r, a)') => a = EmailState
      BY <1>t DEF Goto, TypeOK, Composed, EmailState
    <2> QED  BY <1>7, <2>2, <2>3, AlertStateFacts, AlertClaimed DEF ClaimEmailAlert, BarkCalls
  <1>8. ASSUME NEW r \in Runs, ClaimAlert(r) PROVE BarkInv'
    <2>1. DegradedState(outcome[r]) \in AlertStates
      BY <1>8, OutcomeStates DEF ClaimAlert, TypeInv, RoutedOK, AlertCalls
    <2>2. UNCHANGED <<job, outcome, ledger, barked>>
      BY <1>8 DEF ClaimAlert
    <2>3. \A a : (Goto(r, "alertBark") /\ Composed(r, a)') => a = DegradedState(outcome[r])
      BY <1>t, <2>2 DEF Goto, TypeOK, Composed, DegradedState
    <2> QED  BY <1>8, <2>1, <2>2, <2>3, AlertClaimed DEF ClaimAlert, BarkCalls
  <1>9. ASSUME NEW r \in Runs, LedgerBark(r) \/ EmailBark(r) \/ AlertBark(r) PROVE BarkInv'
    <2>1. UNCHANGED <<job, outcome, ledger, alerts>>
      BY <1>9 DEF LedgerBark, EmailBark, AlertBark
    <2>2. PICK state, next : Bark(r, state, next) /\ Composed(r, state) /\ next \notin BarkCalls
      BY <1>9, <1>r DEF LedgerBark, EmailBark, AlertBark, Composed, BarkCalls
    <2> QED  BY <1>t, <2>1, <2>2, AlertSent
  <1> QED
    BY <1>1, <1>2, <1>3, <1>4, <1>5, <1>6, <1>7, <1>8, <1>9 DEF Next, Call

\* However runs overlap, crash or lose receipts, a session's alert of one state
\* reaches Bark at most once.
THEOREM OneBark == Spec => []OneBarkPerState
  <1>1. Init => TypeInv /\ BarkInv
    BY InitTypeInv, InitBarkInv
  <1>2. TypeInv /\ BarkInv /\ [Next]_vars => (TypeInv /\ BarkInv)'
    BY StepTypeInv, StepBarkInv
  <1>3. TypeInv /\ BarkInv => OneBarkPerState
    <2> SUFFICES ASSUME TypeOK, OwnersExclude, NEW p \in barked, NEW q \in barked,
                        p[2] = q[2], Session(p[1]) = Session(q[1])
                 PROVE  p = q
      BY DEF TypeInv, BarkInv, OneBarkPerState
    <2>1. p \in Runs \X AlertStates /\ q \in Runs \X AlertStates
      BY DEF TypeOK
    <2>2. p = <<p[1], p[2]>> /\ q = <<q[1], q[2]>>
      BY <2>1
    <2>3. OwnsAlert(p[1], p[2]) /\ OwnsAlert(q[1], p[2])
      BY <2>2 DEF OwnsAlert
    <2> QED  BY <2>1, <2>2, <2>3 DEF OwnersExclude
  <1> QED  BY <1>1, <1>2, <1>3, PTL DEF Spec

-----------------------------------------------------------------------------
(***************************************************************************)
(* The terminality guards. A guard reads before its run acts; it holds     *)
(* when the run acts because the workflow admits one run at a time, so     *)
(* that nobody else can claim the session in between, and because the run  *)
(* itself does not claim between its guard and the guarded call. Without   *)
(* Serialized neither property holds.                                      *)
(***************************************************************************)
Solo == \A q, r \in Runs : Active(q) /\ Active(r) => q = r

Guarded(r) == Natural(r) /\ job[r].recovery = NoIdentity

\* Past the read of the V2 marker, and past the legacy scan.
MarkerRead(r) == \/ pc[r] \in {"alertLegacy", "claimAlert", "alertBark"}
                 \/ pc[r] \in {"preflightLegacy", "compute", "ledger"} /\ Guarded(r)
LegacyRead(r) == \/ pc[r] \in {"claimAlert", "alertBark"}
                 \/ pc[r] \in {"compute", "ledger"} /\ Guarded(r)

OpenSession(r) == /\ MarkerRead(r) => final[Session(r)] = Absent
                  /\ LegacyRead(r) => legacy[Session(r)] = {}

GuardInv == Serialized /\ Configured => Solo /\ \A r \in Runs : OpenSession(r)

LEMMA InitGuardInv == Init => GuardInv
  BY DEF Init, GuardInv, Solo, Active, OpenSession, MarkerRead, LegacyRead, Idle

\* The run that moves is the only one there is: what the others have read
\* does not matter, they are not there.
LEMMA GuardFrame ==
    ASSUME TypeOK, GuardInv, Serialized, Configured, NEW r \in Runs, NEW call, Goto(r, call),
           MayStart(r) \/ Active(r), UNCHANGED <<job, legacy>>, OpenSession(r)'
    PROVE  GuardInv'
  <1>1. \A q \in Runs \ {r} : ~Active(q) /\ pc'[q] = pc[q]
    BY DEF GuardInv, Solo, MayStart, Goto, TypeOK
  <1>2. Solo'
    BY <1>1 DEF Solo, Active
  <1>3. \A q \in Runs \ {r} : ~MarkerRead(q)' /\ ~LegacyRead(q)'
    BY <1>1 DEF MarkerRead, LegacyRead, Active, Idle, Finished
  <1> QED  BY <1>2, <1>3 DEF GuardInv, OpenSession

\* Calls that stand behind no guard.
LEMMA Unguarded ==
    ASSUME TypeOK, GuardInv, Serialized, Configured, NEW r \in Runs, NEW call, Goto(r, call),
           MayStart(r) \/ Active(r), UNCHANGED <<job, legacy>>,
           call \notin {"alertLegacy", "claimAlert", "alertBark", "preflightLegacy", "compute", "ledger"}
    PROVE  GuardInv'
  <1>1. pc'[r] = call
    BY DEF Goto, TypeOK
  <1>2. OpenSession(r)'
    BY <1>1 DEF OpenSession, MarkerRead, LegacyRead
  <1> QED  BY <1>2, GuardFrame

LEMMA StepGuardInv == TypeInv /\ GuardInv /\ [Next]_vars => GuardInv'
  <1> SUFFICES ASSUME TypeInv, GuardInv, Serialized, Configured, [Next]_vars PROVE GuardInv'
    BY DEF GuardInv
  <1> USE DEF local, markers, history
  <1>t. TypeOK
    BY DEF TypeInv
  <1>g. \A r \in Runs : OpenSession(r)
    BY DEF GuardInv
  <1>r. \A r \in Runs : \A o, l : Route(r, o, l) \in {"done", "alertV2", "claimScan"}
    BY DEF Route
  <1>f. \A r \in Runs : FirstCall(r) = IF Guarded(r) THEN "preflightV2" ELSE "compute"
    BY DEF FirstCall, Guarded
  <1>a. \A r \in Runs : pc[r] \in Calls => Active(r)
    BY DEF Active, Calls, Idle, Finished
  <1>1. CASE UNCHANGED vars
    BY <1>1 DEF vars, GuardInv, Solo, Active, OpenSession, MarkerRead, LegacyRead, Guarded, Natural, Session
  <1>2. ASSUME NEW r \in Runs, Start(r) PROVE GuardInv'
    <2>1. pc'[r] = FirstCall(r) /\ UNCHANGED <<job, legacy>> /\ MayStart(r)
      BY <1>2, <1>t DEF Start, Goto, TypeOK
    <2>2. OpenSession(r)'
      BY <1>f, <2>1 DEF OpenSession, MarkerRead, LegacyRead, Guarded, Natural
    <2> QED  BY <1>2, <1>t, <2>1, <2>2, GuardFrame DEF Start
  <1>3. ASSUME NEW r \in Runs, StartUnresolved(r) PROVE GuardInv'
    BY <1>3, <1>t, <1>r, Unguarded DEF StartUnresolved
  <1>4. ASSUME NEW r \in Runs, PreflightV2(r) \/ PreflightLegacy(r) \/ AlertV2(r) \/ AlertLegacy(r)
        PROVE GuardInv'
    <2>1. Active(r) /\ UNCHANGED <<job, final, legacy>>
      BY <1>4, <1>a DEF PreflightV2, PreflightLegacy, AlertV2, AlertLegacy, Calls
    <2>2. CASE Goto(r, "done")
      BY <1>t, <2>1, <2>2, Unguarded
    <2>3. CASE PreflightV2(r) /\ ~Goto(r, "done")
      <3>1. final[Session(r)] = Absent /\ Goto(r, "preflightLegacy")
        BY <2>3 DEF PreflightV2, V2Status, StorageFault, Pass, Stop
      <3>2. OpenSession(r)'
        BY <1>t, <2>1, <3>1 DEF Goto, TypeOK, OpenSession, MarkerRead, LegacyRead, Session
      <3> QED  BY <1>t, <2>1, <3>1, <3>2, GuardFrame
    <2>4. CASE PreflightLegacy(r) /\ ~Goto(r, "done")
      <3>1. legacy[Session(r)] = {} /\ Goto(r, "compute") /\ pc[r] = "preflightLegacy"
        BY <2>4 DEF PreflightLegacy, LegacyStatus, StorageFault, Pass, Stop
      <3>2. OpenSession(r)'
        BY <1>t, <1>g, <2>1, <3>1
        DEF Goto, TypeOK, OpenSession, MarkerRead, LegacyRead, Guarded, Natural, Session
      <3> QED  BY <1>t, <2>1, <3>1, <3>2, GuardFrame
    <2>5. CASE AlertV2(r) /\ ~Goto(r, "done")
      <3>1. final[Session(r)] = Absent /\ Goto(r, "alertLegacy")
        BY <2>5 DEF AlertV2, V2Status, StorageFault, GuardAlert
      <3>2. OpenSession(r)'
        BY <1>t, <2>1, <3>1 DEF Goto, TypeOK, OpenSession, MarkerRead, LegacyRead, Session
      <3> QED  BY <1>t, <2>1, <3>1, <3>2, GuardFrame
    <2>6. CASE AlertLegacy(r) /\ ~Goto(r, "done")
      <3>1. legacy[Session(r)] = {} /\ Goto(r, "claimAlert") /\ pc[r] = "alertLegacy"
        BY <2>6 DEF AlertLegacy, LegacyStatus, StorageFault, GuardAlert
      <3>2. OpenSession(r)'
        BY <1>t, <1>g, <2>1, <3>1 DEF Goto, TypeOK, OpenSession, MarkerRead, LegacyRead, Session
      <3> QED  BY <1>t, <2>1, <3>1, <3>2, GuardFrame
    <2> QED  BY <1>4, <2>2, <2>3, <2>4, <2>5, <2>6
  <1>5. ASSUME NEW r \in Runs, Compute(r) PROVE GuardInv'
    <2>1. pc[r] = "compute" /\ Active(r) /\ UNCHANGED <<job, final, legacy>>
      BY <1>5, <1>a DEF Compute, Calls
    <2>2. PICK call : Goto(r, call) /\ call \in {"ledger", FirstCall(r), "done", "alertV2", "claimScan"}
      BY <1>5, <1>r DEF Compute
    <2>3. CASE call \in {"ledger", FirstCall(r)}
      <3>1. OpenSession(r)'
        BY <1>t, <1>g, <1>f, <2>1, <2>2, <2>3
        DEF Goto, TypeOK, OpenSession, MarkerRead, LegacyRead, Guarded, Natural, Session
      <3> QED  BY <1>t, <2>1, <2>2, <3>1, GuardFrame
    <2>4. CASE call \in {"done", "alertV2", "claimScan"}
      BY <1>t, <2>1, <2>2, <2>4, Unguarded
    <2> QED  BY <2>2, <2>3, <2>4
  <1>6. ASSUME NEW r \in Runs, PersistLedger(r) PROVE GuardInv'
    <2>1. Active(r) /\ UNCHANGED <<job, legacy>>
      BY <1>6, <1>a DEF PersistLedger, Calls
    <2> QED  BY <1>6, <1>t, <1>r, <2>1, Unguarded DEF PersistLedger
  <1>7. ASSUME NEW r \in Runs, ClaimScan(r) \/ ClaimMigration(r) \/ ClaimFinal(r) PROVE GuardInv'
    <2>1. Active(r) /\ UNCHANGED <<job, legacy>>
      BY <1>7, <1>a DEF ClaimScan, ClaimMigration, ClaimFinal, Calls
    <2>2. PICK call : Goto(r, call) /\ call \in {"claimFinal", "claimMigration", "claimLedgerAlert", "email", "done"}
      BY <1>7 DEF ClaimScan, ClaimMigration, ClaimFinal, Claimed, AfterClaim, AfterLedgerAlert
    <2> QED  BY <1>t, <2>1, <2>2, Unguarded
  <1>8. ASSUME NEW r \in Runs, ClaimLedgerAlert(r) \/ ClaimEmailAlert(r) \/ LedgerBark(r) \/ EmailBark(r)
                                  \/ AlertBark(r) \/ Email(r)
        PROVE GuardInv'
    <2>1. Active(r) /\ UNCHANGED <<job, legacy>>
      BY <1>8, <1>a DEF ClaimLedgerAlert, ClaimEmailAlert, LedgerBark, EmailBark, AlertBark, Email, Calls
    <2>2. PICK call : /\ Goto(r, call)
                      /\ call \in {"ledgerBark", "emailBark", "email", "claimEmailAlert", "done"}
      BY <1>8 DEF ClaimLedgerAlert, ClaimEmailAlert, LedgerBark, EmailBark, AlertBark, Email, Bark,
                  ClaimAlertMarker, AfterLedgerAlert
    <2> QED  BY <1>t, <2>1, <2>2, Unguarded
  <1>9. ASSUME NEW r \in Runs, ClaimAlert(r) PROVE GuardInv'
    <2>1. pc[r] = "claimAlert" /\ Active(r) /\ UNCHANGED <<job, final, legacy>>
      BY <1>9, <1>a DEF ClaimAlert, Calls
    <2>2. PICK call : Goto(r, call) /\ call \in {"alertBark", "done"}
      BY <1>9 DEF ClaimAlert, ClaimAlertMarker
    <2>3. OpenSession(r)'
      BY <1>t, <1>g, <2>1, <2>2 DEF Goto, TypeOK, OpenSession, MarkerRead, LegacyRead, Session
    <2> QED  BY <1>t, <2>1, <2>2, <2>3, GuardFrame
  <1>10. ASSUME NEW r \in Runs, Crash(r) \/ NotifyRaises(r) PROVE GuardInv'
    <2>1. Active(r) /\ UNCHANGED <<job, legacy>>
      BY <1>10, <1>a DEF Crash, NotifyRaises, Calls
    <2> QED  BY <1>10, <1>t, <2>1, Unguarded DEF Crash, NotifyRaises
  <1> QED
    BY <1>1, <1>2, <1>3, <1>4, <1>5, <1>6, <1>7, <1>8, <1>9, <1>10 DEF Next, Begin, Call

LEMMA GuardInvariant == Spec => [](TypeInv /\ GuardInv)
  <1>1. Init => TypeInv /\ GuardInv
    BY InitTypeInv, InitGuardInv
  <1>2. TypeInv /\ GuardInv /\ [Next]_vars => (TypeInv /\ GuardInv)'
    BY StepTypeInv, StepGuardInv
  <1> QED  BY <1>1, <1>2, PTL DEF Spec

\* Of the three requests only one is about a degraded report.
LEMMA WhoBarks ==
    ASSUME [Next]_vars, NEW r \in Runs, NEW o \in Outcomes,
           <<r, DegradedState(o)>> \in barked' \ barked
    PROVE  AlertBark(r)
  <1> USE DEF local, markers, history
  <1>1. \A l : DegradedState(o) # LedgerState(l) /\ DegradedState(o) # EmailState
    <2>1. o.readiness # "LEDGER_ERROR" /\ o.readiness # "EMAIL_DELIVERY_FAILED"
      BY DEF Outcomes, NonSession, Failed, NotReady, Degraded, Final
    <2>2. \A a, b, c, d : <<a, b>> = <<c, d>> => a = c
      OBVIOUS
    <2> QED  BY <2>1, <2>2 DEF DegradedState, LedgerState, EmailState
  <1>2. PICK q \in Runs : Begin(q) \/ Call(q) \/ Crash(q) \/ NotifyRaises(q)
    BY DEF Next, vars
  <1>3. LedgerBark(q) \/ EmailBark(q) \/ AlertBark(q)
    BY <1>2 DEF Begin, Start, StartUnresolved, Call, Crash, NotifyRaises, PreflightV2, PreflightLegacy, Compute,
                PersistLedger, ClaimScan, ClaimMigration, ClaimFinal, ClaimLedgerAlert, Email, ClaimEmailAlert,
                AlertV2, AlertLegacy, ClaimAlert
  <1> QED  BY <1>1, <1>3 DEF LedgerBark, EmailBark, AlertBark, Bark

LEMMA WhoWrites ==
    ASSUME [Next]_vars, NEW r \in wrote' \ wrote
    PROVE  r \in Runs /\ PersistLedger(r)
  <1> USE DEF local, markers, history
  <1>1. PICK q \in Runs : Begin(q) \/ Call(q) \/ Crash(q) \/ NotifyRaises(q)
    BY DEF Next, vars
  <1>2. PersistLedger(q)
    BY <1>1 DEF Begin, Start, StartUnresolved, Call, Crash, NotifyRaises, PreflightV2, PreflightLegacy, Compute,
                ClaimScan, ClaimMigration, ClaimFinal, ClaimLedgerAlert, LedgerBark, Email, ClaimEmailAlert,
                EmailBark, AlertV2, AlertLegacy, ClaimAlert, AlertBark
  <1> QED  BY <1>2 DEF PersistLedger

\* Where the workflow runs one invocation at a time, nobody is alerted about a
\* degraded report of a session that has its final evidence.
THEOREM AlertsRespectFinal == Spec => NoDegradedBarkAfterFinal
  <1>1. TypeInv /\ GuardInv /\ [Next]_vars =>
          ((Serialized /\ Configured) =>
            \A r \in Runs : \A o \in DayOutcomes :
              (~IsFinal(o) /\ <<r, DegradedState(o)>> \in barked' \ barked)
                  => final[Session(r)] = Absent /\ legacy[Session(r)] = {})
    <2> SUFFICES ASSUME GuardInv, [Next]_vars, Serialized, Configured, NEW r \in Runs, NEW o \in DayOutcomes,
                        <<r, DegradedState(o)>> \in barked' \ barked
                 PROVE  final[Session(r)] = Absent /\ legacy[Session(r)] = {}
      OBVIOUS
    <2>1. AlertBark(r)
      BY WhoBarks, DeliveryAssumption
    <2> QED  BY <2>1 DEF AlertBark, GuardInv, OpenSession, MarkerRead, LegacyRead
  <1> QED  BY <1>1, GuardInvariant, PTL DEF Spec, NoDegradedBarkAfterFinal

\* Where the workflow runs one invocation at a time, a later trigger does not
\* write the ledger of a session that has its final evidence.
THEOREM LedgerRespectsFinal == Spec => NoLedgerWorkAfterFinal
  <1>1. TypeInv /\ GuardInv /\ [Next]_vars =>
          ((Serialized /\ Configured) =>
            \A r \in wrote' \ wrote :
              (Natural(r) /\ job[r].recovery = NoIdentity)
                  => final[Session(r)] = Absent /\ legacy[Session(r)] = {})
    <2> SUFFICES ASSUME GuardInv, [Next]_vars, Serialized, Configured, NEW r \in wrote' \ wrote, Guarded(r)
                 PROVE  final[Session(r)] = Absent /\ legacy[Session(r)] = {}
      BY DEF Guarded
    <2>1. r \in Runs /\ PersistLedger(r)
      BY WhoWrites
    <2> QED  BY <2>1 DEF PersistLedger, GuardInv, OpenSession, MarkerRead, LegacyRead
  <1> QED  BY <1>1, GuardInvariant, PTL DEF Spec, NoLedgerWorkAfterFinal

-----------------------------------------------------------------------------
(***************************************************************************)
(* The ladder: what a final outcome excludes, whatever the facts.          *)
(***************************************************************************)

\* No report is final that met a failure of a provider, has a formal universe
\* without a usable symbol, or saw a broad tail of old candidates, unless the
\* Candidate stage found no candidate and no error.
THEOREM FinalExcludes ==
    ASSUME NEW f, IsFinal(DeliveryOutcome("COMPUTED", f))
    PROVE  /\ ~f.globalFailure
           /\ ~(f.attempted > 0 /\ f.usable = 0)
           /\ f.broadStale => f.candidate = "NO_CANDIDATES" /\ ~f.candidateError
<1> USE DEF IsFinal, Final, NotReady, Degraded, Failed, NonSession
<1>1. ~f.globalFailure
  BY DEF DeliveryOutcome, RunStatus
<1>2. ~(f.attempted > 0 /\ f.usable = 0) /\ DeliveryOutcome("COMPUTED", f) = CandidateOutcome(f)
  BY <1>1 DEF DeliveryOutcome, RunStatus
<1>3. f.broadStale => f.candidate = "NO_CANDIDATES" /\ ~f.candidateError
  BY <1>2 DEF CandidateOutcome, CandidateFailed
<1> QED BY <1>1, <1>2, <1>3

(***************************************************************************)
(* The facts are honest about the attempt they were made of.               *)
(***************************************************************************)
LEMMA OutageIsGlobal ==
    ASSUME NEW w, MetOutage(w)
    PROVE  FactsOf(w).globalFailure
<1>1. CASE \E s \in Asked(w) : w.of[s].load = "OUTAGE"
  BY <1>1 DEF FactsOf, LoadOutages, Asked
<1>2. CASE CandidateOutage(w)
  BY <1>2 DEF FactsOf
<1> QED BY <1>1, <1>2 DEF MetOutage, CandidateOutage, ScreenOutage, Screened, DeepOutage

LEMMA SymbolsAreCounted ==
    ASSUME NEW S, S \subseteq Securities
    PROVE  IsFiniteSet(S) /\ Cardinality(S) \in Nat /\ (S = {} <=> Cardinality(S) = 0)
  BY AttemptAssumption, FS_Subset, FS_CardinalityType, FS_EmptySet

\* A series whose tail is old at every try is an answer.
LEMMA StaleIsAnAnswer == "STALE" \in Answers
<1> DEFINE try == [i \in 1 .. Tries |-> "STALE"]
<1>1. try \in [1 .. Tries -> TryResults]
  BY DEF TryResults
<1>2. {i \in DOMAIN try : try[i] \in {"OK", "BAD"}} = {}
  OBVIOUS
<1>3. try[Tries] = "STALE"
  BY AttemptAssumption
<1>4. Fetched(try) = "STALE"
  <2> HIDE DEF try
  <2> QED BY <1>2, <1>3 DEF Fetched
<1> QED BY <1>1, <1>4 DEF Answers

LEMMA NoCandidateNoTail ==
    ASSUME NEW w, CandidateStatus(w) = "NO_CANDIDATES", ~FactsOf(w).candidateError
    PROVE  ~BroadlyStale(w)
<1>1. ScreenComplete(w)
  BY DEF CandidateStatus
<1>2. DeepFailed(w) = {}
  BY DEF FactsOf
<1>3. Screened(w, {"STALE"}) = {}
  BY <1>1, StaleIsAnAnswer DEF ScreenComplete, Screened
<1> QED
  BY <1>2, <1>3, SymbolsAreCounted, AttemptAssumption DEF BroadlyStale, BroadTail, Stale

\* An attempt whose outcome is final met no outage and has a formal symbol with
\* exact data, in either market; where the gate reads the provider's text for
\* an old series, which is the US market, it saw no broad tail either
\* (_delivery_readiness over _status_from_result).
THEOREM FinalIsFit ==
    ASSUME NEW w \in Worlds, IsFinal(OutcomeOf(w))
    PROVE  /\ Provided(w)
           /\ w.market # "CN" => Fit(w)
<1> DEFINE f == FactsOf(w)
<1>1. /\ ~f.globalFailure
      /\ ~(f.attempted > 0 /\ f.usable = 0)
      /\ f.broadStale => f.candidate = "NO_CANDIDATES" /\ ~f.candidateError
  BY FinalExcludes DEF OutcomeOf
<1>2. ~MetOutage(w)
  BY <1>1, OutageIsGlobal
<1>3. Required(w) # {} /\ Required(w) \subseteq Securities /\ Usable(w) \subseteq Required(w)
  BY DEF Worlds, Required, Formal, Paper, Usable, Asked
<1>4. Usable(w) # {}
  BY <1>1, <1>3, SymbolsAreCounted DEF FactsOf
<1>5. ExactRows(w) # {}
  BY <1>3, <1>4 DEF ExactRows, Rows
<1>6. ASSUME w.market # "CN" PROVE ~BroadlyStale(w)
  <2>1. w.market = "US"
    BY <1>6 DEF Worlds, Markets, Provider
  <2>2. NamedStale(w) = Stale(w)
    BY <2>1 DEF NamedStale, Provider
  <2>3. f.broadStale <=> BroadlyStale(w)
    BY <2>2 DEF FactsOf, BroadlyStale
  <2>4. f.candidate = CandidateStatus(w)
    BY DEF FactsOf
  <2>5. f.broadStale => CandidateStatus(w) = "NO_CANDIDATES" /\ ~FactsOf(w).candidateError
    BY <1>1, <2>4
  <2> QED BY <2>3, <2>5, NoCandidateNoTail
<1> QED BY <1>2, <1>4, <1>5, <1>6 DEF Fit, Provided

-----------------------------------------------------------------------------
(***************************************************************************)
(* The day. What a run claims on it computed several calls earlier; that   *)
(* every call in between keeps the outcome is FinalPath, and that a final  *)
(* outcome comes from a fit feed is FeedInv.                               *)
(***************************************************************************)
Reportable(m) == {"YES"} \cup IF m = "CN" THEN {"STALE"} ELSE {}

FeedInv == \A r \in Runs : IsFinal(outcome[r]) => feed[r] \in Reportable(market)

DayInv == TypeInv /\ FinalPath /\ market \in Markets /\ feed \in [Runs -> Feeds] /\ FeedInv

\* The other stages of an attempt end in no report.
LEMMA ResultIsFit ==
    ASSUME NEW m \in Markets, NEW x \in DayResults[m]
    PROVE  /\ x.feed \in Feeds
           /\ IsFinal(x.outcome) => x.feed \in Reportable(m)
<1>1. ASSUME NEW w \in Worlds, w.market = m, x = ResultOf(w)
      PROVE  /\ x.feed \in Feeds
             /\ IsFinal(x.outcome) => x.feed \in Reportable(m)
  <2>1. x.feed = Deserved(w, IsFinal(OutcomeOf(w))) /\ x.outcome = OutcomeOf(w)
    BY <1>1 DEF ResultOf
  <2>2. IsFinal(OutcomeOf(w)) => Provided(w) /\ (m # "CN" => Fit(w))
    BY <1>1, FinalIsFit
  <2>3. \A b \in BOOLEAN : Deserved(w, b) \in Feeds
    BY DEF Deserved, Feeds
  <2>4. IsFinal(OutcomeOf(w)) \in BOOLEAN
    BY DEF IsFinal
  <2> QED BY <2>1, <2>2, <2>3, <2>4 DEF Deserved, Reportable, Fit
<1>2. CASE x \in {[outcome |-> o, feed |-> "NONE"] :
            o \in {NonSession, Failed("REPORT_EXECUTION_FAILED"), NotReady("SESSION_NOT_COMPLETED")}}
  BY <1>2 DEF IsFinal, NonSession, Failed, NotReady, Feeds
<1>3. DayResults[m] \subseteq Results[m]
  BY DEF DayResults
<1> QED BY <1>1, <1>2, <1>3 DEF Results, Feeds

LEMMA InitDay == DayInit => DayInv
<1> SUFFICES ASSUME DayInit PROVE DayInv
  OBVIOUS
<1>1. TypeInv /\ FinalPath /\ market \in Markets /\ feed \in [Runs -> Feeds]
  BY InitTypeInv, InitFinalPath DEF DayInit, Feeds
<1>2. \A r \in Runs : ~IsFinal(outcome[r])
  BY DEF DayInit, Init, IsFinal, NoOutcome, Failed
<1> QED BY <1>1, <1>2 DEF DayInv, FeedInv

LEMMA DayStepIsStep == [DayNext]_dayVars => [Next]_vars
  BY DEF DayNext, Attempt, Other, Next, Call, dayVars

\* Apart from the computation, a step that changes an outcome makes it a failure.
LEMMA OtherKeepsFinal ==
    ASSUME TypeInv, NEW r \in Runs, Other(r), NEW q \in Runs, IsFinal(outcome'[q])
    PROVE  outcome'[q] = outcome[q]
<1> USE DEF local, markers, history
<1>1. ~IsFinal(Failed("REPORT_EXECUTION_FAILED")) /\ ~IsFinal(PreflightFailure)
  BY DEF IsFinal, Failed, PreflightFailure
<1>2. CASE StartUnresolved(r) \/ PreflightV2(r) \/ PreflightLegacy(r)
  BY <1>1, <1>2 DEF StartUnresolved, PreflightV2, PreflightLegacy, Pass, Stop, TypeInv, TypeOK
<1>3. CASE Start(r) \/ PersistLedger(r) \/ ClaimScan(r) \/ ClaimMigration(r) \/ ClaimFinal(r)
  BY <1>3 DEF Start, PersistLedger, ClaimScan, ClaimMigration, ClaimFinal
<1>4. CASE \/ ClaimLedgerAlert(r) \/ LedgerBark(r) \/ Email(r) \/ ClaimEmailAlert(r) \/ EmailBark(r)
           \/ AlertV2(r) \/ AlertLegacy(r) \/ ClaimAlert(r) \/ AlertBark(r) \/ Crash(r) \/ NotifyRaises(r)
  BY <1>4 DEF ClaimLedgerAlert, LedgerBark, Email, ClaimEmailAlert, EmailBark, AlertV2, AlertLegacy,
     ClaimAlert, AlertBark, Crash, NotifyRaises
<1>5. pc[r] # "compute" => ~Compute(r)
  BY DEF Compute
<1> QED BY <1>2, <1>3, <1>4, <1>5 DEF Other, Begin, Call

LEMMA StepFeed == DayInv /\ [DayNext]_dayVars => DayInv'
<1> SUFFICES ASSUME DayInv, [DayNext]_dayVars PROVE DayInv'
  OBVIOUS
<1>a. TypeInv' /\ FinalPath'
  BY DayStepIsStep, StepTypeInv, StepFinalPath DEF DayInv
<1>1. CASE UNCHANGED dayVars
  BY <1>1, <1>a DEF dayVars, vars, local, FeedInv, DayInv
<1>2. ASSUME NEW r \in Runs, Attempt(r) PROVE DayInv'
  <2>1. PICK x \in DayResults[market] : x.outcome = outcome'[r] /\ feed' = [feed EXCEPT ![r] = x.feed]
    BY <1>2 DEF Attempt
  <2>2. \A q \in Runs \ {r} : outcome'[q] = outcome[q] /\ feed'[q] = feed[q]
    BY <1>2, <2>1 DEF Attempt, Compute, DayInv, TypeInv, TypeOK
  <2>3. feed'[r] = x.feed /\ feed' \in [Runs -> Feeds] /\ market' = market
    BY <1>2, <2>1, ResultIsFit DEF DayInv, Attempt
  <2>4. FeedInv'
    BY <2>1, <2>2, <2>3, ResultIsFit DEF DayInv, FeedInv, IsFinal
  <2> QED BY <1>a, <2>3, <2>4 DEF DayInv
<1>3. ASSUME NEW r \in Runs, Other(r) PROVE DayInv'
  BY <1>a, <1>3, OtherKeepsFinal DEF Other, DayInv, FeedInv
<1> QED BY <1>1, <1>2, <1>3 DEF DayNext

\* No session of either market is closed by a report whose attempt met an
\* outage or had no exact formal symbol; none of the US market by one that saw
\* a broad tail (run_cloud_daily_report.py, through every retry and overlap).
THEOREM ClaimsRestOnFitFeeds == DaySpec => []ClaimRestsOnFitFeed
<1>1. DayInit => DayInv
  BY InitDay
<1>2. DayInv /\ [DayNext]_dayVars => DayInv'
  BY StepFeed
<1>3. DayInv => ClaimRestsOnFitFeed
  BY DEF DayInv, FinalPath, FeedInv, Reportable, ClaimRestsOnFitFeed, Claimant
<1> QED BY <1>1, <1>2, <1>3, PTL DEF DaySpec

-----------------------------------------------------------------------------
(***************************************************************************)
(* The watchdogs, for any calendar and any number of faults. The clock     *)
(* stops only at instants of a day of the calendar, and what makes a       *)
(* window right is that no run is created between the close and the first  *)
(* instant: a run is never older than the window and younger than the      *)
(* close.                                                                  *)
(***************************************************************************)

\* The instants of a day of the calendar have a first one.
LEMMA FirstTime ==
    ASSUME NEW T, T \subseteq Nat, T # {}
    PROVE  Min(T) \in T
<1> DEFINE Before(m) == {t \in T : t < m}
<1>0. \A t \in T : t \in Nat
  OBVIOUS
<1>1. PICK b \in T : b \in Nat
  BY <1>0
<1>2. IsFiniteSet(0..b)
  BY FS_Interval
<1> DEFINE S == {t \in T : t <= b}
           Befores == {Before(m) : m \in S}
<1>3. IsFiniteSet(S) /\ b \in S
  <2>1. ASSUME NEW t \in T, t <= b PROVE t \in 0..b
    <3>1. t \in Nat
      BY <1>0
    <3> QED BY <1>1, <2>1, <3>1
  <2>2. S \subseteq 0..b
    BY <2>1
  <2>3. b <= b
    BY <1>1
  <2>4. b \in S
    BY <2>3
  <2> HIDE DEF S
  <2> QED BY <1>2, <2>2, <2>4, FS_Subset
<1>4. Befores \subseteq FiniteSubsetsOf(S) /\ Befores # {}
  <2>1. FiniteSubsetsOf(S) = SUBSET S
    BY <1>3, FS_FiniteSubsetsOfFinite
  <2>2. \A m \in S : Before(m) \subseteq S
    <3> SUFFICES ASSUME NEW m \in T, m <= b, NEW t \in T, t < m PROVE t <= b
      OBVIOUS
    <3>1. m \in Nat /\ t \in Nat /\ b \in Nat
      BY <1>0, <1>1
    <3> QED BY <3>1
  <2>3. Before(b) \in Befores
    BY <1>3
  <2> HIDE DEF S, Before
  <2>4. \A A \in Befores : A \in SUBSET S
    BY <2>2
  <2> QED BY <2>1, <2>3, <2>4
<1>5. PICK A \in Befores : \A B \in Befores : ~(<<B, A>> \in StrictSubsetOrdering(S))
  <2> HIDE DEF Befores, S
  <2> QED BY <1>3, <1>4, FS_StrictSubsetOrderingWellFounded, WFMin
<1>6. PICK m \in S : A = Before(m)
  OBVIOUS
<1>7. ASSUME NEW t \in T, t < m PROVE FALSE
  <2>1. t \in S /\ t \in A /\ t \notin Before(t)
    BY <1>6, <1>7
  <2>2. Before(t) \subseteq A /\ Before(t) # A
    <3>1. \A r \in Before(t) : r < m
      BY <1>7
    <3> QED BY <1>6, <2>1, <3>1
  <2>3. Before(t) \in Befores /\ A \subseteq S /\ Before(t) \subseteq S
    <3>1. Before(t) \in Befores
      BY <2>1
    <3>2. A \subseteq S
      BY <1>4, <1>5, FS_FiniteSubsetsOfFinite, <1>3
    <3> QED BY <2>2, <3>1, <3>2
  <2>4. <<Before(t), A>> \in StrictSubsetOrdering(S)
    BY <2>2, <2>3, <1>3, FS_Subset DEF StrictSubsetOrdering, FiniteSubsetsOf
  <2> QED BY <1>5, <2>3, <2>4
<1>8. \E x \in T : \A y \in T : x <= y
  <2>1. m \in T /\ \A y \in T : m <= y
    BY <1>7
  <2> QED BY <2>1
<1> HIDE DEF S
<1>9. Min(T) = CHOOSE x \in T : \A y \in T : x <= y
  BY DEF Min
<1> QED BY <1>8, <1>9, Zenon

\* The clock stops at the instants of the days.
LEMMA TimesOfDays ==
    /\ Times \subseteq Nat /\ Times # {}
    /\ \A t \in Times : \E d \in Days, m \in Instants : t = d * 1440 + m
    /\ Days \subseteq Nat
<1>1. Days \subseteq Nat /\ 1 \in Days
  <2>1. Cardinality(Days) \in Nat
    BY TriggersAssumption, FS_CardinalityType
  <2> DEFINE n == Cardinality(Days)
  <2>2. Days = 1..n /\ n \in Nat /\ 1 \in Days
    BY <2>1, TriggersAssumption
  <2> HIDE DEF n
  <2> QED BY <2>2
<1>2. Instants \subseteq Nat /\ 570 \in Instants
  BY DEF Instants
<1> QED BY <1>1, <1>2 DEF Times, DayLength

\* A run of the list, and the clock it was created by.
RunTyped(r) ==
    r = NoRun \/ (r = [created |-> r.created, work |-> r.work, session |-> r.session,
                       verdict |-> r.verdict, status |-> r.status, conclusion |-> r.conclusion]
                  /\ r.created \in Times)

TriggersInv ==
    /\ now \in Times
    /\ RunTyped(holder) /\ RunTyped(waiting)
    /\ faults \in Nat
    /\ dogs = [w \in Watchdogs |-> dogs[w]]

\* What is done to a run leaves the time of its creation.
LEMMA RunDone ==
    ASSUME NEW r, NEW x, RunTyped(r), r # NoRun
    PROVE  RunTyped([r EXCEPT !.conclusion = x])
  BY DEF RunTyped

LEMMA RunMoved ==
    ASSUME NEW r, NEW x, RunTyped(r), r # NoRun
    PROVE  RunTyped([r EXCEPT !.status = x])
  BY DEF RunTyped

LEMMA RunJudged ==
    ASSUME NEW r, NEW x, RunTyped(r), r # NoRun
    PROVE  RunTyped([r EXCEPT !.verdict = x])
  BY DEF RunTyped

LEMMA RunOfSession ==
    ASSUME NEW r, NEW x, RunTyped(r), r # NoRun
    PROVE  RunTyped([r EXCEPT !.session = x])
  BY DEF RunTyped

\* A run that ends, or enters the group, is one of the list still.
LEMMA RunLeft ==
    ASSUME NEW r, RunTyped(r), r # NoRun
    PROVE  (\A c : RunTyped(Done(r, c))) /\ RunTyped(Enter(r))
<1> DEFINE met == [r EXCEPT !.status = "completed"]
<1>1. RunTyped(met)
  BY RunMoved
<1>2. met # NoRun
  <2>1. met.status = "completed"
    BY DEF RunTyped
  <2> QED BY <2>1 DEF NoRun
<1>3. \A c : Done(r, c) = [met EXCEPT !.conclusion = c]
  BY DEF Done
<1> HIDE DEF met
<1>4. \A c : RunTyped(Done(r, c))
  BY <1>1, <1>2, <1>3, RunDone
<1>5. RunTyped([r EXCEPT !.status = "queued"])
  BY RunMoved
<1> QED BY <1>4, <1>5 DEF Enter

LEMMA NoRunIsNone == NoRun.status = "none"
  BY DEF NoRun

\* A run that is created carries the time.
LEMMA CreateHolds ==
    ASSUME TriggersInv, NEW work, Create(work)
    PROVE  RunTyped(holder') /\ RunTyped(waiting')
<1> DEFINE new == [created |-> now, work |-> work, session |-> 0, verdict |-> "",
                   status |-> "pending", conclusion |-> ""]
<1>1. RunTyped(new) /\ new # NoRun
  BY DEF TriggersInv, RunTyped, NoRun
<1>2. RunTyped(Enter(new))
  <2> HIDE DEF new
  <2> QED BY <1>1, RunLeft
<1> QED BY <1>1, <1>2 DEF Create, TriggersInv

LEMMA TriggersBegin == TriggersInit => TriggersInv
<1> SUFFICES ASSUME TriggersInit PROVE TriggersInv
  OBVIOUS
<1>1. Min(Times) \in Times
  <2>1. Times \subseteq Nat /\ Times # {}
    BY TimesOfDays
  <2> QED BY <2>1, FirstTime
<1> QED BY <1>1 DEF TriggersInit, TriggersInv, RunTyped

LEMMA TriggersStep == TriggersInv /\ [TriggersNext]_triggersVars => TriggersInv'
<1> SUFFICES ASSUME TriggersInv, [TriggersNext]_triggersVars PROVE TriggersInv'
  OBVIOUS
<1>1. CASE Advance
  <2> DEFINE later == {t \in Times : t > now}
  <2>1. later \subseteq Nat /\ later # {}
    <3>1. later # {}
      BY <1>1, Zenon DEF Advance
    <3>2. Times \subseteq Nat
      BY TimesOfDays
    <3> HIDE DEF Times
    <3> QED BY <3>1, <3>2
  <2>2. Min(later) \in later
    <3> HIDE DEF later
    <3> QED BY <2>1, FirstTime
  <2>3. now' \in Times
    BY <1>1, <2>2 DEF Advance
  <2> QED BY <1>1, <2>3 DEF Advance, TriggersInv, runs
<1>2. CASE RunComputes
  <2>1. holder # NoRun
    BY <1>2, NoRunIsNone DEF RunComputes
  <2>2. \E verdict : holder' = [holder EXCEPT !.verdict = verdict]
    BY <1>2 DEF RunComputes
  <2>3. RunTyped(holder')
    BY <2>1, <2>2, RunJudged DEF TriggersInv
  <2> QED BY <1>2, <2>3 DEF RunComputes, TriggersInv
<1>3. ASSUME NEW t \in Triggers, Trigger(t) PROVE TriggersInv'
  <2>1. \E work : Create(work)
    BY <1>3 DEF Trigger
  <2> QED BY <1>3, <2>1, CreateHolds DEF Trigger, TriggersInv
<1>4. CASE RunStarts
  <2>1. holder # NoRun
    BY <1>4, NoRunIsNone DEF RunStarts
  <2> DEFINE met == [holder EXCEPT !.status = "in_progress"]
  <2>2. RunTyped(met)
    BY <2>1, RunMoved DEF TriggersInv
  <2>3. met # NoRun
    <3>1. met.status = "in_progress"
      BY <2>1 DEF TriggersInv, RunTyped
    <3> QED BY <3>1 DEF NoRun
  <2>4. holder' = [met EXCEPT !.session = Latest]
    BY <1>4 DEF RunStarts
  <2> HIDE DEF met
  <2>5. RunTyped(holder')
    BY <2>2, <2>3, <2>4, RunOfSession
  <2> QED BY <1>4, <2>5 DEF RunStarts, TriggersInv
<1>5. ASSUME NEW c, Ends(c), faults' \in Nat PROVE TriggersInv'
  <2>1. holder # NoRun
    BY <1>5, NoRunIsNone DEF Ends
  <2>2. RunTyped(Done(holder, c))
    BY <2>1, RunLeft DEF TriggersInv
  <2>3. waiting # NoRun => RunTyped(Enter(waiting))
    BY RunLeft DEF TriggersInv
  <2>4. RunTyped(holder') /\ RunTyped(waiting')
    BY <1>5, <2>2, <2>3 DEF Ends, RunTyped
  <2> QED BY <1>5, <2>4 DEF Ends, TriggersInv
<1>6. CASE RunReports \/ RunFindsFinal \/ RunAlerts \/ RunUnclaimed \/ RunKilled
  <2>1. \E c : Ends(c)
    BY <1>6 DEF RunKilled, RunReports, RunFindsFinal, RunAlerts, RunUnclaimed
  <2>2. Fault \/ faults' = faults
    BY <1>6 DEF RunKilled, RunReports, RunFindsFinal, RunAlerts, RunUnclaimed
  <2>3. faults' \in Nat
    BY <2>2 DEF Fault, TriggersInv
  <2> QED BY <1>5, <2>1, <2>3
<1>7. ASSUME NEW w \in Watchdogs, Check(w) PROVE TriggersInv'
  BY <1>7 DEF Check, Fault, TriggersInv, runs
<1>8. ASSUME NEW w \in Watchdogs, Post(w) PROVE TriggersInv'
  <2>1. RunTyped(holder') /\ RunTyped(waiting')
    <3>1. Create("report") \/ UNCHANGED runs
      BY <1>8 DEF Post
    <3> QED BY <3>1, CreateHolds DEF runs, TriggersInv
  <2>2. faults' \in Nat /\ now' = now
    BY <1>8 DEF Post, Fault, TriggersInv
  <2>3. dogs' = [v \in Watchdogs |-> dogs'[v]]
    BY <1>8 DEF Post, TriggersInv
  <2> QED BY <2>1, <2>2, <2>3 DEF TriggersInv
<1>9. CASE UNCHANGED triggersVars
  BY <1>9 DEF triggersVars, runs, TriggersInv
<1> QED BY <1>1, <1>2, <1>3, <1>4, <1>6, <1>7, <1>8, <1>9 DEF TriggersNext, RunWorks

-----------------------------------------------------------------------------
(***************************************************************************)
(* The minutes of a day of the calendar, and the close of its session.     *)
(***************************************************************************)
LEMMA TimeOfDay ==
    ASSUME NEW t \in Times
    PROVE  /\ t \in Nat /\ t \div 1440 \in Days /\ t % 1440 \in Instants
           /\ t = (t \div 1440) * 1440 + (t % 1440)
<1>1. PICK d \in Days, m \in Instants : t = d * 1440 + m
  BY TimesOfDays
<1>2. d \in Nat /\ m \in Nat /\ m < 1440
  BY TimesOfDays DEF Instants
<1>3. t \div 1440 = d /\ t % 1440 = m
  BY <1>1, <1>2
<1> QED BY <1>1, <1>2, <1>3

LEMMA SessionOfDay ==
    ASSUME TriggersInv, Day \in TradingDays
    PROVE  Latest = Day
<1> DEFINE S == {s \in TradingDays : ClosedAt(s) <= now}
<1>1. /\ now \in Nat /\ Day \in Nat /\ Minute \in Nat /\ now = Day * 1440 + Minute
      /\ Minute >= 570 /\ Minute < 1440
  <2>1. now % 1440 \in Nat /\ now % 1440 >= 570 /\ now % 1440 < 1440
    <3>1. now % 1440 \in Instants
      BY TimeOfDay DEF TriggersInv
    <3> QED BY <3>1 DEF Instants
  <2> QED BY <2>1, TimeOfDay, TimesOfDays DEF TriggersInv, Day, Minute, DayLength
<1>2. Day \in S
  BY <1>1 DEF ClosedAt, DayLength, Close
<1>3. ASSUME NEW s \in S PROVE Day >= s
  <2>1. s \in Nat /\ s * 1440 + 420 <= now
    BY TriggersAssumption, TimesOfDays DEF ClosedAt, DayLength, Close
  <2> QED BY <1>1, <2>1
<1>4. \A s \in S : s \in Nat
  BY TriggersAssumption, TimesOfDays
<1> HIDE DEF S
<1>5. \A x \in S : (\A y \in S : x >= y) => x = Day
  BY <1>1, <1>2, <1>3, <1>4
<1>6. Max(S) = Day
  BY <1>2, <1>3, <1>5, Zenon DEF Max
<1> QED BY <1>6 DEF Latest, S

\* Nothing but a watchdog's own check counts as one.
LEMMA WhoChecks ==
    ASSUME [TriggersNext]_triggersVars, NEW w \in Watchdogs, w \in fired' \ fired
    PROVE  Check(w)
<1>1. Watchdogs = {"worker", "vps"} /\ Triggers = {"upstream", "cron", "laterCron"}
  BY DEF Watchdogs, CheckAt, Triggers, DueAt
<1>2. ASSUME NEW t \in Triggers, Trigger(t) PROVE FALSE
  <2>1. fired' = fired \cup {t}
    BY <1>2 DEF Trigger
  <2> QED BY <1>1, <1>2, <2>1
<1>3. ASSUME NEW v \in Watchdogs, Check(v) PROVE Check(w)
  <2>1. fired' = fired \cup {v}
    BY <1>3 DEF Check
  <2> QED BY <1>3, <2>1
<1>4. Advance => fired' \subseteq fired
  BY DEF Advance
<1>5. RunWorks \/ RunKilled => fired' = fired
  BY DEF RunWorks, RunKilled, RunComputes, RunReports, RunFindsFinal, RunAlerts, RunUnclaimed, Ends
<1> QED BY <1>2, <1>3, <1>4, <1>5
        DEF TriggersNext, RunStarts, Post, triggersVars

\* The window of a watchdog that looks at a session starts after its close, and,
\* when it looks on time, before any run of that day could have been created.
LEMMA Windows ==
    ASSUME TriggersInv, Day \in TradingDays, NEW w \in Watchdogs, Check(w)
    PROVE  /\ now - Lookback[w] >= ClosedAt(Latest)
           /\ Minute <= CheckAt[w] + RandomDelay =>
                \A t \in Times : t >= ClosedAt(Latest) => t >= now - Lookback[w]
<1>1. /\ now \in Nat /\ Day \in Nat /\ Minute \in Instants /\ now = Day * 1440 + Minute
  BY TimeOfDay, TimesOfDays DEF TriggersInv, Day, Minute, DayLength
<1>0. \A t \in Times : t \in Nat
  BY TimesOfDays
<1>2. ClosedAt(Latest) = Day * 1440 + 420
  BY SessionOfDay DEF ClosedAt, DayLength, Close
<1>3. ASSUME NEW t \in Times, t >= Day * 1440 + 420 PROVE t >= Day * 1440 + 570
  <2>1. PICK d \in Days, m \in Instants : t = d * 1440 + m
    BY TimesOfDays
  <2>2. d \in Nat /\ m \in Nat /\ m >= 570 /\ m <= 1380
    BY TimesOfDays DEF Instants
  <2> QED BY <1>1, <1>3, <2>1, <2>2
<1>4. CASE w = "worker"
  <2>1. Lookback[w] = 90 /\ CheckAt[w] = 585 /\ Minute = 585
    BY <1>4 DEF Lookback, CheckAt, Check
  <2>2. now = Day * 1440 + 585
    BY <1>1, <2>1
  <2> QED BY <1>0, <1>1, <1>2, <1>3, <2>1, <2>2
<1>5. CASE w = "vps"
  <2>1. Lookback[w] = 240 /\ CheckAt[w] = 725 /\ Minute >= 725 /\ Minute \in Nat
    BY <1>1, <1>5 DEF Lookback, CheckAt, Check, Instants
  <2> QED BY <1>0, <1>1, <1>2, <1>3, <2>1 DEF RandomDelay
<1>6. Watchdogs = {"worker", "vps"}
  BY DEF Watchdogs, CheckAt
<1> QED BY <1>4, <1>5, <1>6

\* Both ends of the comparison are times.
LEMMA WindowTyped ==
    ASSUME TriggersInv, Day \in TradingDays, NEW w \in Watchdogs
    PROVE  now - Lookback[w] \in Int /\ ClosedAt(Latest) \in Int
<1>1. now \in Nat /\ Latest \in Nat
  BY SessionOfDay, TimesOfDays, TriggersAssumption DEF TriggersInv
<1>2. Lookback[w] \in Int
  BY DEF Watchdogs, CheckAt, Lookback
<1> QED BY <1>1, <1>2 DEF ClosedAt, DayLength, Close

\* Whatever the calendar, the delays and the faults, the window of a watchdog
\* that saw the list is this session's: it stays out only for a run created
\* since the close, and, when it is on time, for every such run that is active
\* or succeeded (_recent_run, reconcile_workflow, recentRun).
THEOREM WatchdogsJudgeRight == TriggersSpec => WatchdogsJudgeThisSession
<1>1. TriggersInv /\ [TriggersNext]_triggersVars =>
        \A w \in Watchdogs :
          (w \in fired' \ fired /\ Day \in TradingDays) =>
            /\ dogs'[w] = Off => Covered
            /\ (Covered /\ faults' = faults /\ Minute <= CheckAt[w] + RandomDelay)
                 => dogs'[w] = Off
  <2> SUFFICES ASSUME TriggersInv, [TriggersNext]_triggersVars, NEW w \in Watchdogs,
                      w \in fired' \ fired, Day \in TradingDays
               PROVE  /\ dogs'[w] = Off => Covered
                      /\ (Covered /\ faults' = faults /\ Minute <= CheckAt[w] + RandomDelay)
                           => dogs'[w] = Off
    OBVIOUS
  <2>1. Check(w)
    BY WhoChecks
  <2>2. PICK answered \in BOOLEAN : /\ dogs' = [dogs EXCEPT ![w] = Judged(w, answered)]
                                    /\ IF answered THEN UNCHANGED faults ELSE Fault
    BY <2>1 DEF Check
  <2>3. dogs'[w] = Judged(w, answered)
    BY <2>2 DEF TriggersInv
  <2>4. Off # 0
    BY DEF Off, MaxTries
  <2>5. /\ now - Lookback[w] >= ClosedAt(Latest)
        /\ Minute <= CheckAt[w] + RandomDelay =>
             \A t \in Times : t >= ClosedAt(Latest) => t >= now - Lookback[w]
    BY <2>1, Windows
  <2>6. Newest # NoRun => Newest.created \in Times
    BY DEF TriggersInv, RunTyped, Newest
  <2>7. ASSUME dogs'[w] = Off PROVE Covered
    <3>1. Newest # NoRun /\ Newest.created >= now - Lookback[w] /\ ActiveOrSuccess(Newest)
      BY <2>3, <2>4, <2>7 DEF Judged, Recent
    <3>2. Newest.created >= ClosedAt(Latest)
      <4>1. /\ Newest.created \in Int /\ ClosedAt(Latest) \in Int
            /\ now - Lookback[w] \in Int
        <5>1. \A t \in Times : t \in Int
          BY TimesOfDays
        <5> QED BY <2>6, <3>1, <5>1, WindowTyped
      <4> QED BY <2>5, <3>1, <4>1
    <3> QED BY <3>1, <3>2 DEF Covered, SinceClose
  <2>8. ASSUME Covered, faults' = faults, Minute <= CheckAt[w] + RandomDelay
        PROVE  dogs'[w] = Off
    <3>1. answered
      BY <2>2, <2>8 DEF Fault, TriggersInv
    <3>2. Newest # NoRun /\ Newest.created >= ClosedAt(Latest) /\ ActiveOrSuccess(Newest)
      BY <2>8 DEF Covered, SinceClose
    <3>3. Newest \in Recent(w)
      BY <2>5, <2>6, <2>8, <3>2 DEF Recent
    <3> QED BY <2>3, <3>1, <3>2, <3>3 DEF Judged
  <2> QED BY <2>7, <2>8
<1> QED BY <1>1, TriggersBegin, TriggersStep, PTL DEF TriggersSpec, WatchdogsJudgeThisSession
=============================================================================
