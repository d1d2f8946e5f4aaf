------------------------- MODULE D1CollectionProofs -------------------------
(***************************************************************************)
(* Theorems about D1Collection, for any markets, number of runs, length of *)
(* the calendar, activation window and faults.                             *)
(***************************************************************************)
EXTENDS D1Collection, TLAPS

(***************************************************************************)
(* The put and the calendar.                                               *)
(***************************************************************************)
LEMMA PutFacts ==
    ASSUME NEW current, NEW content, NEW mayFail \in BOOLEAN, content # Absent,
           NEW put \in PutResults(current, content, mayFail)
    PROVE  /\ put.object \in {current, content}
           /\ current # Absent => put.object = current
           /\ put.status # "ERROR" => put.object = content
           /\ put.status = "CREATED" => current = Absent
           /\ put.status \in {"CREATED", "IDEMPOTENT_REPLAY", "ERROR"}
  BY DEF PutResults, PutVerdict, Linked

LEMMA CompletedIsSession == \A t \in Instants : Completed(t) \in Sessions
  BY CollectionAssumption DEF Instants, Completed, Sessions

\* An instant inside a collection window is the close of its session.
LEMMA OpenWindowIsClose == \A t \in Instants : WindowOpen(t) => t = 2 * Completed(t)
  BY CollectionAssumption DEF Instants, WindowOpen, Completed

LEMMA RunIsSnapshot == \A r \in Runs : r \in Snapshots /\ r # Absent /\ r # Imported
  BY CollectionAssumption DEF Snapshots

-----------------------------------------------------------------------------
(***************************************************************************)
(* Type correctness. A run that was started has a market and an instant    *)
(* that has passed, and one that reads back had its pointer accepted.      *)
(***************************************************************************)
StartedOK ==
    \A r \in Runs :
        /\ pc[r] # Idle => market[r] \in Markets /\ at[r] <= clock[market[r]]
        /\ pc[r] \in {"commitReadBack", "readBack"} => verdict[r] \in {"CREATED", "IDEMPOTENT_REPLAY"}

TypeInv == TypeOK /\ StartedOK

LEMMA InitTypeInv == Init => TypeInv
  <1> SUFFICES ASSUME Init PROVE TypeInv  OBVIOUS
  <1>1. 0 \in Instants /\ 0 \in Sessions
    BY CollectionAssumption DEF Instants, Sessions
  <1> QED
    BY <1>1, CollectionAssumption DEF Init, Idle, TypeInv, TypeOK, StartedOK, Snapshots, Statuses, Reasons

LEMMA StepTypeInv == TypeInv /\ [Next]_vars => TypeInv'
  <1> SUFFICES ASSUME TypeInv, [Next]_vars PROVE TypeInv'  OBVIOUS
  <1> USE DEF TypeInv, TypeOK, StartedOK, Goto, Finish, store, run, Idle
  <1>1. CASE UNCHANGED vars
    BY <1>1 DEF vars
  <1>2. ASSUME NEW m \in Markets, Tick(m) PROVE TypeInv'
    <2>1. clock' = [clock EXCEPT ![m] = clock[m] + 1] /\ clock[m] + 1 \in Instants
      <3>1. clock[m] \in Instants /\ Horizon[m] \in Instants
        BY <1>2, CollectionAssumption
      <3> QED  BY <1>2, <3>1, CollectionAssumption DEF Tick, Instants
    <2>2. UNCHANGED <<store, pc, run>>
      BY <1>2 DEF Tick
    <2>3. \A n \in Markets : clock[n] <= clock'[n]
      BY <2>1, CollectionAssumption DEF Instants
    <2>4. StartedOK'
      BY <2>1, <2>2, <2>3, CollectionAssumption DEF Instants
    <2>5. TypeOK'
      BY <2>1, <2>2
    <2> QED  BY <2>4, <2>5
  <1>3. ASSUME NEW m \in Markets, Activate(m) PROVE TypeInv'
    BY <1>3 DEF Activate
  <1>4. ASSUME NEW r \in Runs, NEW m \in Markets, Start(r, m) PROVE TypeInv'
    <2>1. clock[m] <= clock[m]
      BY CollectionAssumption DEF Instants
    <2>2. TypeOK'
      <3>1. clock[m] \in Instants
        OBVIOUS
      <3>2. /\ market' \in [Runs -> Markets \cup {Absent}] /\ at' \in [Runs -> Instants]
            /\ UNCHANGED <<clock, store, seen, verdict>>
        BY <1>4, <3>1 DEF Start
      <3>3. /\ pc' \in [Runs -> Calls \cup {Idle, "done", "crashed"}]
            /\ status' \in [Runs -> Statuses] /\ reason' \in [Runs -> Reasons]
        BY <1>4, ZenonT(60) DEF Start, Calls, Statuses, Reasons
      <3> QED  BY <3>2, <3>3
    <2>3. StartedOK'
      BY <1>4, <2>1, SMTT(30) DEF Start, Calls
    <2> QED  BY <2>2, <2>3
  <1>5. ASSUME NEW r \in Runs, LoadSession(r) PROVE TypeInv'
    BY <1>5, ZenonT(60) DEF LoadSession, Calls, Statuses, Reasons
  <1>6. ASSUME NEW r \in Runs, ReadActivation(r) PROVE TypeInv'
    BY <1>6, ZenonT(60) DEF ReadActivation, Calls, Statuses, Reasons
  <1>7. ASSUME NEW r \in Runs, Scan(r) PROVE TypeInv'
    BY <1>7, ZenonT(60) DEF Scan, Calls, Statuses, Reasons
  <1>8. ASSUME NEW r \in Runs, Gate(r) PROVE TypeInv'
    BY <1>8, ZenonT(60) DEF Gate, Calls, Statuses, Reasons
  <1>9. ASSUME NEW r \in Runs, Collect(r) PROVE TypeInv'
    BY <1>9, ZenonT(60) DEF Collect, Calls, Statuses, Reasons
  <1>10. ASSUME NEW r \in Runs, PutObject(r) PROVE TypeInv'
    <2>1. PICK put \in PutResults(IF r \in objects THEN r ELSE Absent, r, StorageMayFail) :
             /\ objects' = objects \cup ({put.object} \ {Absent})
             /\ IF put.status = "ERROR"
                  THEN Finish(r, "COLLECTION_FAILED", "STORE")
                  ELSE Goto(r, "putPointer") /\ UNCHANGED <<status, reason>>
      BY <1>10 DEF PutObject
    <2>2. put.object \in {Absent, r}
      BY RunIsSnapshot, CollectionAssumption, PutFacts
    <2>3. UNCHANGED <<clock, legacy, epoch, pointer, market, at, seen, verdict>>
      BY <1>10 DEF PutObject
    <2>4. pc[r] = "putObject"
      BY <1>10 DEF PutObject
    <2>5. objects' \subseteq Snapshots
      BY <2>1, <2>2, RunIsSnapshot, SMTT(30)
    <2>6. /\ pc' \in [Runs -> Calls \cup {Idle, "done", "crashed"}]
          /\ status' \in [Runs -> Statuses] /\ reason' \in [Runs -> Reasons]
      BY <2>1, ZenonT(60) DEF Calls, Statuses, Reasons
    <2>7. StartedOK'
      BY <2>1, <2>3, <2>4
    <2> QED  BY <2>3, <2>5, <2>6, <2>7
  <1>11. ASSUME NEW r \in Runs, PutPointer(r) PROVE TypeInv'
    <2>1. PICK put \in PutResults(pointer[market[r]][Session(r)], r, StorageMayFail) :
             /\ pointer' = [pointer EXCEPT ![market[r]][Session(r)] = put.object]
             /\ verdict' = [verdict EXCEPT ![r] = put.status]
             /\ IF put.status = "ERROR"
                  THEN Finish(r, "COLLECTION_FAILED", "STORE")
                  ELSE Goto(r, "commitReadBack") /\ UNCHANGED <<status, reason>>
      BY <1>11 DEF PutPointer
    <2>2. pc[r] = "putPointer" /\ UNCHANGED <<clock, legacy, epoch, objects, market, at, seen>>
      BY <1>11 DEF PutPointer
    <2>3. market[r] \in Markets /\ Session(r) \in Sessions
      BY <2>2, CompletedIsSession DEF Session
    <2>4. put.object \in Snapshots \cup {Absent} /\ put.status \in {"CREATED", "IDEMPOTENT_REPLAY", "ERROR"}
      BY <2>3, RunIsSnapshot, CollectionAssumption, PutFacts
    <2>5. pointer' \in [Markets -> [Sessions -> Snapshots \cup {Absent}]]
      BY <2>1, <2>3, <2>4
    <2>6. verdict' \in [Runs -> {"NONE", "CREATED", "IDEMPOTENT_REPLAY", "ERROR"}]
      BY <2>1, <2>4
    <2>7. /\ pc' \in [Runs -> Calls \cup {Idle, "done", "crashed"}]
          /\ status' \in [Runs -> Statuses] /\ reason' \in [Runs -> Reasons]
      BY <2>1, ZenonT(60) DEF Calls, Statuses, Reasons
    <2>8. StartedOK'
      BY <2>1, <2>2, <2>4
    <2> QED  BY <2>2, <2>5, <2>6, <2>7, <2>8
  <1>12. ASSUME NEW r \in Runs, CommitReadBack(r) PROVE TypeInv'
    BY <1>12, ZenonT(60) DEF CommitReadBack, Calls, Statuses, Reasons
  <1>13. ASSUME NEW r \in Runs, ReadBack(r) PROVE TypeInv'
    <2>1. PICK st \in Statuses, why \in Reasons : Finish(r, st, why)
      <3>1. (IF verdict[r] = "CREATED" THEN "COMMITTED" ELSE verdict[r]) \in Statuses
        BY <1>13, SMTT(30) DEF ReadBack, Statuses
      <3> QED  BY <1>13, <3>1 DEF ReadBack, Statuses, Reasons
    <2>2. UNCHANGED <<clock, store, market, at, seen, verdict>>
      BY <1>13 DEF ReadBack
    <2> QED  BY <1>13, <2>1, <2>2 DEF ReadBack
  <1>14. ASSUME NEW r \in Runs, Crash(r) PROVE TypeInv'
    BY <1>14, SMTT(30) DEF Crash, Active, Calls
  <1> QED
    BY <1>1, <1>2, <1>3, <1>4, <1>5, <1>6, <1>7, <1>8, <1>9, <1>10, <1>11, <1>12, <1>13, <1>14
    DEF Next, Call

\* Every reachable state of the collection is well typed, for any number of
\* runs, any calendar and any faults.
THEOREM TypeCorrect == Spec => []TypeOK
  <1>1. TypeInv => TypeOK
    BY DEF TypeInv
  <1> QED  BY <1>1, InitTypeInv, StepTypeInv, PTL DEF Spec

-----------------------------------------------------------------------------
(***************************************************************************)
(* Evidence. Objects stay, pointers stay, a pointer to a run's snapshot is *)
(* that run's own and its object was there first; a receipt is written at  *)
(* the end, when the evidence it reports has been read.                    *)
(***************************************************************************)
OwnEvidence ==
    \A m \in Markets : \A s \in Sessions :
        pointer[m][s] \in Runs =>
            /\ pc[pointer[m][s]] \in {"commitReadBack", "readBack", "done", "crashed"}
            /\ market[pointer[m][s]] = m /\ Session(pointer[m][s]) = s

Progress ==
    \A r \in Runs :
        /\ pc[r] \in {"putPointer", "commitReadBack", "readBack"} => r \in objects
        /\ status[r] # "NONE" => pc[r] = "done"

EvidenceInv == PointerNamesAnObject /\ OwnEvidence /\ Progress /\ SuccessIsDurable

LEMMA InitEvidenceInv == Init => EvidenceInv
  <1> SUFFICES ASSUME Init PROVE EvidenceInv  OBVIOUS
  <1> USE DEF Init
  <1>1. PICK past \in Pasts :
          /\ pointer = [m \in Markets |-> [s \in Sessions |->
                          IF s = 0 /\ m \in past.foreign THEN Imported ELSE Absent]]
          /\ objects = IF past.foreign = {} THEN {} ELSE {Imported}
    OBVIOUS
  <1>2. PointerNamesAnObject
    BY <1>1 DEF PointerNamesAnObject
  <1>3. OwnEvidence
    BY <1>1, RunIsSnapshot DEF OwnEvidence
  <1>4. Progress /\ SuccessIsDurable
    BY DEF Progress, SuccessIsDurable, Successes, Idle
  <1> QED  BY <1>2, <1>3, <1>4 DEF EvidenceInv

\* A step of a run that touches neither pointers nor objects and reports
\* success only of a session it has just read.
LEMMA EvidenceFrame ==
    ASSUME TypeInv, EvidenceInv, NEW r \in Runs, NEW call,
           Goto(r, call), UNCHANGED <<pointer, objects, market, at>>,
           pc[r] \notin {"done", "crashed"},
           pc[r] \in {"commitReadBack", "readBack"} => call \in {"readBack", "done", "crashed"},
           call \in {"putPointer", "commitReadBack", "readBack"} => r \in objects,
           \/ UNCHANGED status
           \/ /\ call = "done"
              /\ \E st : /\ status' = [status EXCEPT ![r] = st]
                         /\ st = "COMMITTED" => pointer[market[r]][Session(r)] = r
                         /\ st \in Successes => Readable(market[r], Session(r))
    PROVE  EvidenceInv'
  <1> USE DEF TypeInv, TypeOK, Goto
  <1>1. PointerNamesAnObject'
    BY DEF EvidenceInv, PointerNamesAnObject
  <1>2. OwnEvidence'
    BY DEF EvidenceInv, OwnEvidence, Session
  <1>3. Progress'
    BY DEF EvidenceInv, Progress
  <1>4. SuccessIsDurable'
    BY DEF EvidenceInv, SuccessIsDurable, Session, Readable, Successes
  <1> QED  BY <1>1, <1>2, <1>3, <1>4 DEF EvidenceInv

LEMMA StepEvidenceInv == TypeInv /\ EvidenceInv /\ [Next]_vars => EvidenceInv'
  <1> SUFFICES ASSUME TypeInv, EvidenceInv, [Next]_vars PROVE EvidenceInv'
    OBVIOUS
  <1> USE DEF store, run
  <1>1. CASE UNCHANGED vars
    BY <1>1 DEF vars, EvidenceInv, PointerNamesAnObject, OwnEvidence, Progress,
                SuccessIsDurable, Readable, Session
  <1>2. ASSUME NEW m \in Markets, Tick(m) \/ Activate(m) PROVE EvidenceInv'
    BY <1>2 DEF Tick, Activate, EvidenceInv, PointerNamesAnObject, OwnEvidence, Progress,
                SuccessIsDurable, Readable, Session
  <1>3. ASSUME NEW r \in Runs, NEW m \in Markets, Start(r, m) PROVE EvidenceInv'
    <2>1. pc[r] = Idle /\ UNCHANGED <<pointer, objects>>
      BY <1>3 DEF Start, MayStart
    <2>2. status[r] = "NONE"
      BY <2>1 DEF EvidenceInv, Progress, Idle
    <2>3. /\ \A q \in Runs \ {r} : UNCHANGED <<pc[q], market[q], at[q], status[q]>>
          /\ pc'[r] \in {"load", "done"}
          /\ status'[r] \in {"NONE", "SESSION_RESOLUTION_ERROR"} /\ (status'[r] # "NONE" => pc'[r] = "done")
      BY <1>3, <2>2 DEF Start, Goto, Finish, TypeInv, TypeOK
    <2>4. \A n \in Markets : \A s \in Sessions : pointer[n][s] # r
      BY <2>1 DEF EvidenceInv, OwnEvidence, Idle
    <2>5. PointerNamesAnObject'
      BY <2>1 DEF EvidenceInv, PointerNamesAnObject
    <2>6. OwnEvidence'
      BY <2>1, <2>3, <2>4 DEF EvidenceInv, OwnEvidence, Session
    <2>7. Progress'
      BY <2>1, <2>3 DEF EvidenceInv, Progress
    <2>8. SuccessIsDurable'
      BY <2>1, <2>3 DEF EvidenceInv, SuccessIsDurable, Session, Readable, Successes
    <2> QED  BY <2>5, <2>6, <2>7, <2>8 DEF EvidenceInv
  <1>4. ASSUME NEW r \in Runs, LoadSession(r) PROVE EvidenceInv'
    BY <1>4, EvidenceFrame DEF LoadSession, Finish, Successes
  <1>5. ASSUME NEW r \in Runs, ReadActivation(r) PROVE EvidenceInv'
    BY <1>5, EvidenceFrame DEF ReadActivation, Finish, Successes
  <1>6. ASSUME NEW r \in Runs, Scan(r) PROVE EvidenceInv'
    BY <1>6, EvidenceFrame DEF Scan, Finish, Successes
  <1>7. ASSUME NEW r \in Runs, Gate(r) PROVE EvidenceInv'
    BY <1>7, EvidenceFrame DEF Gate, Finish, Successes
  <1>8. ASSUME NEW r \in Runs, Collect(r) PROVE EvidenceInv'
    BY <1>8, EvidenceFrame DEF Collect, Finish, Successes
  <1>9. ASSUME NEW r \in Runs, PutObject(r) PROVE EvidenceInv'
    <2>1. PICK put \in PutResults(IF r \in objects THEN r ELSE Absent, r, StorageMayFail) :
             /\ objects' = objects \cup ({put.object} \ {Absent})
             /\ IF put.status = "ERROR"
                  THEN Finish(r, "COLLECTION_FAILED", "STORE")
                  ELSE Goto(r, "putPointer") /\ UNCHANGED <<status, reason>>
      BY <1>9 DEF PutObject
    <2>2. pc[r] = "putObject" /\ UNCHANGED <<pointer, market, at>>
      BY <1>9 DEF PutObject
    <2>3. objects \subseteq objects' /\ (put.status # "ERROR" => r \in objects')
      BY <2>1, RunIsSnapshot, CollectionAssumption, PutFacts
    <2>4. PointerNamesAnObject'
      BY <2>2, <2>3 DEF EvidenceInv, PointerNamesAnObject
    <2>5. OwnEvidence'
      <3>1. \A q \in Runs \ {r} : pc'[q] = pc[q]
        BY <2>1 DEF Finish, Goto, TypeInv, TypeOK
      <3>2. \A n \in Markets : \A s \in Sessions : pointer[n][s] # r
        BY <2>2 DEF EvidenceInv, OwnEvidence
      <3> QED  BY <2>2, <3>1, <3>2 DEF EvidenceInv, OwnEvidence, Session
    <2>6. Progress'
      BY <2>1, <2>2, <2>3 DEF EvidenceInv, Progress, Finish, Goto, TypeInv, TypeOK
    <2>7. SuccessIsDurable'
      BY <2>1, <2>2, <2>3 DEF EvidenceInv, SuccessIsDurable, Session, Readable, Successes,
                              Finish, TypeInv, TypeOK
    <2> QED  BY <2>4, <2>5, <2>6, <2>7 DEF EvidenceInv
  <1>10. ASSUME NEW r \in Runs, PutPointer(r) PROVE EvidenceInv'
    <2> DEFINE m == market[r]  s == Completed(at[r])
    <2>1. PICK put \in PutResults(pointer[m][s], r, StorageMayFail) :
             /\ pointer' = [pointer EXCEPT ![m][s] = put.object]
             /\ IF put.status = "ERROR"
                  THEN Finish(r, "COLLECTION_FAILED", "STORE")
                  ELSE Goto(r, "commitReadBack") /\ UNCHANGED <<status, reason>>
      BY <1>10 DEF PutPointer, Session
    <2>2. pc[r] = "putPointer" /\ UNCHANGED <<objects, market, at>>
      BY <1>10 DEF PutPointer
    <2>3. m \in Markets /\ s \in Sessions /\ r \in objects
      BY <2>2, CompletedIsSession DEF EvidenceInv, Progress, TypeInv, TypeOK, StartedOK, Idle
    <2>4. /\ put.object \in {pointer[m][s], r}
          /\ pointer[m][s] # Absent => put.object = pointer[m][s]
      BY RunIsSnapshot, CollectionAssumption, PutFacts
    <2>5. /\ \A n \in Markets : \A t \in Sessions :
                <<n, t>> # <<m, s>> => pointer'[n][t] = pointer[n][t]
          /\ pointer'[m][s] = put.object
      BY <2>1, <2>3 DEF TypeInv, TypeOK
    <2>6. \A n \in Markets : \A t \in Sessions :
             pointer[n][t] # Absent => pointer'[n][t] = pointer[n][t]
      BY <2>4, <2>5
    <2>7. PointerNamesAnObject'
      BY <2>2, <2>3, <2>4, <2>5 DEF EvidenceInv, PointerNamesAnObject
    <2>8. pc' = [pc EXCEPT ![r] = pc'[r]] /\ pc'[r] \in {"commitReadBack", "done"}
      BY <2>1 DEF Finish, Goto, TypeInv, TypeOK
    <2>9. OwnEvidence'
      <3> SUFFICES ASSUME NEW n \in Markets, NEW t \in Sessions, pointer'[n][t] \in Runs
                   PROVE  /\ pc'[pointer'[n][t]] \in {"commitReadBack", "readBack", "done", "crashed"}
                          /\ market[pointer'[n][t]] = n /\ Completed(at[pointer'[n][t]]) = t
        BY <2>2 DEF OwnEvidence, Session
      <3>1. CASE pointer'[n][t] = r /\ n = m /\ t = s
        <4>1. pc'[r] \in {"commitReadBack", "done"}
          BY <2>8
        <4> QED  BY <3>1, <4>1
      <3>2. CASE pointer'[n][t] = pointer[n][t]
        <4> DEFINE q == pointer[n][t]
        <4>1. q \in Runs /\ pc[q] \in {"commitReadBack", "readBack", "done", "crashed"}
              /\ market[q] = n /\ Completed(at[q]) = t
          BY <3>2 DEF EvidenceInv, OwnEvidence, Session
        <4>2. pc'[q] = pc[q] \/ pc'[q] \in {"commitReadBack", "done"}
          BY <2>8, <4>1 DEF TypeInv, TypeOK
        <4> QED  BY <3>2, <4>1, <4>2
      <3> QED  BY <2>4, <2>5, <3>1, <3>2
    <2>10. Progress'
      BY <2>1, <2>2, <2>3 DEF EvidenceInv, Progress, Finish, Goto, TypeInv, TypeOK
    <2>11. SuccessIsDurable'
      <3> SUFFICES ASSUME NEW q \in Runs, status'[q] \in Successes
                   PROVE  /\ status'[q] = "COMMITTED" => pointer'[market[q]][Completed(at[q])] = q
                          /\ pointer'[market[q]][Completed(at[q])] \in objects
        BY <2>2 DEF SuccessIsDurable, Session, Readable, Successes
      <3>1. status'[q] = status[q]
        BY <2>1 DEF Finish, Successes, TypeInv, TypeOK
      <3>2. pc[q] = "done"
        BY <3>1 DEF EvidenceInv, Progress, Successes
      <3>3. market[q] \in Markets /\ Completed(at[q]) \in Sessions
        BY <3>2, CompletedIsSession DEF TypeInv, TypeOK, StartedOK, Idle
      <3>4. /\ status[q] = "COMMITTED" => pointer[market[q]][Completed(at[q])] = q
            /\ pointer[market[q]][Completed(at[q])] \in objects
        BY <3>1 DEF EvidenceInv, SuccessIsDurable, Session, Readable
      <3>5. Absent \notin objects
        BY CollectionAssumption DEF TypeInv, TypeOK
      <3> QED  BY <2>6, <3>1, <3>3, <3>4, <3>5
    <2> QED  BY <2>7, <2>9, <2>10, <2>11 DEF EvidenceInv
  <1>11. ASSUME NEW r \in Runs, CommitReadBack(r) PROVE EvidenceInv'
    BY <1>11, EvidenceFrame DEF CommitReadBack, Finish, Successes, EvidenceInv, Progress
  <1>12. ASSUME NEW r \in Runs, ReadBack(r) PROVE EvidenceInv'
    BY <1>12, EvidenceFrame DEF ReadBack, Finish, Successes, EvidenceInv, Progress
  <1>13. ASSUME NEW r \in Runs, Crash(r) PROVE EvidenceInv'
    BY <1>13, EvidenceFrame DEF Crash, Active, Calls
  <1> QED
    BY <1>1, <1>2, <1>3, <1>4, <1>5, <1>6, <1>7, <1>8, <1>9, <1>10, <1>11, <1>12, <1>13 DEF Next, Call

LEMMA EvidenceInvariant == Spec => [](TypeInv /\ EvidenceInv)
  BY InitTypeInv, StepTypeInv, InitEvidenceInv, StepEvidenceInv, PTL DEF Spec

\* A pointer never names a missing object, so a session that was ever bound
\* stays readable, whatever crashed or lost its receipt.
THEOREM PointersReadable == Spec => []PointerNamesAnObject
  <1>1. EvidenceInv => PointerNamesAnObject
    BY DEF EvidenceInv
  <1> QED  BY <1>1, EvidenceInvariant, PTL

\* A receipt that reports success is about durable, readable evidence, and a
\* receipt that reports COMMITTED is about the reporter's own.
THEOREM SuccessDurable == Spec => []SuccessIsDurable
  <1>1. EvidenceInv => SuccessIsDurable
    BY DEF EvidenceInv
  <1> QED  BY <1>1, EvidenceInvariant, PTL

-----------------------------------------------------------------------------
(***************************************************************************)
(* Prospective evidence. A run past the activation check was started in    *)
(* the collection window of a session its market's record admits, and the  *)
(* record is never taken back.                                             *)
(***************************************************************************)
Admitted(r) ==
    /\ epoch[market[r]] # Absent
    /\ InActivationWindow(market[r], Session(r))
    /\ WindowOpen(at[r])

Admission ==
    \A r \in Runs :
        pc[r] \in {"scan", "gate", "collect", "putObject", "putPointer"} => Admitted(r)

ProspectiveInv == Admission /\ EvidenceIsProspective

LEMMA InitProspectiveInv == Init => ProspectiveInv
  BY RunIsSnapshot DEF Init, ProspectiveInv, Admission, EvidenceIsProspective, Idle

\* A step that moves one run on, past the checks or short of them.
LEMMA ProspectiveFrame ==
    ASSUME TypeInv, ProspectiveInv, NEW r \in Runs, NEW call,
           Goto(r, call), UNCHANGED <<epoch, pointer, market, at>>,
           call \in {"scan", "gate", "collect", "putObject", "putPointer"} => Admitted(r)
    PROVE  ProspectiveInv'
  <1> USE DEF TypeInv, TypeOK, Goto
  <1>1. Admission'
    BY DEF ProspectiveInv, Admission, Admitted, InActivationWindow, Session
  <1>2. EvidenceIsProspective'
    BY DEF ProspectiveInv, EvidenceIsProspective, InActivationWindow, Session
  <1> QED  BY <1>1, <1>2 DEF ProspectiveInv

LEMMA StepProspectiveInv ==
    TypeInv /\ EvidenceInv /\ ProspectiveInv /\ [Next]_vars => ProspectiveInv'
  <1> SUFFICES ASSUME TypeInv, EvidenceInv, ProspectiveInv, [Next]_vars
               PROVE  ProspectiveInv'
    OBVIOUS
  <1> USE DEF store, run
  <1>1. CASE UNCHANGED vars
    BY <1>1 DEF vars, ProspectiveInv, Admission, Admitted, EvidenceIsProspective,
                InActivationWindow, Session
  <1>2. ASSUME NEW m \in Markets, Tick(m) PROVE ProspectiveInv'
    BY <1>2 DEF Tick, ProspectiveInv, Admission, Admitted, EvidenceIsProspective,
                InActivationWindow, Session
  <1>3. ASSUME NEW m \in Markets, Activate(m) PROVE ProspectiveInv'
    <2>1. \A n \in Markets : epoch[n] # Absent => epoch'[n] = epoch[n]
      BY <1>3 DEF Activate, TypeInv, TypeOK
    <2>2. UNCHANGED <<pointer, pc, run>>
      BY <1>3 DEF Activate
    <2>3. \A r \in Runs : pc[r] # Idle => market[r] \in Markets
      BY DEF TypeInv, StartedOK
    <2>4. Admission'
      BY <2>1, <2>2, <2>3 DEF ProspectiveInv, Admission, Admitted, InActivationWindow, Session, Idle
    <2>5. EvidenceIsProspective'
      BY <2>1, <2>2 DEF ProspectiveInv, EvidenceIsProspective, InActivationWindow, Session
    <2> QED  BY <2>4, <2>5 DEF ProspectiveInv
  <1>4. ASSUME NEW r \in Runs, NEW m \in Markets, Start(r, m) PROVE ProspectiveInv'
    <2>1. pc[r] = Idle /\ UNCHANGED <<pointer, epoch>>
      BY <1>4 DEF Start, MayStart
    <2>2. /\ \A q \in Runs \ {r} : UNCHANGED <<pc[q], market[q], at[q]>>
          /\ pc'[r] \in {"load", "done"}
      BY <1>4 DEF Start, Goto, Finish, TypeInv, TypeOK
    <2>3. \A n \in Markets : \A s \in Sessions : pointer[n][s] # r
      BY <2>1 DEF EvidenceInv, OwnEvidence, Idle
    <2>4. Admission'
      BY <2>1, <2>2 DEF ProspectiveInv, Admission, Admitted, InActivationWindow, Session
    <2>5. EvidenceIsProspective'
      BY <2>1, <2>2, <2>3 DEF ProspectiveInv, EvidenceIsProspective, InActivationWindow, Session
    <2> QED  BY <2>4, <2>5 DEF ProspectiveInv
  <1>5. ASSUME NEW r \in Runs, LoadSession(r) PROVE ProspectiveInv'
    BY <1>5, ProspectiveFrame DEF LoadSession, Finish
  <1>6. ASSUME NEW r \in Runs, ReadActivation(r) PROVE ProspectiveInv'
    BY <1>6, ProspectiveFrame DEF ReadActivation, Finish, Admitted
  <1>7. ASSUME NEW r \in Runs, Scan(r) PROVE ProspectiveInv'
    BY <1>7, ProspectiveFrame DEF Scan, Finish, ProspectiveInv, Admission
  <1>8. ASSUME NEW r \in Runs, Gate(r) PROVE ProspectiveInv'
    BY <1>8, ProspectiveFrame DEF Gate, Finish, ProspectiveInv, Admission
  <1>9. ASSUME NEW r \in Runs, Collect(r) PROVE ProspectiveInv'
    BY <1>9, ProspectiveFrame DEF Collect, Finish, ProspectiveInv, Admission
  <1>10. ASSUME NEW r \in Runs, PutObject(r) PROVE ProspectiveInv'
    BY <1>10, ProspectiveFrame DEF PutObject, Finish, ProspectiveInv, Admission
  <1>11. ASSUME NEW r \in Runs, PutPointer(r) PROVE ProspectiveInv'
    <2> DEFINE m == market[r]  s == Completed(at[r])
    <2>1. PICK put \in PutResults(pointer[m][s], r, StorageMayFail) :
             /\ pointer' = [pointer EXCEPT ![m][s] = put.object]
             /\ IF put.status = "ERROR"
                  THEN Finish(r, "COLLECTION_FAILED", "STORE")
                  ELSE Goto(r, "commitReadBack")
      BY <1>11 DEF PutPointer, Session
    <2>2. pc[r] = "putPointer" /\ UNCHANGED <<epoch, market, at>>
      BY <1>11 DEF PutPointer
    <2>3. m \in Markets /\ s \in Sessions /\ at[r] = 2 * s
      BY <2>2, CompletedIsSession, OpenWindowIsClose
      DEF ProspectiveInv, Admission, Admitted, TypeInv, TypeOK, StartedOK, Idle
    <2>4. put.object \in {pointer[m][s], r}
      BY RunIsSnapshot, CollectionAssumption, PutFacts
    <2>5. \A n \in Markets : \A t \in Sessions :
             pointer'[n][t] = pointer[n][t] \/ (pointer'[n][t] = r /\ n = m /\ t = s)
      BY <2>1, <2>3, <2>4 DEF TypeInv, TypeOK
    <2>6. Admission'
      BY <2>1, <2>2 DEF ProspectiveInv, Admission, Admitted, InActivationWindow, Session,
                        Finish, Goto, TypeInv, TypeOK
    <2>7. EvidenceIsProspective'
      <3>1. epoch[m] # Absent /\ InActivationWindow(m, s)
        BY <2>2 DEF ProspectiveInv, Admission, Admitted, Session
      <3> QED  BY <2>2, <2>3, <2>5, <3>1
               DEF ProspectiveInv, EvidenceIsProspective, InActivationWindow, Session
    <2> QED  BY <2>6, <2>7 DEF ProspectiveInv
  <1>12. ASSUME NEW r \in Runs, CommitReadBack(r) PROVE ProspectiveInv'
    BY <1>12, ProspectiveFrame DEF CommitReadBack, Finish
  <1>13. ASSUME NEW r \in Runs, ReadBack(r) PROVE ProspectiveInv'
    BY <1>13, ProspectiveFrame DEF ReadBack, Finish
  <1>14. ASSUME NEW r \in Runs, Crash(r) PROVE ProspectiveInv'
    BY <1>14, ProspectiveFrame DEF Crash
  <1> QED
    BY <1>1, <1>2, <1>3, <1>4, <1>5, <1>6, <1>7, <1>8, <1>9, <1>10, <1>11, <1>12, <1>13, <1>14
    DEF Next, Call

\* No evidence is backfilled: whatever a market's pointers name was collected
\* by a run started inside the window of a session the activation admits.
THEOREM EvidenceProspective == Spec => []EvidenceIsProspective
  <1>1. ProspectiveInv => EvidenceIsProspective
    BY DEF ProspectiveInv
  <1> QED
    BY <1>1, EvidenceInvariant, InitProspectiveInv, StepProspectiveInv, PTL DEF Spec

-----------------------------------------------------------------------------
(***************************************************************************)
(* Foreign evidence is in the store from the start and its pointer stays,  *)
(* so no gate ever opens.                                                  *)
(***************************************************************************)
ForeignInv ==
    Imported \in objects =>
        /\ \E m \in Markets : pointer[m][0] = Imported
        /\ \A r \in Runs :
             pc[r] \notin {"collect", "putObject", "putPointer", "commitReadBack", "readBack"}
        /\ \A m \in Markets : \A s \in Sessions : pointer[m][s] \notin Runs

LEMMA InitForeignInv == Init => ForeignInv
  <1> SUFFICES ASSUME Init, Imported \in objects PROVE ForeignInv
    BY DEF ForeignInv
  <1>1. PICK past \in Pasts :
          /\ pointer = [m \in Markets |-> [s \in Sessions |->
                          IF s = 0 /\ m \in past.foreign THEN Imported ELSE Absent]]
          /\ objects = IF past.foreign = {} THEN {} ELSE {Imported}
    BY DEF Init
  <1>2. PICK m \in Markets : m \in past.foreign
    BY <1>1, CollectionAssumption
  <1>3. pointer[m][0] = Imported
    BY <1>1, <1>2, CollectionAssumption DEF Sessions
  <1>4. \A n \in Markets : \A s \in Sessions : pointer[n][s] \notin Runs
    BY <1>1, RunIsSnapshot
  <1>5. \A r \in Runs : pc[r] = Idle
    BY DEF Init
  <1> QED  BY <1>3, <1>4, <1>5 DEF ForeignInv, Idle

LEMMA StepForeignInv == TypeInv /\ ForeignInv /\ [Next]_vars => ForeignInv'
  <1> SUFFICES ASSUME TypeInv, ForeignInv, [Next]_vars, (Imported \in objects)'
               PROVE  ForeignInv'
    BY DEF ForeignInv
  <1> USE DEF store, run, TypeInv, TypeOK, ForeignInv, Goto, Finish
  <1>1. CASE UNCHANGED vars
    BY <1>1 DEF vars
  <1>2. ASSUME NEW m \in Markets, Tick(m) \/ Activate(m) PROVE ForeignInv'
    BY <1>2 DEF Tick, Activate
  <1>3. ASSUME NEW r \in Runs, NEW m \in Markets, Start(r, m) PROVE ForeignInv'
    BY <1>3 DEF Start
  <1>4. ASSUME NEW r \in Runs, LoadSession(r) \/ ReadActivation(r) \/ Scan(r) PROVE ForeignInv'
    BY <1>4 DEF LoadSession, ReadActivation, Scan
  <1>5. ASSUME NEW r \in Runs, Gate(r) PROVE ForeignInv'
    <2>1. Imported \in objects /\ UNCHANGED <<pointer, objects>>
      BY <1>5 DEF Gate
    <2>2. PICK m \in Markets : pointer[m][0] = Imported
      BY <2>1
    <2>3. Imported \in GateEvidence(r)
      BY <2>2, CollectionAssumption DEF GateEvidence, Evidence, Sessions, Snapshots
    <2>4. pc' = [pc EXCEPT ![r] = "done"]
      BY <1>5, <2>3 DEF Gate
    <2> QED  BY <2>1, <2>4
  <1>6. ASSUME NEW r \in Runs, Collect(r) PROVE ForeignInv'
    BY <1>6 DEF Collect
  <1>7. ASSUME NEW r \in Runs, PutObject(r) PROVE ForeignInv'
    <2>1. PICK put \in PutResults(IF r \in objects THEN r ELSE Absent, r, StorageMayFail) :
             objects' = objects \cup ({put.object} \ {Absent})
      BY <1>7 DEF PutObject
    <2>2. put.object \in {Absent, r}
      BY RunIsSnapshot, CollectionAssumption, PutFacts
    <2>3. Imported \in objects
      BY <2>1, <2>2, RunIsSnapshot
    <2> QED  BY <1>7, <2>3 DEF PutObject
  <1>8. ASSUME NEW r \in Runs, PutPointer(r) \/ CommitReadBack(r) \/ ReadBack(r) PROVE ForeignInv'
    BY <1>8 DEF PutPointer, CommitReadBack, ReadBack
  <1>9. ASSUME NEW r \in Runs, Crash(r) PROVE ForeignInv'
    BY <1>9 DEF Crash
  <1> QED
    BY <1>1, <1>2, <1>3, <1>4, <1>5, <1>6, <1>7, <1>8, <1>9 DEF Next, Call

\* Evidence of an earlier source contract in either market stops the evidence
\* of both: the two never meet in one store.
THEOREM ForeignEvidence == Spec => []ForeignEvidenceStopsCollection
  <1>1. ForeignInv => ForeignEvidenceStopsCollection
    BY DEF ForeignInv, ForeignEvidenceStopsCollection
  <1> QED
    BY <1>1, InitTypeInv, StepTypeInv, InitForeignInv, StepForeignInv, PTL DEF Spec

-----------------------------------------------------------------------------
(***************************************************************************)
(* The commit protocol implements SessionEvidence: a pointer put that took *)
(* effect binds, a success receipt reports, every other step stutters.     *)
(***************************************************************************)
LEMMA InitRefines == Init => SE!Init
  <1> SUFFICES ASSUME Init PROVE SE!Init  OBVIOUS
  <1>1. pointer \in [Markets -> [Sessions -> Snapshots \cup {Absent}]]
    BY InitTypeInv DEF TypeInv, TypeOK
  <1>2. Bound \in [Markets \X Sessions -> Snapshots \cup {Absent}]
    BY <1>1 DEF Bound
  <1>3. Reported = {}
    BY DEF Init, Reported, Successes
  <1> QED  BY <1>2, <1>3 DEF SE!Init

\* A step of r after which it has, or has not, reported its session.
LEMMA ReportRefines ==
    ASSUME TypeInv, EvidenceInv, NEW r \in Runs, pc[r] # "done", pc[r] # Idle,
           UNCHANGED <<pointer, market, at>>,
           \/ UNCHANGED status
           \/ \E st : /\ status' = [status EXCEPT ![r] = st]
                      /\ st \in Successes => Readable(market[r], Session(r))
    PROVE  [SE!Next]_(SE!vars)
  <1> USE DEF TypeInv, TypeOK
  <1>1. UNCHANGED Bound
    BY DEF Bound
  <1>2. \A q \in Runs : UNCHANGED Receipt(q)
    BY DEF Receipt, Session
  <1>3. status[r] = "NONE"
    BY DEF EvidenceInv, Progress
  <1>4. CASE status'[r] \notin Successes
    <2>1. \A q \in Runs : status'[q] \in Successes <=> status[q] \in Successes
      BY <1>3, <1>4 DEF Successes
    <2>2. UNCHANGED Reported
      BY <1>2, <2>1 DEF Reported
    <2> QED  BY <1>1, <2>2 DEF SE!vars
  <1>5. CASE status'[r] \in Successes
    <2> DEFINE k == <<market[r], Completed(at[r])>>
    <2>1. \A q \in Runs : status'[q] \in Successes <=> (status[q] \in Successes \/ q = r)
      BY <1>3, <1>5 DEF Successes
    <2>2. Reported' = Reported \cup {Receipt(r)}
      BY <1>2, <2>1 DEF Reported
    <2>3. market[r] \in Markets /\ Completed(at[r]) \in Sessions
      BY CompletedIsSession DEF StartedOK
    <2>4. Bound[k] = pointer[market[r]][Completed(at[r])]
      BY <2>3 DEF Bound
    <2>5. Bound[k] # Absent
      BY <1>3, <1>5, <2>4, CollectionAssumption DEF Readable, Session, Successes
    <2>6. Receipt(r) = <<k, Bound[k]>>
      BY <2>4 DEF Receipt, Session
    <2>7. k \in Markets \X Sessions
      BY <2>3
    <2>8. SE!Report(k)
      BY <1>1, <2>2, <2>5, <2>6 DEF SE!Report
    <2> QED  BY <2>7, <2>8 DEF SE!Next
  <1> QED  BY <1>4, <1>5

LEMMA StepRefines == TypeInv /\ TypeInv' /\ EvidenceInv /\ [Next]_vars => [SE!Next]_(SE!vars)
  <1> SUFFICES ASSUME TypeInv, TypeInv', EvidenceInv, [Next]_vars
               PROVE  [SE!Next]_(SE!vars)
    OBVIOUS
  <1> USE DEF store, run
  <1>1. ASSUME UNCHANGED <<pointer, market, at, status>> PROVE [SE!Next]_(SE!vars)
    BY <1>1 DEF SE!vars, Bound, Reported, Receipt, Session
  <1>2. ASSUME NEW m \in Markets, Tick(m) \/ Activate(m) PROVE [SE!Next]_(SE!vars)
    BY <1>1, <1>2 DEF Tick, Activate
  <1>3. ASSUME NEW r \in Runs, NEW m \in Markets, Start(r, m) PROVE [SE!Next]_(SE!vars)
    <2>1. UNCHANGED pointer /\ pc[r] = Idle /\ status[r] = "NONE"
      BY <1>3 DEF Start, MayStart, EvidenceInv, Progress, Idle
    <2>2. /\ \A q \in Runs \ {r} : UNCHANGED <<market[q], at[q], status[q]>>
          /\ status'[r] \in {"NONE", "SESSION_RESOLUTION_ERROR"}
      BY <1>3, <2>1 DEF Start, Finish, TypeInv, TypeOK
    <2>3. \A q \in Runs : status'[q] \in Successes <=> status[q] \in Successes
      BY <2>1, <2>2 DEF Successes
    <2>4. \A q \in Runs : status[q] \in Successes => UNCHANGED Receipt(q)
      BY <2>1, <2>2 DEF Receipt, Session, Successes
    <2>5. UNCHANGED Reported
      BY <2>3, <2>4 DEF Reported
    <2> QED  BY <2>1, <2>5 DEF Bound, SE!vars
  <1>4. ASSUME NEW r \in Runs, LoadSession(r) PROVE [SE!Next]_(SE!vars)
    BY <1>4, ReportRefines DEF LoadSession, Finish, Successes, Idle
  <1>5. ASSUME NEW r \in Runs, ReadActivation(r) \/ Scan(r) \/ Gate(r) PROVE [SE!Next]_(SE!vars)
    BY <1>5, ReportRefines DEF ReadActivation, Scan, Gate, Finish, Successes, Idle
  <1>6. ASSUME NEW r \in Runs, Collect(r) \/ PutObject(r) PROVE [SE!Next]_(SE!vars)
    BY <1>6, ReportRefines DEF Collect, PutObject, Finish, Successes, Idle
  <1>7. ASSUME NEW r \in Runs, PutPointer(r) PROVE [SE!Next]_(SE!vars)
    <2> DEFINE m == market[r]  s == Completed(at[r])  k == <<m, s>>
    <2>1. PICK put \in PutResults(pointer[m][s], r, StorageMayFail) :
             pointer' = [pointer EXCEPT ![m][s] = put.object]
      BY <1>7 DEF PutPointer, Session
    <2>2. /\ pc[r] = "putPointer" /\ UNCHANGED <<market, at>>
          /\ \/ UNCHANGED status
             \/ status' = [status EXCEPT ![r] = "COLLECTION_FAILED"]
      BY <1>7 DEF PutPointer, Finish
    <2>3. m \in Markets /\ s \in Sessions
      BY <2>2, CompletedIsSession DEF TypeInv, TypeOK, StartedOK, Idle
    <2>4. CASE pointer' = pointer
      BY <2>2, <2>4, ReportRefines DEF Successes, Idle
    <2>5. CASE pointer' # pointer
      <3>1. put.object \in {pointer[m][s], r} /\ (pointer[m][s] # Absent => put.object = pointer[m][s])
        BY RunIsSnapshot, CollectionAssumption, PutFacts
      <3>2. put.object # pointer[m][s]
        BY <2>1, <2>3, <2>5 DEF TypeInv, TypeOK
      <3>3. pointer[m][s] = Absent /\ put.object = r
        BY <3>1, <3>2
      <3>4. \A n \in Markets : \A t \in Sessions :
               pointer'[n][t] = IF <<n, t>> = k THEN r ELSE pointer[n][t]
        BY <2>1, <2>3, <3>3 DEF TypeInv, TypeOK
      <3>5. Bound[k] = Absent /\ k \in Markets \X Sessions
        BY <2>3, <3>3 DEF Bound
      <3>6. Bound' = [Bound EXCEPT ![k] = r]
        <4>1. ASSUME NEW j \in Markets \X Sessions
              PROVE  pointer'[j[1]][j[2]] = IF j = k THEN r ELSE pointer[j[1]][j[2]]
          <5>1. j[1] \in Markets /\ j[2] \in Sessions /\ j = <<j[1], j[2]>>
            BY <4>1
          <5>2. pointer'[j[1]][j[2]] = IF <<j[1], j[2]>> = k THEN r ELSE pointer[j[1]][j[2]]
            BY <3>4, <5>1
          <5> QED  BY <5>1, <5>2
        <4> QED  BY <4>1, <3>5 DEF Bound
      <3>7. \A q \in Runs : status'[q] \in Successes <=> status[q] \in Successes
        BY <2>2 DEF Successes, TypeInv, TypeOK, EvidenceInv, Progress
      <3>8. ASSUME NEW q \in Runs, status[q] \in Successes PROVE UNCHANGED Receipt(q)
        <4>1. pc[q] = "done"
          BY <3>8 DEF EvidenceInv, Progress, Successes
        <4>2. market[q] \in Markets /\ Completed(at[q]) \in Sessions
          BY <4>1, CompletedIsSession DEF TypeInv, TypeOK, StartedOK, Idle
        <4>3. pointer[market[q]][Completed(at[q])] # Absent
          BY <3>8, CollectionAssumption DEF EvidenceInv, SuccessIsDurable, Readable, Session,
                                            TypeInv, TypeOK
        <4> QED  BY <2>2, <3>3, <3>4, <4>2, <4>3 DEF Receipt, Session
      <3>9. UNCHANGED Reported
        BY <3>7, <3>8 DEF Reported
      <3>10. SE!Bind(k, r)
        <4>1. Bound'[k] = r
          BY <3>5, <3>6, Zenon DEF Bound
        <4> QED  BY <3>5, <3>6, <3>9, <4>1 DEF SE!Bind
      <3> QED  BY <3>5, <3>10, RunIsSnapshot DEF SE!Next
    <2> QED  BY <2>4, <2>5
  <1>8. ASSUME NEW r \in Runs, CommitReadBack(r) \/ ReadBack(r) PROVE [SE!Next]_(SE!vars)
    BY <1>8, ReportRefines DEF CommitReadBack, ReadBack, Finish, Successes, Idle
  <1>9. ASSUME NEW r \in Runs, Crash(r) PROVE [SE!Next]_(SE!vars)
    BY <1>1, <1>9 DEF Crash
  <1>10. CASE UNCHANGED vars
    BY <1>1, <1>10 DEF vars
  <1> QED
    BY <1>2, <1>3, <1>4, <1>5, <1>6, <1>7, <1>8, <1>9, <1>10 DEF Next, Call

\* The collector and its store keep the promise of SessionEvidence.
THEOREM EvidenceRefinement == Spec => ImplementsSessionEvidence
  BY InitRefines, StepRefines, EvidenceInvariant, PTL
  DEF Spec, ImplementsSessionEvidence, SE!Spec

=============================================================================
