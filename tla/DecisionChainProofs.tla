------------------------- MODULE DecisionChainProofs -------------------------
(***************************************************************************)
(* Theorems about DecisionChain, for any events, symbols, groups, limits,  *)
(* number of runs and length of the calendar.                              *)
(***************************************************************************)
EXTENDS DecisionChain, FiniteSetTheorems, WellFoundedInduction, TLAPS

(***************************************************************************)
(* What the capacity gate guarantees: a batch reserved in the order of the *)
(* ranking keeps the account within its limits.                            *)
(***************************************************************************)
LEMMA EventsAreFinite ==
    ASSUME NEW S, S \subseteq Events
    PROVE  IsFiniteSet(S) /\ Cardinality(S) \in Nat
  BY PortfolioAssumption, FS_Subset, FS_CardinalityType

\* A nonempty set of events has one that every other event of it precedes.
LEMMA LastRanked ==
    ASSUME NEW T, T \subseteq Events, T # {}
    PROVE  \E m \in T : \A t \in T \ {m} : Rank[t] < Rank[m]
<1> DEFINE Above(m) == {t \in T : Rank[m] < Rank[t]}
           Aboves == {Above(m) : m \in T}
<1>1. Aboves \subseteq FiniteSubsetsOf(Events) /\ Aboves # {}
  BY EventsAreFinite DEF FiniteSubsetsOf
<1>2. PICK A \in Aboves : \A B \in Aboves : ~(<<B, A>> \in StrictSubsetOrdering(Events))
  <2> HIDE DEF Aboves
  <2> QED BY <1>1, FS_StrictSubsetOrderingWellFounded, WFMin
<1>3. PICK m \in T : A = Above(m)
  OBVIOUS
<1>4. \A t \in T : ~(Rank[m] < Rank[t])
  <2> SUFFICES ASSUME NEW t \in T, Rank[m] < Rank[t] PROVE FALSE
    OBVIOUS
  <2>1. Rank[m] \in Nat /\ \A x \in T : Rank[x] \in Nat
    BY PortfolioAssumption
  <2>2. Above(t) \subseteq Above(m)
    BY <2>1
  <2>3. t \in Above(m) /\ t \notin Above(t)
    BY <2>1
  <2>4. <<Above(t), A>> \in StrictSubsetOrdering(Events)
    BY <2>2, <2>3, <1>3 DEF StrictSubsetOrdering
  <2> QED BY <2>4, <1>2
<1>5. \A t \in T \ {m} : Rank[t] < Rank[m]
  BY <1>4, PortfolioAssumption
<1> QED BY <1>5

\* Fewer reservations and positions stay within the limits.
LEMMA LimitsMonotone ==
    ASSUME NEW S, S \subseteq Events, WithinLimits(S), NEW T, T \subseteq S
    PROVE  WithinLimits(T)
<1>1. Cardinality(T) <= MaxUnits
  BY EventsAreFinite, FS_Subset, PortfolioAssumption DEF WithinLimits
<1>2. ASSUME NEW x \in T, GroupOf[x] # UnknownGroup
      PROVE  Cardinality(InGroup(T, GroupOf[x])) <= MaxGroupUnits
  <2> DEFINE g == GroupOf[x]
  <2>1. Cardinality(InGroup(S, g)) <= MaxGroupUnits
    BY <1>2 DEF WithinLimits
  <2>2. InGroup(S, g) \subseteq Events /\ InGroup(T, g) \subseteq InGroup(S, g)
    BY DEF InGroup
  <2>3. Cardinality(InGroup(T, g)) <= Cardinality(InGroup(S, g))
    BY <2>2, EventsAreFinite, FS_Subset
  <2>4. Cardinality(InGroup(T, g)) \in Nat /\ Cardinality(InGroup(S, g)) \in Nat
    BY <2>2, EventsAreFinite
  <2> QED BY <2>1, <2>3, <2>4, PortfolioAssumption
<1>3. OnePerSymbol(T)
  BY DEF WithinLimits, OnePerSymbol
<1> QED BY <1>1, <1>2, <1>3 DEF WithinLimits

\* PortfolioRiskEngine.reserve: what it admits, one candidate at a time, keeps
\* all it counted and all it reserved within the limits together.
THEOREM ReservationStaysWithin ==
    ASSUME NEW S, S \subseteq Events, WithinLimits(S),
           NEW C, C \subseteq Events,
           NEW G, IsReservation(S, C, G)
    PROVE  WithinLimits(S \cup G)
<1> DEFINE Before(c) == {g \in G : Rank[g] < Rank[c]}
<1>1. G \subseteq Events /\ \A c \in G : Admits(S \cup Before(c), c)
  BY DEF IsReservation
<1>2. Cardinality(S \cup G) <= MaxUnits
  <2>1. CASE G = {}
    BY <2>1 DEF WithinLimits
  <2>2. CASE G # {}
    <3>1. PICK m \in G : \A g \in G \ {m} : Rank[g] < Rank[m]
      BY <1>1, <2>2, LastRanked
    <3>2. S \cup G = (S \cup Before(m)) \cup {m}
      BY <3>1
    <3>3. Cardinality(S \cup Before(m)) + 1 <= MaxUnits
      BY <1>1 DEF Admits
    <3>4. S \cup Before(m) \subseteq Events
      BY <1>1
    <3> HIDE DEF Before
    <3>5. /\ Cardinality((S \cup Before(m)) \cup {m}) \in {Cardinality(S \cup Before(m)), Cardinality(S \cup Before(m)) + 1}
          /\ Cardinality(S \cup Before(m)) \in Nat
      BY <3>4, EventsAreFinite, FS_AddElement
    <3> QED BY <3>2, <3>3, <3>5, PortfolioAssumption
  <2> QED BY <2>1, <2>2
<1>3. ASSUME NEW x \in S \cup G, GroupOf[x] # UnknownGroup
      PROVE  Cardinality(InGroup(S \cup G, GroupOf[x])) <= MaxGroupUnits
  <2> DEFINE k == GroupOf[x]
  <2>1. CASE InGroup(G, k) = {}
    <3>1. x \in S /\ InGroup(S \cup G, k) = InGroup(S, k)
      BY <2>1 DEF InGroup
    <3> QED BY <3>1, <1>3 DEF WithinLimits
  <2>2. CASE InGroup(G, k) # {}
    <3>1. InGroup(G, k) \subseteq Events
      BY <1>1 DEF InGroup
    <3>2. PICK m \in InGroup(G, k) : \A g \in InGroup(G, k) \ {m} : Rank[g] < Rank[m]
      BY <3>1, <2>2, LastRanked
    <3> DEFINE Rest == InGroup(S \cup Before(m), k)
    <3>3. InGroup(S \cup G, k) = Rest \cup {m}
      BY <3>2 DEF InGroup
    <3>4. m \in G /\ GroupOf[m] = k
      BY DEF InGroup
    <3>5. Cardinality(Rest) + 1 <= MaxGroupUnits
      BY <1>1, <3>4 DEF Admits
    <3>6. Rest \subseteq Events
      BY <1>1 DEF InGroup
    <3> HIDE DEF Rest
    <3>7. Cardinality(Rest \cup {m}) \in {Cardinality(Rest), Cardinality(Rest) + 1} /\ Cardinality(Rest) \in Nat
      BY <3>6, EventsAreFinite, FS_AddElement
    <3>8. Cardinality(Rest \cup {m}) <= MaxGroupUnits
      BY <3>5, <3>7, PortfolioAssumption
    <3> QED BY <3>3, <3>8
  <2> QED BY <2>1, <2>2
<1>4. OnePerSymbol(S \cup G)
  <2> SUFFICES ASSUME NEW x \in S \cup G, NEW y \in S \cup G, SymbolOf[x] = SymbolOf[y]
               PROVE  x = y
    BY DEF OnePerSymbol
  <2>1. \A c \in G : \A z \in S \cup Before(c) : SymbolOf[z] # SymbolOf[c]
    BY <1>1 DEF Admits
  <2>2. CASE x \in S /\ y \in S
    BY <2>2 DEF WithinLimits, OnePerSymbol
  <2>3. CASE x \in G /\ y \in G
    BY <2>3, <2>1, <1>1, PortfolioAssumption
  <2> QED BY <2>1, <2>2, <2>3
<1> QED BY <1>2, <1>3, <1>4 DEF WithinLimits

-----------------------------------------------------------------------------
(***************************************************************************)
(* Type correctness.                                                       *)
(***************************************************************************)
Idle == {"idle", "done", "failed"}

LEMMA BlankTyped == \A stage \in Stages \cup Idle : Blank(stage) \in Memories
  BY ChainAssumption DEF Blank, Memories, Sessions, Stages, Idle

LEMMA RowTyped ==
    ASSUME NEW kind \in Kinds, NEW e \in Events, NEW r \in Runs, NEW d \in Details
    PROVE  Row(kind, e, r, d) \in Rows
  BY DEF Row, Rows

LEMMA EventTyped == Events \subseteq Details /\ {"EXECUTED", "SKIPPED", "-"} \subseteq Details
  BY DEF Details

LEMMA KnowingTyped ==
    ASSUME TypeOK, NEW r \in Runs, NEW row \in Rows
    PROVE  Knowing(r, row) \in Memories
  BY DEF TypeOK, Knowing, Memories

LEMMA PastTyped ==
    ASSUME NEW memory \in Memories, NEW s
    PROVE  Past(memory, s) \in Memories
<1> DEFINE rest == [memory EXCEPT !.todo = @ \ {s}]
<1>1. rest \in Memories
  BY DEF Memories
<1>2. Blank("done") \in Memories
  BY BlankTyped DEF Idle
<1> QED BY <1>1, <1>2 DEF Past

LEMMA AppendTyped ==
    ASSUME TypeOK, NEW r \in Runs, NEW row \in Rows, NEW memory \in Memories,
           AppendRow(row, r, memory)
    PROVE  rows' \subseteq Rows /\ run' \in [Runs -> Memories]
<1>1. Blank("failed") \in Memories
  BY BlankTyped DEF Idle
<1> QED BY <1>1 DEF AppendRow, Become, TypeOK

LEMMA TypePreserved ==
    ASSUME TypeOK, [Next]_vars
    PROVE  TypeOK'
<1> USE DEF TypeOK
<1>1. CASE NextSession
  BY <1>1, ChainAssumption DEF NextSession, Sessions
<1>2. CASE RefreshHistory
  BY <1>2 DEF RefreshHistory
<1>3. ASSUME NEW s \in Symbols, EditPool(s) PROVE TypeOK'
  BY <1>3 DEF EditPool
<1>4. ASSUME NEW e \in Events, ListPosition(e) \/ ClosePosition(e) PROVE TypeOK'
  BY <1>4 DEF ListPosition, ClosePosition
<1>5. ASSUME NEW r \in Runs, Start(r) PROVE TypeOK'
  <2>1. [Blank("open") EXCEPT !.asOf = clock, !.inputs = pool, !.existing = held, !.missing = gaps] \in Memories
    BY DEF Memories, Blank, Stages
  <2> QED BY <1>5, <2>1 DEF Start, Become, sheets
<1>6. ASSUME NEW r \in Runs, Open(r) PROVE TypeOK'
  <2>1. [run[r] EXCEPT !.pc = "settle", !.mem = rows] \in Memories
    BY DEF Memories, Stages
  <2>2. Blank("failed") \in Memories
    BY BlankTyped DEF Idle
  <2> QED BY <1>6, <2>1, <2>2 DEF Open, Become, sheets
<1>7. ASSUME NEW r \in Runs, NEW e \in Events, SavePositionOrigin(r, e) PROVE TypeOK'
  <2>1. Row("POSITION_ORIGIN", e, r, "-") \in Rows
    BY RowTyped, EventTyped DEF Kinds
  <2> HIDE DEF TypeOK
  <2>2. Knowing(r, Row("POSITION_ORIGIN", e, r, "-")) \in Memories
    BY <2>1, KnowingTyped
  <2>3. rows' \subseteq Rows /\ run' \in [Runs -> Memories]
    BY <1>7, <2>1, <2>2, AppendTyped DEF SavePositionOrigin
  <2> QED BY <1>7, <2>3 DEF SavePositionOrigin, sheets, TypeOK
<1>8. ASSUME NEW r \in Runs, NEW e \in Events, NEW o \in {"EXECUTED", "SKIPPED"}, SettlePending(r, e, o)
      PROVE  TypeOK'
  <2> DEFINE row == Row("SETTLEMENT", e, r, o)
  <2>1. row \in Rows
    BY RowTyped, EventTyped DEF Kinds
  <2> HIDE DEF TypeOK
  <2>2. Knowing(r, row) \in Memories
    BY <2>1, KnowingTyped
  <2>3. [Knowing(r, row) EXCEPT !.settled = @ \cup {e}] \in Memories
    BY <2>2 DEF Memories
  <2>4. AppendRow(row, r, [Knowing(r, row) EXCEPT !.settled = @ \cup {e}])
    BY <1>8 DEF SettlePending
  <2> HIDE DEF row
  <2>5. rows' \subseteq Rows /\ run' \in [Runs -> Memories]
    BY <2>1, <2>3, <2>4, AppendTyped
  <2> QED BY <1>8, <2>5 DEF SettlePending, sheets, TypeOK
<1>9. ASSUME NEW r \in Runs, ReserveBatch(r) PROVE TypeOK'
  <2>a. PICK approved \in SUBSET Events :
          \E G \in SUBSET Candidates(r, approved) : Become(r,
             [run[r] EXCEPT !.pc = "write", !.grants = G, !.todo = run[r].inputs])
    BY <1>9 DEF ReserveBatch
  <2>1. PICK G \in SUBSET Candidates(r, approved) :
          run' = [run EXCEPT ![r] = [run[r] EXCEPT !.pc = "write", !.grants = G, !.todo = run[r].inputs]]
    BY <2>a DEF Become
  <2>2. G \subseteq Events
    BY DEF Candidates
  <2>3. [run[r] EXCEPT !.pc = "write", !.grants = G, !.todo = run[r].inputs] \in Memories
    BY <2>2 DEF Memories, Stages
  <2> QED BY <1>9, <2>1, <2>3 DEF ReserveBatch, sheets
<1>10. ASSUME NEW r \in Runs, NEW s \in Symbols, NEW e \in Events, RecordPublishedEvent(r, s, e) PROVE TypeOK'
  <2>1. Row("PUBLISHED_EVENT", e, r, "-") \in Rows
    BY RowTyped, EventTyped DEF Kinds
  <2> HIDE DEF TypeOK
  <2>2. Knowing(r, Row("PUBLISHED_EVENT", e, r, "-")) \in Memories
    BY <2>1, KnowingTyped
  <2>3. rows' \subseteq Rows /\ run' \in [Runs -> Memories]
    BY <1>10, <2>1, <2>2, AppendTyped DEF RecordPublishedEvent
  <2> QED BY <1>10, <2>3 DEF RecordPublishedEvent, sheets, TypeOK
<1>11. ASSUME NEW r \in Runs, NEW s \in Symbols, NEW e \in Events, SavePending(r, s, e) PROVE TypeOK'
  <2>1. PICK d \in DecisionOf(r, e) :
          AppendRow(Row("PENDING_T1", e, r, d), r, Knowing(r, Row("PENDING_T1", e, r, d)))
    BY <1>11 DEF SavePending
  <2>2. d \in Events
    BY DEF DecisionOf, SettledHere, Memories
  <2>3. Row("PENDING_T1", e, r, d) \in Rows
    BY <2>2, RowTyped, EventTyped DEF Kinds
  <2> HIDE DEF TypeOK
  <2>4. Knowing(r, Row("PENDING_T1", e, r, d)) \in Memories
    BY <2>3, KnowingTyped
  <2>5. rows' \subseteq Rows /\ run' \in [Runs -> Memories]
    BY <2>1, <2>3, <2>4, AppendTyped
  <2> QED BY <1>11, <2>5 DEF SavePending, sheets, TypeOK
<1>12. ASSUME NEW r \in Runs, NEW s \in Symbols, RecordDailyResult(r, s) PROVE TypeOK'
  <2>1. Blank("failed") \in Memories /\ Past(run[r], s) \in Memories
    BY PastTyped, BlankTyped DEF Idle
  <2>2. CASE PublishedHere(r, s) = {}
    BY <1>12, <2>1, <2>2 DEF RecordDailyResult, Become, sheets
  <2>3. CASE PublishedHere(r, s) # {}
    <3>1. PICK e \in PublishedHere(r, s) :
            AppendRow(Row("DAILY_RESULT", e, r, "-"), r, Past(Knowing(r, Row("DAILY_RESULT", e, r, "-")), s))
      BY <1>12, <2>3 DEF RecordDailyResult
    <3>2. Row("DAILY_RESULT", e, r, "-") \in Rows
      BY RowTyped, EventTyped DEF Kinds, PublishedHere
    <3> HIDE DEF TypeOK
    <3>3. Past(Knowing(r, Row("DAILY_RESULT", e, r, "-")), s) \in Memories
      BY <3>2, KnowingTyped, PastTyped
    <3>4. rows' \subseteq Rows /\ run' \in [Runs -> Memories]
      BY <3>1, <3>2, <3>3, AppendTyped
    <3> QED BY <1>12, <3>4 DEF RecordDailyResult, sheets, TypeOK
  <2> QED BY <2>2, <2>3
<1>13. ASSUME NEW r \in Runs, Crash(r) PROVE TypeOK'
  BY <1>13, BlankTyped DEF Crash, Become, sheets, Idle
<1>14. CASE UNCHANGED vars
  BY <1>14 DEF vars, sheets
<1> QED BY <1>1, <1>2, <1>3, <1>4, <1>5, <1>6, <1>7, <1>8, <1>9, <1>10, <1>11, <1>12, <1>13, <1>14 DEF Next, Step

\* Every reachable state is well typed.
THEOREM TypeCorrect == Spec => []TypeOK
<1>1. Init => TypeOK
  BY ChainAssumption, BlankTyped DEF Init, TypeOK, Sessions, Idle
<1> QED BY <1>1, TypePreserved, PTL DEF Spec

-----------------------------------------------------------------------------
(***************************************************************************)
(* The ledger. What appending a row does to the sets read off it.          *)
(***************************************************************************)
LEMMA AppendedKeys ==
    \A R, kind, e, r, d, k :
      Keys(R \cup {Row(kind, e, r, d)}, k) = Keys(R, k) \cup (IF kind = k THEN {e} ELSE {})
<1> SUFFICES ASSUME NEW R, NEW kind, NEW e, NEW r, NEW d, NEW k
             PROVE  Keys(R \cup {Row(kind, e, r, d)}, k) = Keys(R, k) \cup (IF kind = k THEN {e} ELSE {})
  OBVIOUS
<1> DEFINE row == Row(kind, e, r, d)
<1>1. row.kind = kind /\ row.event = e
  BY DEF Row
<1> HIDE DEF row
<1> QED BY <1>1 DEF Keys, row

LEMMA AppendedExecuted ==
    \A R, kind, e, r, d :
      Executed(R \cup {Row(kind, e, r, d)}) =
        Executed(R) \cup (IF kind = "SETTLEMENT" /\ d = "EXECUTED" THEN {e} ELSE {})
<1> SUFFICES ASSUME NEW R, NEW kind, NEW e, NEW r, NEW d
             PROVE  Executed(R \cup {Row(kind, e, r, d)}) =
                      Executed(R) \cup (IF kind = "SETTLEMENT" /\ d = "EXECUTED" THEN {e} ELSE {})
  OBVIOUS
<1> DEFINE row == Row(kind, e, r, d)
<1>1. row.kind = kind /\ row.event = e /\ row.detail = d
  BY DEF Row
<1> HIDE DEF row
<1> QED BY <1>1 DEF Executed, row

LEMMA KeysTyped ==
    ASSUME NEW R, R \subseteq Rows
    PROVE  /\ \A k : Keys(R, k) \subseteq Events
           /\ Executed(R) \subseteq Settlements(R)
           /\ {Published(R), Pended(R), Settlements(R), Executed(R), Reserved(R)} \subseteq SUBSET Events
<1>1. \A k : Keys(R, k) \subseteq Events
  BY DEF Keys, Rows
<1>2. Executed(R) \subseteq Settlements(R)
  BY DEF Executed, Settlements, Keys
<1> QED BY <1>1, <1>2 DEF Published, Pended, Settlements, Reserved

-----------------------------------------------------------------------------
(***************************************************************************)
(* The inductive invariant. It assumes that stateful runs do not overlap   *)
(* and that the operator lists fills before the next one: what the account *)
(* holds and has reserved is then always part of what the active run       *)
(* counts, and that, with what the run may still reserve, is within the    *)
(* limits.                                                                 *)
(***************************************************************************)
Booked(r) == run[r].existing \cup (run[r].settled \cap Executed(rows))

Lineage ==
    /\ Settlements(rows) \subseteq Pended(rows)
    /\ Pended(rows) \subseteq Published(rows)
    /\ left \subseteq Executed(rows)
    /\ held \subseteq OpenPositions

Solo == \A q, r \in Runs : Active(q) /\ Active(r) => q = r

\* The run r has published nothing yet.
Unborn(r) == \A x \in rows : x.kind = "PUBLISHED_EVENT" => x.by # r

PublishedByAnother(e, r) == \E y \in rows : y.kind = "PUBLISHED_EVENT" /\ y.event = e /\ y.by # r

Counted(r) ==
    /\ OpenPositions \subseteq Booked(r)
    /\ WithinLimits(Booked(r) \cup Reserved(rows) \cup run[r].grants)

RunOK(r) ==
    /\ run[r].pc \in {"settle", "write"} => run[r].mem = rows
    /\ run[r].pc \in {"open", "settle"} =>
         run[r].grants = {} /\ \A e \in Reserved(rows) : SymbolOf[e] \in run[r].inputs
    /\ run[r].pc = "open" => run[r].settled = {}
    /\ run[r].pc \in {"idle", "open", "settle"} => Unborn(r)
    /\ Active(r) => Counted(r)
    /\ Active(r) => \A e \in run[r].grants : e \in Entry /\ PublishedByAnother(e, r)
    /\ run[r].pc = "write" /\ run[r].grants # {} =>
         \A x \in rows : x.kind = "PENDING_T1" /\ x.event \in Reserved(rows) => x.by = r

LedgerInv ==
    /\ TypeOK
    /\ ExactlyOnce
    /\ Lineage
    /\ RiskWithinLimits
    /\ OneBatchOutstanding
    /\ ReservedAfterPublication
    /\ Solo
    /\ \A r \in Runs : RunOK(r)

\* A step of the active run leaves every other run as it was, and inactive.
LEMMA OtherRuns ==
    ASSUME LedgerInv, NEW r \in Runs, Active(r),
           NEW memory, run' = [run EXCEPT ![r] = memory],
           \A x \in rows' : x \in rows \/ x.by = r
    PROVE  /\ Solo'
           /\ \A q \in Runs \ {r} : RunOK(q)'
<1>1. \A q \in Runs \ {r} : run'[q] = run[q] /\ ~Active(q)
  BY DEF LedgerInv, Solo, TypeOK
<1>2. \A q \in Runs \ {r} : ~Active(q)'
  BY <1>1 DEF Active
<1>3. Solo'
  BY <1>2 DEF Solo
<1>4. ASSUME NEW q \in Runs \ {r} PROVE RunOK(q)'
  <2>1. run'[q].pc \notin {"open", "settle", "write"}
    BY <1>2 DEF Active, Stages
  <2>2. run[q].pc = "idle" => Unborn(q)
    BY DEF LedgerInv, RunOK
  <2>4. run'[q].pc = "idle" => Unborn(q)'
    BY <1>1, <2>2 DEF Unborn
  <2> QED BY <1>2, <2>1, <2>4 DEF RunOK
<1> QED BY <1>3, <1>4

\* A run that has ended owes nothing.
LEMMA EndedRunOK ==
    ASSUME NEW r \in Runs, TypeOK, NEW stage \in {"done", "failed"},
           run' = [run EXCEPT ![r] = Blank(stage)]
    PROVE  RunOK(r)'
<1>1. run'[r].pc = stage
  BY DEF TypeOK, Blank
<1> QED BY <1>1 DEF RunOK, Active, Stages

-----------------------------------------------------------------------------
(***************************************************************************)
(* Each step preserves the invariant: first the operator and the market.   *)
(***************************************************************************)
\* Nothing but what the operator lists changes, and open positions can only
\* become fewer.
LEMMA SheetsPreserve ==
    ASSUME LedgerInv, TypeOK', UNCHANGED <<rows, run>>,
           left \subseteq left', left' \subseteq Executed(rows), held' \subseteq OpenPositions'
    PROVE  LedgerInv'
<1> USE DEF LedgerInv
<1>1. OpenPositions' \subseteq OpenPositions
  BY DEF OpenPositions
<1>2. Reserved(rows) \cup OpenPositions \subseteq Events
  BY KeysTyped DEF TypeOK, OpenPositions
<1>3. RiskWithinLimits'
  BY <1>1, <1>2, LimitsMonotone DEF RiskWithinLimits
<1>4. Lineage'
  BY DEF Lineage
<1>5. ExactlyOnce' /\ OneBatchOutstanding' /\ ReservedAfterPublication'
  BY DEF ExactlyOnce, OneBatchOutstanding, ReservedAfterPublication
<1>6. Solo'
  BY DEF Solo, Active
<1>7. ASSUME NEW r \in Runs PROVE RunOK(r)'
  BY <1>1 DEF RunOK, Counted, Booked, Active, Unborn, PublishedByAnother
<1> QED BY <1>3, <1>4, <1>5, <1>6, <1>7

LEMMA OperatorPreserves ==
    ASSUME LedgerInv, TypeOK', NEW e \in Events, ListPosition(e) \/ ClosePosition(e)
    PROVE  LedgerInv'
<1>1. held \subseteq Executed(rows) \ left /\ left \subseteq Executed(rows)
  BY DEF LedgerInv, Lineage, OpenPositions
<1>2. CASE ListPosition(e)
  BY <1>1, <1>2, SheetsPreserve DEF ListPosition, OpenPositions
<1>3. CASE ClosePosition(e)
  BY <1>1, <1>3, SheetsPreserve DEF ClosePosition, OpenPositions
<1> QED BY <1>2, <1>3

LEMMA MarketPreserves ==
    ASSUME LedgerInv, TypeOK', UNCHANGED <<held, left, rows, run>>
    PROVE  LedgerInv'
<1>1. left \subseteq Executed(rows) /\ held' \subseteq OpenPositions'
  BY DEF LedgerInv, Lineage, OpenPositions
<1> QED BY <1>1, SheetsPreserve

-----------------------------------------------------------------------------
(***************************************************************************)
(* The steps of a run that append nothing.                                 *)
(***************************************************************************)
LEMMA StartPreserves ==
    ASSUME Serialized, PositionsListed, LedgerInv, TypeOK', NEW r \in Runs, Start(r)
    PROVE  LedgerInv'
<1> USE DEF LedgerInv
<1>1. /\ \A q \in Runs : ~Active(q)
      /\ OpenPositions \subseteq held
      /\ \A e \in Reserved(rows) : SymbolOf[e] \in pool
      /\ run[r].pc = "idle"
  BY DEF Start, MayStart, PreflightReady, OpenPositions
<1> DEFINE m == [Blank("open") EXCEPT !.asOf = clock, !.inputs = pool, !.existing = held, !.missing = gaps]
<1>2. /\ m.pc = "open" /\ m.inputs = pool /\ m.existing = held
      /\ m.settled = {} /\ m.grants = {}
  BY DEF Blank
<1>3. run' = [run EXCEPT ![r] = m] /\ UNCHANGED <<held, left, rows>>
  BY DEF Start, Become, sheets
<1> HIDE DEF m
<1>4. run'[r] = m /\ \A q \in Runs \ {r} : run'[q] = run[q]
  BY <1>3 DEF TypeOK
<1>5. ExactlyOnce' /\ Lineage' /\ RiskWithinLimits' /\ OneBatchOutstanding' /\ ReservedAfterPublication'
  BY <1>3 DEF ExactlyOnce, Lineage, RiskWithinLimits, OneBatchOutstanding, ReservedAfterPublication, OpenPositions
<1>6. Solo'
  BY <1>1, <1>4 DEF Solo, Active
<1>7. ASSUME NEW q \in Runs \ {r} PROVE RunOK(q)'
  BY <1>1, <1>3, <1>4 DEF RunOK, Active, Unborn, Stages
<1>8. RunOK(r)'
  <2>1. Unborn(r)'
    BY <1>1, <1>3 DEF RunOK, Unborn
  <2>2. held \subseteq OpenPositions /\ Reserved(rows) \cup OpenPositions \subseteq Events
    BY KeysTyped DEF Lineage, TypeOK, OpenPositions
  <2>3. WithinLimits(held \cup Reserved(rows))
    BY <2>2, LimitsMonotone DEF RiskWithinLimits
  <2>4. Booked(r)' = held /\ run'[r].grants = {} /\ OpenPositions' = OpenPositions
    BY <1>2, <1>3, <1>4 DEF Booked, OpenPositions
  <2>5. Counted(r)'
    BY <1>1, <1>3, <2>3, <2>4 DEF Counted
  <2> QED BY <1>1, <1>2, <1>3, <1>4, <2>1, <2>5 DEF RunOK
<1> QED BY <1>5, <1>6, <1>7, <1>8

\* The ledger and the sheets stay; run r goes on with the memory m.
LEMMA QuietStep ==
    ASSUME LedgerInv, TypeOK', NEW r \in Runs, Active(r), UNCHANGED <<held, left, rows>>,
           NEW m, run' = [run EXCEPT ![r] = m], RunOK(r)'
    PROVE  LedgerInv'
<1>1. ExactlyOnce' /\ Lineage' /\ RiskWithinLimits' /\ OneBatchOutstanding' /\ ReservedAfterPublication'
  BY DEF LedgerInv, ExactlyOnce, Lineage, RiskWithinLimits, OneBatchOutstanding, ReservedAfterPublication,
         OpenPositions
<1>2. Solo' /\ \A q \in Runs \ {r} : RunOK(q)'
  BY OtherRuns
<1> QED BY <1>1, <1>2 DEF LedgerInv

LEMMA EndPreserves ==
    ASSUME LedgerInv, TypeOK', NEW r \in Runs, Active(r), UNCHANGED <<held, left, rows>>,
           NEW stage \in {"done", "failed"}, run' = [run EXCEPT ![r] = Blank(stage)]
    PROVE  LedgerInv'
  BY EndedRunOK, QuietStep DEF LedgerInv

LEMMA OpenPreserves ==
    ASSUME LedgerInv, TypeOK', NEW r \in Runs, Open(r)
    PROVE  LedgerInv'
<1>1. Active(r) /\ UNCHANGED <<held, left, rows>>
  BY DEF Open, Active, Stages, sheets
<1>2. CASE run' = [run EXCEPT ![r] = Blank("failed")]
  BY <1>1, <1>2, EndPreserves
<1>3. CASE run' = [run EXCEPT ![r] = [run[r] EXCEPT !.pc = "settle", !.mem = rows]]
  <2> DEFINE m == [run[r] EXCEPT !.pc = "settle", !.mem = rows]
  <2>1. /\ m.pc = "settle" /\ m.mem = rows /\ m.inputs = run[r].inputs /\ m.existing = run[r].existing
        /\ m.settled = run[r].settled /\ m.grants = run[r].grants
    BY DEF LedgerInv, TypeOK, Memories
  <2>2. run' = [run EXCEPT ![r] = m]
    BY <1>3
  <2> HIDE DEF m
  <2>3. run'[r] = m
    BY <2>2 DEF LedgerInv, TypeOK
  <2>4. RunOK(r) /\ run[r].pc = "open"
    BY DEF LedgerInv, Open
  <2>5. RunOK(r)'
    BY <1>1, <2>1, <2>3, <2>4
       DEF RunOK, Counted, Booked, OpenPositions, Active, Unborn, PublishedByAnother
  <2> QED BY <1>1, <2>2, <2>5, QuietStep
<1> QED BY <1>2, <1>3 DEF Open, Become

LEMMA ReserveBatchPreserves ==
    ASSUME LedgerInv, TypeOK', NEW r \in Runs, ReserveBatch(r)
    PROVE  LedgerInv'
<1>1. Active(r) /\ UNCHANGED <<held, left, rows>> /\ run[r].pc = "settle"
  BY DEF ReserveBatch, Active, Stages, sheets
<1>2. PICK approved \in SUBSET Events :
        \E G \in SUBSET Candidates(r, approved) :
          /\ IF OnePerSymbol(Positions(r)) THEN IsReservation(Positions(r), Candidates(r, approved), G)
                                           ELSE G = {}
          /\ Become(r, [run[r] EXCEPT !.pc = "write", !.grants = G, !.todo = run[r].inputs])
  BY DEF ReserveBatch
<1>3. PICK G \in SUBSET Candidates(r, approved) :
        /\ IF OnePerSymbol(Positions(r)) THEN IsReservation(Positions(r), Candidates(r, approved), G)
                                         ELSE G = {}
        /\ run' = [run EXCEPT ![r] = [run[r] EXCEPT !.pc = "write", !.grants = G, !.todo = run[r].inputs]]
  BY <1>2 DEF Become
<1> DEFINE m == [run[r] EXCEPT !.pc = "write", !.grants = G, !.todo = run[r].inputs]
<1>4. /\ m.pc = "write" /\ m.grants = G /\ m.mem = run[r].mem /\ m.existing = run[r].existing
      /\ m.settled = run[r].settled
  BY DEF LedgerInv, TypeOK, Memories
<1>5. run' = [run EXCEPT ![r] = m]
  BY <1>3
<1> HIDE DEF m
<1>6. run'[r] = m
  BY <1>5 DEF LedgerInv, TypeOK
<1>7. /\ run[r].mem = rows /\ run[r].grants = {} /\ Unborn(r) /\ Counted(r)
      /\ \A e \in Reserved(rows) : SymbolOf[e] \in run[r].inputs
  BY <1>1 DEF LedgerInv, RunOK
<1>8. Positions(r) = Booked(r)
  BY <1>7 DEF Positions, Booked
<1>9. G # {} => Reserved(rows) = {}
  <2>1. G # {} => Unresolved(r) = {}
    BY DEF Candidates
  <2> QED BY <2>1, <1>7 DEF Unresolved
<1>10. Booked(r) \subseteq Events /\ Reserved(rows) \subseteq Events /\ Candidates(r, approved) \subseteq Events
  BY KeysTyped DEF LedgerInv, TypeOK, Memories, Booked, Candidates
<1>11. WithinLimits(Booked(r) \cup Reserved(rows) \cup G)
  <2>1. CASE G = {}
    BY <2>1, <1>7 DEF Counted
  <2>2. CASE G # {}
    <3>1. WithinLimits(Booked(r))
      BY <1>7, <1>10, LimitsMonotone DEF Counted
    <3>2. IsReservation(Booked(r), Candidates(r, approved), G)
      BY <2>2, <1>3, <1>8
    <3>3. WithinLimits(Booked(r) \cup G)
      BY <3>1, <3>2, <1>10, ReservationStaysWithin
    <3>4. Booked(r) \cup Reserved(rows) \cup G = Booked(r) \cup G
      BY <2>2, <1>9
    <3> QED BY <3>3, <3>4
  <2> QED BY <2>1, <2>2
<1>12. Booked(r)' = Booked(r) /\ OpenPositions' = OpenPositions
  BY <1>1, <1>4, <1>6 DEF Booked, OpenPositions
<1>13. Counted(r)'
  BY <1>1, <1>4, <1>6, <1>7, <1>11, <1>12 DEF Counted
<1>14. \A e \in G : e \in Entry /\ PublishedByAnother(e, r)
  BY <1>7 DEF Candidates, Published, Keys, PublishedByAnother, Unborn
<1>15. RunOK(r)'
  BY <1>1, <1>4, <1>6, <1>7, <1>9, <1>13, <1>14 DEF RunOK, PublishedByAnother
<1> QED BY <1>1, <1>5, <1>15, QuietStep

-----------------------------------------------------------------------------
(***************************************************************************)
(* The steps of a run that append a row. Whether the append is confirmed,  *)
(* or the run ends with or without the row written, only two things have   *)
(* to be shown: what the row does to the ledger, and what the run knows    *)
(* after a confirmed append.                                               *)
(***************************************************************************)
LedgerOK ==
    ExactlyOnce /\ Lineage /\ RiskWithinLimits /\ OneBatchOutstanding /\ ReservedAfterPublication

LEMMA RowFields ==
    ASSUME NEW kind, NEW e, NEW r, NEW d
    PROVE  /\ Row(kind, e, r, d).kind = kind
           /\ Row(kind, e, r, d).event = e
           /\ Row(kind, e, r, d).by = r
           /\ Row(kind, e, r, d).detail = d
  BY DEF Row

LEMMA AppendPreserves ==
    ASSUME LedgerInv, TypeOK', NEW r \in Runs, Active(r), UNCHANGED <<held, left>>,
           NEW kind, NEW e, NEW d, NEW m, AppendRow(Row(kind, e, r, d), r, m),
           rows' = rows \cup {Row(kind, e, r, d)} => LedgerOK',
           run' = [run EXCEPT ![r] = m] /\ rows' = rows \cup {Row(kind, e, r, d)} => RunOK(r)'
    PROVE  LedgerInv'
<1>1. rows' \in {rows, rows \cup {Row(kind, e, r, d)}}
  BY DEF AppendRow
<1>r. \A x \in rows' : x \in rows \/ x.by = r
  <2>1. Row(kind, e, r, d).by = r
    BY RowFields
  <2> QED BY <1>1, <2>1
<1>2. rows' = rows => LedgerOK'
  BY DEF LedgerInv, LedgerOK, ExactlyOnce, Lineage, RiskWithinLimits, OneBatchOutstanding,
         ReservedAfterPublication, OpenPositions
<1>3. LedgerOK'
  BY <1>1, <1>2
<1>4. CASE run' = [run EXCEPT ![r] = Blank("failed")]
  <2>1. RunOK(r)'
    BY <1>4, EndedRunOK DEF LedgerInv
  <2>2. Solo' /\ \A q \in Runs \ {r} : RunOK(q)'
    BY <1>r, <1>4, OtherRuns
  <2> QED BY <1>3, <2>1, <2>2 DEF LedgerInv, LedgerOK
<1>5. CASE run' = [run EXCEPT ![r] = m] /\ rows' = rows \cup {Row(kind, e, r, d)}
  <2>1. Solo' /\ \A q \in Runs \ {r} : RunOK(q)'
    BY <1>r, <1>5, OtherRuns
  <2> QED BY <1>3, <1>5, <2>1 DEF LedgerInv, LedgerOK
<1> QED BY <1>4, <1>5 DEF AppendRow, Become

LEMMA KnowingFields ==
    ASSUME TypeOK, NEW r \in Runs, NEW row
    PROVE  LET m == Knowing(r, row)
           IN  /\ m.mem = run[r].mem \cup {row}
               /\ m.pc = run[r].pc
               /\ m.inputs = run[r].inputs
               /\ m.existing = run[r].existing
               /\ m.settled = run[r].settled
               /\ m.grants = run[r].grants
               /\ m.todo = run[r].todo
  BY DEF TypeOK, Memories, Knowing

\* A row of a new key is appended once.
LEMMA NewKey ==
    ASSUME ExactlyOnce, NEW kind, NEW e, NEW r, NEW d,
           kind = "DAILY_RESULT" \/ e \notin Keys(rows, kind),
           rows' = rows \cup {Row(kind, e, r, d)}
    PROVE  ExactlyOnce'
<1> DEFINE row == Row(kind, e, r, d)
<1>1. row.kind = kind /\ row.event = e
  BY RowFields
<1>2. rows' = rows \cup {row}
  OBVIOUS
<1> HIDE DEF row
<1> QED BY <1>1, <1>2 DEF ExactlyOnce, UniqueKeys, Keys

\* An origin or a daily result leaves every set the invariant reads as it was.
LEMMA NeutralRow ==
    ASSUME LedgerInv, UNCHANGED <<held, left>>,
           NEW kind \in {"POSITION_ORIGIN", "DAILY_RESULT"}, NEW e, NEW r, NEW d,
           kind = "DAILY_RESULT" \/ e \notin Keys(rows, kind),
           rows' = rows \cup {Row(kind, e, r, d)}
    PROVE  /\ LedgerOK'
           /\ Published(rows') = Published(rows) /\ Pended(rows') = Pended(rows)
           /\ Settlements(rows') = Settlements(rows) /\ Executed(rows') = Executed(rows)
           /\ Reserved(rows') = Reserved(rows) /\ OpenPositions' = OpenPositions
<1>1. /\ Published(rows') = Published(rows) /\ Pended(rows') = Pended(rows)
      /\ Settlements(rows') = Settlements(rows) /\ Executed(rows') = Executed(rows)
  <2>1. \A k : Keys(rows', k) = Keys(rows, k) \cup (IF kind = k THEN {e} ELSE {})
    BY AppendedKeys
  <2>2. Executed(rows') = Executed(rows) \cup (IF kind = "SETTLEMENT" /\ d = "EXECUTED" THEN {e} ELSE {})
    BY AppendedExecuted
  <2>3. kind # "SETTLEMENT" /\ kind # "PUBLISHED_EVENT" /\ kind # "PENDING_T1"
    OBVIOUS
  <2>4. \A k : kind # k => Keys(rows', k) = Keys(rows, k)
    BY <2>1
  <2>5. Executed(rows') = Executed(rows)
    BY <2>2, <2>3
  <2> QED BY <2>3, <2>4, <2>5 DEF Published, Pended, Settlements
<1>2. Reserved(rows') = Reserved(rows) /\ OpenPositions' = OpenPositions
  BY <1>1 DEF Reserved, OpenPositions
<1>3. ExactlyOnce'
  BY NewKey DEF LedgerInv
<1>4. Lineage' /\ RiskWithinLimits'
  BY <1>1, <1>2 DEF LedgerInv, Lineage, RiskWithinLimits
<1> DEFINE row == Row(kind, e, r, d)
<1>5. row.kind # "PENDING_T1" /\ rows' = rows \cup {row}
  BY RowFields
<1> HIDE DEF row
<1>6. OneBatchOutstanding' /\ ReservedAfterPublication'
  BY <1>2, <1>5 DEF LedgerInv, OneBatchOutstanding, ReservedAfterPublication
<1> QED BY <1>1, <1>2, <1>3, <1>4, <1>6 DEF LedgerOK

LEMMA SavePositionOriginPreserves ==
    ASSUME LedgerInv, TypeOK', NEW r \in Runs, NEW e \in Events, SavePositionOrigin(r, e)
    PROVE  LedgerInv'
<1> DEFINE row == Row("POSITION_ORIGIN", e, r, "-")
           m == Knowing(r, row)
<1>1. /\ Active(r) /\ UNCHANGED <<held, left>> /\ run[r].pc = "settle"
      /\ AppendRow(row, r, m) /\ e \notin Origins(run[r].mem)
  BY DEF SavePositionOrigin, Active, Stages, sheets
<1>2. RunOK(r) /\ run[r].mem = rows
  BY <1>1 DEF LedgerInv, RunOK
<1>3. rows' = rows \cup {row} => LedgerOK'
  BY <1>1, <1>2, NeutralRow DEF Origins
<1>4. ASSUME run' = [run EXCEPT ![r] = m], rows' = rows \cup {row} PROVE RunOK(r)'
  <2>1. run'[r] = m
    BY <1>4 DEF LedgerInv, TypeOK
  <2>2. /\ m.mem = rows' /\ m.pc = "settle" /\ m.inputs = run[r].inputs /\ m.existing = run[r].existing
        /\ m.settled = run[r].settled /\ m.grants = run[r].grants
    BY <1>1, <1>2, <1>4, KnowingFields DEF LedgerInv
  <2>3. Executed(rows') = Executed(rows) /\ Reserved(rows') = Reserved(rows) /\ OpenPositions' = OpenPositions
    BY <1>1, <1>2, <1>4, NeutralRow DEF Origins
  <2>4. Unborn(r)'
    BY <1>1, <1>2, <1>4, RowFields DEF RunOK, Unborn
  <2> HIDE DEF m
  <2>5. Counted(r)'
    BY <1>1, <1>2, <2>1, <2>2, <2>3 DEF RunOK, Counted, Booked
  <2> QED BY <1>1, <1>2, <2>1, <2>2, <2>3, <2>4, <2>5 DEF RunOK
<1> HIDE DEF m
<1> QED BY <1>1, <1>3, <1>4, AppendPreserves

LEMMA SettlePendingPreserves ==
    ASSUME LedgerInv, TypeOK', NEW r \in Runs, NEW e \in Events, NEW o \in {"EXECUTED", "SKIPPED"},
           SettlePending(r, e, o)
    PROVE  LedgerInv'
<1> DEFINE row == Row("SETTLEMENT", e, r, o)
           m == [Knowing(r, row) EXCEPT !.settled = @ \cup {e}]
<1>1. /\ Active(r) /\ UNCHANGED <<held, left>> /\ run[r].pc = "settle"
      /\ AppendRow(row, r, m)
  BY DEF SettlePending, Active, Stages, sheets
<1>2. RunOK(r) /\ run[r].mem = rows /\ Counted(r) /\ run[r].grants = {}
  BY <1>1 DEF LedgerInv, RunOK
<1>3. e \in Reserved(rows)
  BY <1>2 DEF SettlePending, First, Due
<1>4. Booked(r) \cup Reserved(rows) \subseteq Events
  BY KeysTyped DEF LedgerInv, TypeOK, Memories, Booked
<1>5. WithinLimits(Booked(r) \cup Reserved(rows)) /\ OpenPositions \subseteq Booked(r)
  BY <1>2, <1>4, LimitsMonotone DEF Counted
<1>6. ASSUME rows' = rows \cup {row}
      PROVE  /\ Published(rows') = Published(rows) /\ Pended(rows') = Pended(rows)
             /\ Settlements(rows') = Settlements(rows) \cup {e}
             /\ Executed(rows') \in {Executed(rows), Executed(rows) \cup {e}}
             /\ Reserved(rows') = Reserved(rows) \ {e}
             /\ OpenPositions' = Executed(rows') \ left
  <2>1. \A k : Keys(rows', k) = Keys(rows, k) \cup (IF "SETTLEMENT" = k THEN {e} ELSE {})
    BY <1>6, AppendedKeys
  <2>2. Executed(rows') = Executed(rows) \cup (IF "SETTLEMENT" = "SETTLEMENT" /\ o = "EXECUTED" THEN {e} ELSE {})
    BY <1>6, AppendedExecuted
  <2>3. /\ Published(rows') = Published(rows) /\ Pended(rows') = Pended(rows)
        /\ Settlements(rows') = Settlements(rows) \cup {e}
    BY <2>1 DEF Published, Pended, Settlements
  <2>4. Executed(rows') \in {Executed(rows), Executed(rows) \cup {e}}
    BY <2>2
  <2> QED BY <1>1, <2>3, <2>4 DEF Reserved, OpenPositions
<1>7. ASSUME rows' = rows \cup {row} PROVE LedgerOK'
  <2>1. ExactlyOnce'
    <3>1. e \notin Keys(rows, "SETTLEMENT")
      BY <1>3 DEF Reserved, Settlements
    <3> QED BY <1>7, <3>1, NewKey DEF LedgerInv
  <2>2. Lineage'
    BY <1>1, <1>3, <1>6, <1>7 DEF LedgerInv, Lineage, Reserved, OpenPositions
  <2>3. RiskWithinLimits'
    <3>1. OpenPositions' \subseteq OpenPositions \cup {e}
      BY <1>6, <1>7 DEF OpenPositions
    <3>2. Reserved(rows') \cup OpenPositions' \subseteq Booked(r) \cup Reserved(rows)
      BY <1>3, <1>5, <1>6, <1>7, <3>1
    <3> QED BY <1>4, <1>5, <3>2, LimitsMonotone DEF RiskWithinLimits
  <2>4. row.kind # "PENDING_T1"
    BY RowFields
  <2> HIDE DEF row
  <2>5. /\ rows \subseteq rows' /\ \A x \in rows' : x.kind = "PENDING_T1" => x \in rows
        /\ Reserved(rows') \subseteq Reserved(rows)
    BY <1>6, <1>7, <2>4
  <2>6. OneBatchOutstanding'
    BY <2>5 DEF LedgerInv, OneBatchOutstanding
  <2>7. ReservedAfterPublication'
    BY <2>5 DEF LedgerInv, ReservedAfterPublication
  <2> QED BY <2>1, <2>2, <2>3, <2>6, <2>7 DEF LedgerOK
<1>8. ASSUME run' = [run EXCEPT ![r] = m], rows' = rows \cup {row} PROVE RunOK(r)'
  <2>1. run'[r] = m
    BY <1>8 DEF LedgerInv, TypeOK
  <2>2. /\ m.mem = rows' /\ m.pc = "settle" /\ m.inputs = run[r].inputs /\ m.existing = run[r].existing
        /\ m.settled = run[r].settled \cup {e} /\ m.grants = {}
    BY <1>1, <1>2, <1>8 DEF LedgerInv, TypeOK, Memories, Knowing
  <2>3. Unborn(r)'
    BY <1>1, <1>2, <1>8, RowFields DEF RunOK, Unborn
  <2> HIDE DEF m, row
  <2>4. OpenPositions' \subseteq Booked(r)'
    BY <1>5, <1>6, <1>8, <2>1, <2>2 DEF Booked, OpenPositions
  <2>5. Booked(r)' \cup Reserved(rows') \subseteq Booked(r) \cup Reserved(rows)
    BY <1>3, <1>6, <1>8, <2>1, <2>2 DEF Booked
  <2>6. WithinLimits(Booked(r)' \cup Reserved(rows'))
    BY <1>4, <1>5, <2>5, LimitsMonotone
  <2>7. Counted(r)'
    BY <2>1, <2>2, <2>4, <2>6 DEF Counted
  <2>8. \A x \in Reserved(rows') : SymbolOf[x] \in m.inputs
    BY <1>1, <1>2, <1>6, <1>8, <2>2 DEF RunOK
  <2> QED BY <2>1, <2>2, <2>3, <2>7, <2>8 DEF RunOK
<1> HIDE DEF m
<1> QED BY <1>1, <1>7, <1>8, AppendPreserves

LEMMA RecordPublishedEventPreserves ==
    ASSUME LedgerInv, TypeOK', NEW r \in Runs, NEW s \in Symbols, NEW e \in Events,
           RecordPublishedEvent(r, s, e)
    PROVE  LedgerInv'
<1> DEFINE row == Row("PUBLISHED_EVENT", e, r, "-")
           m == Knowing(r, row)
<1>1. /\ Active(r) /\ UNCHANGED <<held, left>> /\ run[r].pc = "write"
      /\ AppendRow(row, r, m)
  BY DEF RecordPublishedEvent, Current, Active, Stages, sheets
<1>2. RunOK(r) /\ run[r].mem = rows /\ e \notin Published(rows)
  BY <1>1 DEF LedgerInv, RunOK, RecordPublishedEvent, NewEvents
<1>3. ASSUME rows' = rows \cup {row}
      PROVE  /\ Published(rows') = Published(rows) \cup {e} /\ Pended(rows') = Pended(rows)
             /\ Settlements(rows') = Settlements(rows) /\ Executed(rows') = Executed(rows)
             /\ Reserved(rows') = Reserved(rows) /\ OpenPositions' = OpenPositions
  <2>1. \A k : Keys(rows', k) = Keys(rows, k) \cup (IF "PUBLISHED_EVENT" = k THEN {e} ELSE {})
    BY <1>3, AppendedKeys
  <2>2. Executed(rows') = Executed(rows) \cup (IF "PUBLISHED_EVENT" = "SETTLEMENT" /\ "-" = "EXECUTED" THEN {e} ELSE {})
    BY <1>3, AppendedExecuted
  <2>3. /\ Published(rows') = Published(rows) \cup {e} /\ Pended(rows') = Pended(rows)
        /\ Settlements(rows') = Settlements(rows)
    BY <2>1 DEF Published, Pended, Settlements
  <2>4. Executed(rows') = Executed(rows)
    BY <2>2
  <2> QED BY <1>1, <2>3, <2>4 DEF Reserved, OpenPositions
<1>4. ASSUME rows' = rows \cup {row} PROVE LedgerOK'
  <2>1. ExactlyOnce'
    BY <1>2, <1>4, NewKey DEF LedgerInv, Published
  <2>2. Lineage' /\ RiskWithinLimits'
    BY <1>1, <1>3, <1>4 DEF LedgerInv, Lineage, RiskWithinLimits
  <2>3. row.kind # "PENDING_T1"
    BY RowFields
  <2> HIDE DEF row
  <2>4. OneBatchOutstanding' /\ ReservedAfterPublication'
    BY <1>3, <1>4, <2>3 DEF LedgerInv, OneBatchOutstanding, ReservedAfterPublication
  <2> QED BY <2>1, <2>2, <2>4 DEF LedgerOK
<1>5. ASSUME run' = [run EXCEPT ![r] = m], rows' = rows \cup {row} PROVE RunOK(r)'
  <2>1. run'[r] = m
    BY <1>5 DEF LedgerInv, TypeOK
  <2>2. /\ m.mem = rows' /\ m.pc = "write" /\ m.existing = run[r].existing
        /\ m.settled = run[r].settled /\ m.grants = run[r].grants
    BY <1>1, <1>2, <1>5, KnowingFields DEF LedgerInv
  <2>3. row.kind # "PENDING_T1"
    BY RowFields
  <2> HIDE DEF m, row
  <2>4. Counted(r)'
    BY <1>1, <1>2, <1>3, <1>5, <2>1, <2>2 DEF RunOK, Counted, Booked
  <2>5. \A x \in m.grants : x \in Entry /\ PublishedByAnother(x, r)'
    BY <1>1, <1>2, <1>5, <2>2 DEF RunOK, PublishedByAnother
  <2> QED BY <1>1, <1>2, <1>3, <1>5, <2>1, <2>2, <2>3, <2>4, <2>5 DEF RunOK
<1> HIDE DEF m
<1> QED BY <1>1, <1>4, <1>5, AppendPreserves

LEMMA SavePendingPreserves ==
    ASSUME LedgerInv, TypeOK', NEW r \in Runs, NEW s \in Symbols, NEW e \in Events,
           SavePending(r, s, e)
    PROVE  LedgerInv'
<1>1. PICK d \in DecisionOf(r, e) :
        AppendRow(Row("PENDING_T1", e, r, d), r, Knowing(r, Row("PENDING_T1", e, r, d)))
  BY DEF SavePending
<1> DEFINE row == Row("PENDING_T1", e, r, d)
           m == Knowing(r, row)
<1>2. /\ Active(r) /\ UNCHANGED <<held, left>> /\ run[r].pc = "write"
      /\ AppendRow(row, r, m)
  BY <1>1 DEF SavePending, Current, Active, Stages, sheets
<1>3. RunOK(r) /\ run[r].mem = rows /\ Counted(r)
  BY <1>2 DEF LedgerInv, RunOK
<1>4. e \in run[r].grants /\ e \notin Pended(rows) /\ PublishedByAnother(e, r)
  BY <1>2, <1>3 DEF SavePending, RunOK
<1>5. e \in Published(rows) /\ e \notin Settlements(rows)
  BY <1>4 DEF PublishedByAnother, Published, Keys, LedgerInv, Lineage
<1>6. Booked(r) \cup Reserved(rows) \cup run[r].grants \subseteq Events
  BY KeysTyped DEF LedgerInv, TypeOK, Memories, Booked
<1>7. ASSUME rows' = rows \cup {row}
      PROVE  /\ Published(rows') = Published(rows) /\ Pended(rows') = Pended(rows) \cup {e}
             /\ Settlements(rows') = Settlements(rows) /\ Executed(rows') = Executed(rows)
             /\ Reserved(rows') = Reserved(rows) \cup {e} /\ OpenPositions' = OpenPositions
  <2>1. \A k : Keys(rows', k) = Keys(rows, k) \cup (IF "PENDING_T1" = k THEN {e} ELSE {})
    BY <1>7, AppendedKeys
  <2>2. Executed(rows') = Executed(rows) \cup (IF "PENDING_T1" = "SETTLEMENT" /\ d = "EXECUTED" THEN {e} ELSE {})
    BY <1>7, AppendedExecuted
  <2>3. /\ Published(rows') = Published(rows) /\ Pended(rows') = Pended(rows) \cup {e}
        /\ Settlements(rows') = Settlements(rows)
    BY <2>1 DEF Published, Pended, Settlements
  <2>4. Executed(rows') = Executed(rows)
    BY <2>2
  <2> QED BY <1>2, <1>5, <2>3, <2>4 DEF Reserved, OpenPositions
<1>8. \A x \in rows : x.kind = "PENDING_T1" => x.event \in Pended(rows)
  BY DEF Pended, Keys
\* Every reservation that is outstanding after this one was made by r.
<1>9. ASSUME rows' = rows \cup {row}
      PROVE  \A x \in rows' : x.kind = "PENDING_T1" /\ x.event \in Reserved(rows') => x.by = r
  <2>1. row.by = r /\ row.event = e
    BY RowFields
  <2> HIDE DEF row
  <2>2. \A x \in rows : x.kind = "PENDING_T1" /\ x.event \in Reserved(rows) => x.by = r
    BY <1>2, <1>3, <1>4 DEF RunOK
  <2> QED BY <1>4, <1>7, <1>8, <1>9, <2>1, <2>2
<1>10. ASSUME rows' = rows \cup {row} PROVE LedgerOK'
  <2>1. ExactlyOnce'
    BY <1>4, <1>10, NewKey DEF LedgerInv, Pended
  <2>2. Lineage'
    BY <1>2, <1>5, <1>7, <1>10 DEF LedgerInv, Lineage
  <2>3. RiskWithinLimits'
    <3>1. Reserved(rows') \cup OpenPositions' \subseteq Booked(r) \cup Reserved(rows) \cup run[r].grants
      BY <1>3, <1>4, <1>7, <1>10 DEF Counted
    <3> QED BY <1>3, <1>6, <3>1, LimitsMonotone DEF RiskWithinLimits, Counted
  <2>4. OneBatchOutstanding'
    BY <1>9, <1>10 DEF OneBatchOutstanding
  <2>5. row.by = r /\ row.event = e
    BY RowFields
  <2> HIDE DEF row
  <2>6. ReservedAfterPublication'
    BY <1>4, <1>10, <2>5 DEF LedgerInv, ReservedAfterPublication, PublishedByAnother
  <2> QED BY <2>1, <2>2, <2>3, <2>4, <2>6 DEF LedgerOK
<1>11. ASSUME run' = [run EXCEPT ![r] = m], rows' = rows \cup {row} PROVE RunOK(r)'
  <2>1. run'[r] = m
    BY <1>11 DEF LedgerInv, TypeOK
  <2>2. /\ m.mem = rows' /\ m.pc = "write" /\ m.existing = run[r].existing
        /\ m.settled = run[r].settled /\ m.grants = run[r].grants
    BY <1>2, <1>3, <1>11, KnowingFields DEF LedgerInv
  <2> HIDE DEF m, row
  <2>3. Booked(r)' = Booked(r)
    BY <1>7, <1>11, <2>1, <2>2 DEF Booked
  <2>4. Booked(r)' \cup Reserved(rows') \cup m.grants = Booked(r) \cup Reserved(rows) \cup run[r].grants
    BY <1>4, <1>7, <1>11, <2>2, <2>3
  <2>5. Counted(r)'
    BY <1>3, <1>7, <1>11, <2>1, <2>3, <2>4 DEF Counted
  <2>6. \A x \in m.grants : x \in Entry /\ PublishedByAnother(x, r)'
    BY <1>2, <1>3, <1>11, <2>2 DEF RunOK, PublishedByAnother
  <2> QED BY <1>9, <1>11, <2>1, <2>2, <2>5, <2>6 DEF RunOK
<1> HIDE DEF m
<1> QED BY <1>2, <1>10, <1>11, AppendPreserves

\* A run that is through with a symbol has ended or goes on as it was.
LEMMA PastFields ==
    ASSUME NEW memory \in Memories, NEW s, Past(memory, s) # Blank("done")
    PROVE  LET m == Past(memory, s)
           IN  /\ m.mem = memory.mem /\ m.pc = memory.pc /\ m.existing = memory.existing
               /\ m.settled = memory.settled /\ m.grants = memory.grants
<1>1. Past(memory, s) = [memory EXCEPT !.todo = @ \ {s}]
  BY DEF Past
<1> QED BY <1>1 DEF Memories

LEMMA RecordDailyResultPreserves ==
    ASSUME LedgerInv, TypeOK', NEW r \in Runs, NEW s \in Symbols, RecordDailyResult(r, s)
    PROVE  LedgerInv'
<1>1. /\ Active(r) /\ UNCHANGED <<held, left>> /\ run[r].pc = "write" /\ run[r] \in Memories
  BY DEF RecordDailyResult, Current, Active, Stages, sheets, LedgerInv, TypeOK
<1>2. RunOK(r) /\ run[r].mem = rows
  BY <1>1 DEF LedgerInv, RunOK
<1>3. CASE PublishedHere(r, s) = {}
  <2> DEFINE m == Past(run[r], s)
  <2>1. UNCHANGED rows /\ (run' = [run EXCEPT ![r] = m] \/ run' = [run EXCEPT ![r] = Blank("failed")])
    BY <1>3 DEF RecordDailyResult, Become
  <2>2. CASE run' = [run EXCEPT ![r] = Blank("failed")] \/ m = Blank("done")
    BY <1>1, <2>1, <2>2, EndPreserves
  <2>3. CASE run' = [run EXCEPT ![r] = m] /\ m # Blank("done")
    <3>1. /\ m.mem = rows /\ m.pc = "write" /\ m.existing = run[r].existing
          /\ m.settled = run[r].settled /\ m.grants = run[r].grants
      BY <1>1, <1>2, <2>3, PastFields
    <3> HIDE DEF m
    <3>2. run'[r] = m
      BY <2>3 DEF LedgerInv, TypeOK
    <3>3. RunOK(r)'
      BY <1>1, <1>2, <2>1, <3>1, <3>2 DEF RunOK, Counted, Booked, OpenPositions, Active, PublishedByAnother
    <3> QED BY <1>1, <2>1, <2>3, <3>3, QuietStep
  <2> QED BY <2>1, <2>2, <2>3
<1>4. CASE PublishedHere(r, s) # {}
  <2>1. PICK e \in PublishedHere(r, s) :
          AppendRow(Row("DAILY_RESULT", e, r, "-"), r, Past(Knowing(r, Row("DAILY_RESULT", e, r, "-")), s))
    BY <1>4 DEF RecordDailyResult
  <2> DEFINE row == Row("DAILY_RESULT", e, r, "-")
             known == Knowing(r, row)
             m == Past(known, s)
  <2>2. rows' = rows \cup {row} => LedgerOK'
    BY <1>1, NeutralRow
  <2>3. ASSUME run' = [run EXCEPT ![r] = m], rows' = rows \cup {row} PROVE RunOK(r)'
    <3>1. CASE m = Blank("done")
      BY <2>3, <3>1, EndedRunOK DEF LedgerInv
    <3>2. CASE m # Blank("done")
      <4>1. /\ known.mem = rows' /\ known.pc = "write" /\ known.existing = run[r].existing
            /\ known.settled = run[r].settled /\ known.grants = run[r].grants
        BY <1>1, <1>2, <2>3, KnowingFields DEF LedgerInv
      <4>2. known \in Memories
        <5>1. row \in Rows
          BY RowTyped, EventTyped DEF Kinds, PublishedHere
        <5> QED BY <5>1, KnowingTyped DEF LedgerInv
      <4> HIDE DEF known
      <4>3. /\ m.mem = known.mem /\ m.pc = known.pc /\ m.existing = known.existing
            /\ m.settled = known.settled /\ m.grants = known.grants
        BY <3>2, <4>2, PastFields
      <4> HIDE DEF m
      <4>4. run'[r] = m
        BY <2>3 DEF LedgerInv, TypeOK
      <4>5. Executed(rows') = Executed(rows) /\ Reserved(rows') = Reserved(rows) /\ OpenPositions' = OpenPositions
        BY <1>1, <2>3, NeutralRow
      <4>6. row.kind = "DAILY_RESULT"
        BY RowFields
      <4> HIDE DEF row
      <4>7. Counted(r)'
        BY <1>1, <1>2, <2>3, <4>1, <4>3, <4>4, <4>5 DEF RunOK, Counted, Booked
      <4>8. \A x \in m.grants : x \in Entry /\ PublishedByAnother(x, r)'
        BY <1>1, <1>2, <2>3, <4>1, <4>3 DEF RunOK, PublishedByAnother
      <4>9. m.grants # {} =>
              \A x \in rows' : x.kind = "PENDING_T1" /\ x.event \in Reserved(rows') => x.by = r
        BY <1>1, <1>2, <2>3, <4>1, <4>3, <4>5, <4>6 DEF RunOK
      <4> QED BY <4>1, <4>3, <4>4, <4>7, <4>8, <4>9 DEF RunOK
    <3> QED BY <3>1, <3>2
  <2> HIDE DEF m
  <2> QED BY <1>1, <2>1, <2>2, <2>3, AppendPreserves DEF m
<1> QED BY <1>3, <1>4

-----------------------------------------------------------------------------
(***************************************************************************)
(* The theorems, for runs that do not overlap and fills that are listed.   *)
(***************************************************************************)
LEMMA LedgerInvInit ==
    ASSUME Init
    PROVE  LedgerInv
<1>1. TypeOK
  BY ChainAssumption, BlankTyped DEF Init, TypeOK, Sessions, Idle
<1>2. \A k : Keys(rows, k) = {}
  BY DEF Init, Keys
<1>3. Executed(rows) = {} /\ Reserved(rows) = {} /\ OpenPositions = {}
  BY <1>2 DEF Init, Executed, Reserved, Pended, OpenPositions
<1>4. WithinLimits({})
  BY FS_EmptySet, PortfolioAssumption DEF WithinLimits, OnePerSymbol
<1>5. RiskWithinLimits
  BY <1>3, <1>4 DEF RiskWithinLimits
<1>6. ExactlyOnce /\ Lineage /\ OneBatchOutstanding /\ ReservedAfterPublication
  BY <1>2, <1>3 DEF Init, ExactlyOnce, UniqueKeys, Lineage, OneBatchOutstanding, ReservedAfterPublication,
                    Settlements, Pended, Published
<1>7. \A r \in Runs : run[r].pc = "idle"
  BY DEF Init, Blank
<1>8. Solo /\ \A r \in Runs : RunOK(r)
  BY <1>7 DEF Init, Solo, RunOK, Active, Stages, Unborn
<1> QED BY <1>1, <1>5, <1>6, <1>8 DEF LedgerInv

LEMMA LedgerInvPreserved ==
    ASSUME Serialized, PositionsListed, LedgerInv, [Next]_vars
    PROVE  LedgerInv'
<1>1. TypeOK'
  BY TypePreserved DEF LedgerInv
<1>2. CASE NextSession \/ RefreshHistory \/ (\E s \in Symbols : EditPool(s)) \/ UNCHANGED vars
  <2>1. UNCHANGED <<held, left, rows, run>>
    BY <1>2 DEF NextSession, RefreshHistory, EditPool, vars, sheets
  <2> QED BY <1>1, <2>1, MarketPreserves
<1>3. CASE \E e \in Events : ListPosition(e) \/ ClosePosition(e)
  BY <1>1, <1>3, OperatorPreserves
<1>4. ASSUME NEW r \in Runs, Start(r) \/ Step(r) \/ Crash(r) PROVE LedgerInv'
  <2>1. CASE Start(r)
    BY <1>1, <2>1, StartPreserves
  <2>2. CASE Open(r) \/ ReserveBatch(r)
    BY <1>1, <2>2, OpenPreserves, ReserveBatchPreserves
  <2>3. CASE \E e \in Events : \/ SavePositionOrigin(r, e)
                               \/ \E o \in {"EXECUTED", "SKIPPED"} : SettlePending(r, e, o)
    BY <1>1, <2>3, SavePositionOriginPreserves, SettlePendingPreserves
  <2>4. CASE \E s \in Symbols : \/ \E e \in Events : RecordPublishedEvent(r, s, e) \/ SavePending(r, s, e)
                                \/ RecordDailyResult(r, s)
    BY <1>1, <2>4, RecordPublishedEventPreserves, SavePendingPreserves, RecordDailyResultPreserves
  <2>5. CASE Crash(r)
    BY <1>1, <2>5, EndPreserves DEF Crash, Become, sheets
  <2> QED BY <1>4, <2>1, <2>2, <2>3, <2>4, <2>5 DEF Step
<1> QED BY <1>2, <1>3, <1>4 DEF Next

LEMMA LedgerCorrect ==
    ASSUME Serialized, PositionsListed
    PROVE  Spec => []LedgerInv
  BY LedgerInvInit, LedgerInvPreserved, PTL DEF Spec

\* Reservations and open positions together never exceed the portfolio limits,
\* over all sessions and runs, whatever append or process failed.
THEOREM CapacityHolds ==
    ASSUME Serialized, PositionsListed
    PROVE  Spec => []RiskWithinLimits
<1>1. LedgerInv => RiskWithinLimits
  BY DEF LedgerInv
<1> QED BY <1>1, LedgerCorrect, PTL

\* No record is ever appended twice.
THEOREM RecordsAreUnique ==
    ASSUME Serialized, PositionsListed
    PROVE  Spec => []ExactlyOnce
<1>1. LedgerInv => ExactlyOnce
  BY DEF LedgerInv
<1> QED BY <1>1, LedgerCorrect, PTL

\* All unsettled reservations come from one batch.
THEOREM OneBatch ==
    ASSUME Serialized, PositionsListed
    PROVE  Spec => []OneBatchOutstanding
<1>1. LedgerInv => OneBatchOutstanding
  BY DEF LedgerInv
<1> QED BY <1>1, LedgerCorrect, PTL

\* An event is reserved only after another run published it.
THEOREM ApprovalFollowsPublication ==
    ASSUME Serialized, PositionsListed
    PROVE  Spec => []ReservedAfterPublication
<1>1. LedgerInv => ReservedAfterPublication
  BY DEF LedgerInv
<1> QED BY <1>1, LedgerCorrect, PTL

-----------------------------------------------------------------------------
(***************************************************************************)
(* The worksheet and the positions sheet implement the reservation book.   *)
(***************************************************************************)
BookNow == [e \in Events |-> BookOf(e)]

LEMMA BookStutters ==
    ASSUME UNCHANGED <<rows, left>> 
    PROVE  UNCHANGED BookNow
<1>1. \A x : BookOf(x)' = BookOf(x)
  BY DEF BookOf
<1> QED BY <1>1 DEF BookNow

LEMMA BookLimits == \A S : Book!WithinLimits(S) <=> WithinLimits(S)
<1>1. \A S, k : Book!InGroup(S, k) = InGroup(S, k)
  BY DEF Book!InGroup, InGroup
<1>2. \A S : Book!OnePerSymbol(S) <=> OnePerSymbol(S)
  BY DEF Book!OnePerSymbol, OnePerSymbol
<1> SUFFICES ASSUME NEW S PROVE Book!WithinLimits(S) <=> WithinLimits(S)
  OBVIOUS
<1>0. \A T : Book!Cardinality(T) = Cardinality(T)
  BY DEF Book!Cardinality, Cardinality, Book!IsFiniteSet, IsFiniteSet
<1>3. \A x : Book!Cardinality(Book!InGroup(S, GroupOf[x])) = Cardinality(InGroup(S, GroupOf[x]))
  BY <1>0, <1>1, Zenon
<1>4. (\A x \in S : GroupOf[x] # UnknownGroup => Book!Cardinality(Book!InGroup(S, GroupOf[x])) <= MaxGroupUnits)
      <=> (\A x \in S : GroupOf[x] # UnknownGroup => Cardinality(InGroup(S, GroupOf[x])) <= MaxGroupUnits)
  <2>1. ASSUME NEW x \in S
        PROVE  Book!Cardinality(Book!InGroup(S, GroupOf[x])) <= MaxGroupUnits
               <=> Cardinality(InGroup(S, GroupOf[x])) <= MaxGroupUnits
    BY <1>3, Zenon
  <2> QED BY <2>1, Zenon
<1> QED BY <1>0, <1>2, <1>4, Zenon DEF Book!WithinLimits, WithinLimits

\* One event moves on; a reservation is within the limits.
LEMMA BookAdvances ==
    ASSUME RiskWithinLimits', TypeOK', NEW e \in Events,
           \A x \in Events \ {e} : BookOf(x)' = BookOf(x),
           <<BookOf(e), BookOf(e)'>> \in Book!Life,
           BookOf(e)' = "reserved" => e \in Entry
    PROVE  Book!Advance(e)
<1>1. BookNow[e] = BookOf(e) /\ BookNow'[e] = BookOf(e)'
  BY DEF BookNow
<1>2. BookNow' = [BookNow EXCEPT ![e] = BookNow'[e]]
  BY <1>1 DEF BookNow
<1>3. Book!Taken(BookNow') \subseteq Reserved(rows') \cup OpenPositions'
  BY DEF Book!Taken, BookNow, BookOf, Reserved, OpenPositions
<1>4. Reserved(rows') \cup OpenPositions' \subseteq Events
  BY KeysTyped DEF TypeOK, OpenPositions
<1>5. WithinLimits(Book!Taken(BookNow'))
  BY <1>3, <1>4, LimitsMonotone DEF RiskWithinLimits
<1>6. <<BookNow[e], BookNow'[e]>> \in Book!Life
  BY <1>1
<1>7. BookNow'[e] = "reserved" => e \in Entry /\ Book!WithinLimits(Book!Taken(BookNow'))
  BY <1>1, <1>5, BookLimits
<1> QED BY <1>2, <1>6, <1>7 DEF Book!Advance, BookNow

BookStep == \/ \E e \in Events : Book!Advance(e)
            \/ UNCHANGED BookNow

LEMMA BookStepInv ==
    ASSUME LedgerInv, LedgerInv', [Next]_vars
    PROVE  BookStep
<1> USE DEF LedgerInv
<1>1. /\ Executed(rows) \subseteq Settlements(rows)
      /\ left \subseteq Executed(rows) /\ held \subseteq Executed(rows) \ left
      /\ Settlements(rows) \subseteq Pended(rows) /\ Pended(rows) \subseteq Published(rows)
  BY KeysTyped DEF TypeOK, Lineage, OpenPositions
<1>2. CASE UNCHANGED <<rows, left>>
  BY <1>2, BookStutters DEF BookStep
<1>3. ASSUME NEW e \in Events, ClosePosition(e) PROVE BookStep
  <2>1. UNCHANGED rows /\ left' = left \cup {e} /\ e \in Executed(rows) \ left
    BY <1>1, <1>3 DEF ClosePosition
  <2>2. BookOf(e) = "open" /\ BookOf(e)' = "left" /\ \A x \in Events \ {e} : BookOf(x)' = BookOf(x)
    BY <2>1 DEF BookOf
  <2> QED BY <2>2, BookAdvances DEF BookStep, Book!Life
<1>4. ASSUME NEW r \in Runs, NEW e \in Events, SavePositionOrigin(r, e) PROVE BookStep
  <2>1. CASE rows' = rows \cup {Row("POSITION_ORIGIN", e, r, "-")}
    <3>1. \A k : Keys(rows', k) = Keys(rows, k) \cup (IF "POSITION_ORIGIN" = k THEN {e} ELSE {})
      BY <2>1, AppendedKeys
    <3>2. Executed(rows') = Executed(rows) \cup (IF "POSITION_ORIGIN" = "SETTLEMENT" /\ "-" = "EXECUTED" THEN {e} ELSE {})
      BY <2>1, AppendedExecuted, SMTT(30)
    <3>3. \A x : BookOf(x)' = BookOf(x)
      BY <3>1, <3>2, <1>4 DEF BookOf, Settlements, Pended, Published, SavePositionOrigin, sheets
    <3> QED BY <3>3 DEF BookStep, BookNow
  <2> QED BY <1>2, <1>4, <2>1 DEF SavePositionOrigin, AppendRow, sheets
<1>5. ASSUME NEW r \in Runs, NEW e \in Events, NEW o \in {"EXECUTED", "SKIPPED"}, SettlePending(r, e, o)
      PROVE  BookStep
  <2>1. CASE rows' = rows \cup {Row("SETTLEMENT", e, r, o)}
    <3>1. \A k : Keys(rows', k) = Keys(rows, k) \cup (IF "SETTLEMENT" = k THEN {e} ELSE {})
      BY <2>1, AppendedKeys
    <3>2. Executed(rows') = Executed(rows) \cup (IF "SETTLEMENT" = "SETTLEMENT" /\ o = "EXECUTED" THEN {e} ELSE {})
      BY <2>1, AppendedExecuted
    <3>3. /\ Published(rows') = Published(rows) /\ Pended(rows') = Pended(rows)
          /\ Settlements(rows') = Settlements(rows) \cup {e}
      BY <3>1 DEF Published, Pended, Settlements
    <3>4. Executed(rows') \in {Executed(rows), Executed(rows) \cup {e}} /\ left' = left
      BY <3>2, <1>5 DEF SettlePending, sheets
    <3>5. run[r].mem = rows
      BY <1>5 DEF RunOK, SettlePending
    <3>6. e \in Pended(rows) \ Settlements(rows)
      BY <1>5, <3>5 DEF SettlePending, First, Due, Reserved
    <3>7. BookOf(e) = "reserved" /\ BookOf(e)' \in {"open", "released"}
      BY <1>1, <3>3, <3>4, <3>6 DEF BookOf
    <3>8. \A x \in Events \ {e} : BookOf(x)' = BookOf(x)
      BY <3>3, <3>4 DEF BookOf
    <3> QED BY <3>7, <3>8, BookAdvances DEF BookStep, Book!Life
  <2> QED BY <1>2, <1>5, <2>1 DEF SettlePending, AppendRow, sheets
<1>6. ASSUME NEW r \in Runs, NEW s \in Symbols, NEW e \in Events, RecordPublishedEvent(r, s, e) PROVE BookStep
  <2>1. CASE rows' = rows \cup {Row("PUBLISHED_EVENT", e, r, "-")}
    <3>1. \A k : Keys(rows', k) = Keys(rows, k) \cup (IF "PUBLISHED_EVENT" = k THEN {e} ELSE {})
      BY <2>1, AppendedKeys
    <3>2. Executed(rows') = Executed(rows) \cup (IF "PUBLISHED_EVENT" = "SETTLEMENT" /\ "-" = "EXECUTED" THEN {e} ELSE {})
      BY <2>1, AppendedExecuted
    <3>3. /\ Published(rows') = Published(rows) \cup {e} /\ Pended(rows') = Pended(rows)
          /\ Settlements(rows') = Settlements(rows) 
      BY <3>1 DEF Published, Pended, Settlements
    <3>4. Executed(rows') = Executed(rows) /\ left' = left
      BY <3>2, <1>6 DEF RecordPublishedEvent, sheets
    <3>5. e \notin Published(rows)
      BY <1>6 DEF RunOK, RecordPublishedEvent, Current, NewEvents
    <3>6. BookOf(e) = "unseen" /\ BookOf(e)' = "proposed"
      BY <1>1, <3>3, <3>4, <3>5 DEF BookOf
    <3>7. \A x \in Events \ {e} : BookOf(x)' = BookOf(x)
      BY <3>3, <3>4 DEF BookOf
    <3> QED BY <3>6, <3>7, BookAdvances DEF BookStep, Book!Life
  <2> QED BY <1>2, <1>6, <2>1 DEF RecordPublishedEvent, AppendRow, sheets
<1>7. ASSUME NEW r \in Runs, NEW s \in Symbols, NEW e \in Events, SavePending(r, s, e) PROVE BookStep
  <2>1. PICK d \in DecisionOf(r, e) :
          AppendRow(Row("PENDING_T1", e, r, d), r, Knowing(r, Row("PENDING_T1", e, r, d)))
    BY <1>7 DEF SavePending
  <2>2. CASE rows' = rows \cup {Row("PENDING_T1", e, r, d)}
    <3>1. \A k : Keys(rows', k) = Keys(rows, k) \cup (IF "PENDING_T1" = k THEN {e} ELSE {})
      BY <2>2, AppendedKeys
    <3>2. Executed(rows') = Executed(rows) \cup (IF "PENDING_T1" = "SETTLEMENT" /\ d = "EXECUTED" THEN {e} ELSE {})
      BY <2>2, AppendedExecuted
    <3>3. /\ Published(rows') = Published(rows) /\ Pended(rows') = Pended(rows) \cup {e}
          /\ Settlements(rows') = Settlements(rows) 
      BY <3>1 DEF Published, Pended, Settlements
    <3>4. Executed(rows') = Executed(rows) /\ left' = left
      BY <3>2, <1>7 DEF SavePending, sheets
    <3>5. run[r].pc = "write" /\ RunOK(r) /\ e \in run[r].grants \ Pended(run[r].mem)
      BY <1>7 DEF SavePending, Current
    <3>6. e \notin Pended(rows) /\ e \in Entry /\ PublishedByAnother(e, r)
      BY <3>5 DEF RunOK, Active, Stages
    <3>7. e \in Published(rows)
      BY <3>6 DEF PublishedByAnother, Published, Keys
    <3>8. BookOf(e) = "proposed" /\ BookOf(e)' = "reserved"
      BY <1>1, <3>3, <3>4, <3>6, <3>7 DEF BookOf
    <3>9. \A x \in Events \ {e} : BookOf(x)' = BookOf(x)
      BY <3>3, <3>4 DEF BookOf
    <3> QED BY <3>6, <3>8, <3>9, BookAdvances DEF BookStep, Book!Life
  <2> QED BY <1>2, <1>7, <2>1, <2>2 DEF SavePending, AppendRow, sheets
<1>8. ASSUME NEW r \in Runs, NEW s \in Symbols, RecordDailyResult(r, s) PROVE BookStep
  <2>1. UNCHANGED left
    BY <1>8 DEF RecordDailyResult, sheets
  <2>2. CASE PublishedHere(r, s) = {}
    BY <1>2, <1>8, <2>1, <2>2 DEF RecordDailyResult
  <2>3. ASSUME NEW e, rows' = rows \cup {Row("DAILY_RESULT", e, r, "-")} PROVE BookStep
    <3>1. \A k : Keys(rows', k) = Keys(rows, k) \cup (IF "DAILY_RESULT" = k THEN {e} ELSE {})
      BY <2>3, AppendedKeys
    <3>2. Executed(rows') = Executed(rows) \cup (IF "DAILY_RESULT" = "SETTLEMENT" /\ "-" = "EXECUTED" THEN {e} ELSE {})
      BY <2>3, AppendedExecuted
    <3>3. \A x : BookOf(x)' = BookOf(x)
      BY <2>1, <3>1, <3>2 DEF BookOf, Settlements, Pended, Published
    <3> QED BY <3>3 DEF BookStep, BookNow
  <2>4. CASE PublishedHere(r, s) # {}
    <3>1. \/ rows' = rows
          \/ \E e : rows' = rows \cup {Row("DAILY_RESULT", e, r, "-")}
      BY <1>8, <2>4 DEF RecordDailyResult, AppendRow
    <3> QED BY <1>2, <2>1, <2>3, <3>1
  <2> QED BY <2>2, <2>4
<1>9. CASE NextSession \/ RefreshHistory \/ (\E s \in Symbols : EditPool(s))
           \/ (\E e \in Events : ListPosition(e)) \/ UNCHANGED vars
  BY <1>2, <1>9 DEF NextSession, RefreshHistory, EditPool, ListPosition, vars, sheets
<1>10. ASSUME NEW r \in Runs, Start(r) \/ Open(r) \/ ReserveBatch(r) \/ Crash(r) PROVE BookStep
  BY <1>2, <1>10 DEF Start, Open, ReserveBatch, Crash, sheets
<1> QED BY <1>3, <1>4, <1>5, <1>6, <1>7, <1>8, <1>9, <1>10 DEF Next, Step

\* The decision chain implements ReservationBook: an event is proposed,
\* reserved within the limits, settled and closed, each at most once.
THEOREM BookRefinement ==
    ASSUME Serialized, PositionsListed
    PROVE  Spec => ImplementsReservationBook
<1>1. Init => Book!BookInit
  <2> SUFFICES ASSUME Init PROVE Book!BookInit
    OBVIOUS
  <2>1. \A k : Keys(rows, k) = {}
    BY DEF Init, Keys
  <2>2. Executed(rows) = {} /\ left = {}
    BY DEF Init, Executed
  <2>3. \A e : BookOf(e) = "unseen"
    BY <2>1, <2>2 DEF BookOf, Settlements, Pended, Published
  <2> QED BY <2>3 DEF Book!BookInit
<1>2. LedgerInv /\ LedgerInv' /\ [Next]_vars => [\E e \in Events : Book!Advance(e)]_BookNow
  BY BookStepInv DEF BookStep
<1> QED BY <1>1, <1>2, LedgerCorrect, PTL DEF Spec, ImplementsReservationBook, Book!BookSpec, BookNow

-----------------------------------------------------------------------------
(***************************************************************************)
(* A ledger whose appends are independent can be left with one event       *)
(* incomplete. The invariant says where the active run is with it: while   *)
(* it settles, only the first due event can have an origin and no          *)
(* settlement; while it writes, only the symbol it is at can have a        *)
(* published event without its daily result, and every symbol it is        *)
(* through with has all of its events in the ledger.                       *)
(***************************************************************************)
Unrecorded == Published(rows) \ Recorded(rows)
Unsettled  == Origins(rows) \ Settlements(rows)

OneTorn == \A d, e \in Unrecorded \cup Unsettled : d = e

AtCurrent(r, e) ==
    /\ Row("PUBLISHED_EVENT", e, r, "-") \in rows
    /\ SymbolOf[e] \in run[r].todo
    /\ \A t \in run[r].todo : SymbolOf[e] <= t

OfThisSession(r) ==
    \A x \in rows : x.kind = "PUBLISHED_EVENT" /\ x.by = r => SignalOf[x.event] = run[r].asOf

\* The symbols r is through with hide no event that r did not settle.
ThroughWith(r) ==
    \A e \in Events :
        /\ SymbolOf[e] \in run[r].inputs \ run[r].todo
        /\ SignalOf[e] = run[r].asOf
        /\ SettledHere(r, SymbolOf[e]) = {}
        => e \in Recorded(rows)

Neat(r) ==
    /\ run[r].pc = "settle" => Unrecorded = {} /\ \A e \in Unsettled : First(r, e)
    /\ run[r].pc = "write" =>
         Unsettled = {} /\ (\A e \in Unrecorded : AtCurrent(r, e)) /\ OfThisSession(r) /\ ThroughWith(r)

NeatInv == OneTorn /\ \A r \in Runs : Neat(r)

\* Two events that are first in line to be settled are one.
LEMMA OneFirst ==
    ASSUME LedgerInv, NEW r \in Runs, run[r].pc = "settle", NEW d \in Events, NEW e \in Events,
           First(r, d), First(r, e)
    PROVE  d = e
<1>1. run[r].mem = rows
  BY DEF LedgerInv, RunOK
<1>2. d \in Reserved(rows) /\ e \in Reserved(rows) /\ SymbolOf[d] = SymbolOf[e]
  <2>1. SymbolOf[d] \in Int /\ SymbolOf[e] \in Int
    BY ChainAssumption
  <2> QED BY <1>1, <2>1 DEF First, Due
<1> QED BY <1>2 DEF LedgerInv, RiskWithinLimits, WithinLimits, OnePerSymbol

LEMMA TornTyped ==
    ASSUME TypeOK
    PROVE  Unrecorded \subseteq Events /\ Unsettled \subseteq Events
  BY KeysTyped DEF TypeOK, Unrecorded, Unsettled, Published, Origins

\* A step of r that leaves the ledger alone: the other runs are not active.
LEMMA NeatAfter ==
    ASSUME LedgerInv, NeatInv, NEW r \in Runs, Active(r),
           NEW m, run' = [run EXCEPT ![r] = m], OneTorn', Neat(r)'
    PROVE  NeatInv'
<1>1. \A q \in Runs \ {r} : run'[q] = run[q] /\ ~Active(q)
  BY DEF LedgerInv, Solo, TypeOK
<1>2. \A q \in Runs \ {r} : Neat(q)'
  BY <1>1 DEF Neat, Active, Stages
<1> QED BY <1>2 DEF NeatInv

LEMMA NeatEnd ==
    ASSUME LedgerInv, NeatInv, NEW r \in Runs, Active(r), OneTorn',
           NEW stage \in {"done", "failed"}, run' = [run EXCEPT ![r] = Blank(stage)]
    PROVE  NeatInv'
<1>1. run'[r].pc = stage
  BY DEF LedgerInv, TypeOK, Blank
<1>2. Neat(r)'
  BY <1>1 DEF Neat
<1> QED BY <1>2, NeatAfter

LEMMA TornKept ==
    ASSUME UNCHANGED rows
    PROVE  Unrecorded' = Unrecorded /\ Unsettled' = Unsettled /\ (OneTorn => OneTorn')
  BY DEF Unrecorded, Unsettled, OneTorn, Published, Recorded, Origins, Settlements, Keys

\* As AppendPreserves: what the row does, and what the run knows after it.
LEMMA NeatAppend ==
    ASSUME LedgerInv, NeatInv, NEW r \in Runs, Active(r),
           NEW row, NEW m, AppendRow(row, r, m),
           rows' = rows \cup {row} => OneTorn',
           run' = [run EXCEPT ![r] = m] /\ rows' = rows \cup {row} => Neat(r)'
    PROVE  NeatInv'
<1>1. OneTorn'
  BY TornKept DEF AppendRow, NeatInv
<1>2. CASE run' = [run EXCEPT ![r] = Blank("failed")]
  BY <1>1, <1>2, NeatEnd
<1>3. CASE run' = [run EXCEPT ![r] = m] /\ rows' = rows \cup {row}
  BY <1>1, <1>3, NeatAfter
<1> QED BY <1>2, <1>3 DEF AppendRow, Become

\* What a row does to the incomplete events.
LEMMA TornByRow ==
    ASSUME NEW kind \in Kinds, NEW e, NEW r, NEW d, rows' = rows \cup {Row(kind, e, r, d)}
    PROVE  /\ Published(rows') = Published(rows) \cup (IF kind = "PUBLISHED_EVENT" THEN {e} ELSE {})
           /\ Pended(rows') = Pended(rows) \cup (IF kind = "PENDING_T1" THEN {e} ELSE {})
           /\ Settlements(rows') = Settlements(rows) \cup (IF kind = "SETTLEMENT" THEN {e} ELSE {})
           /\ Origins(rows') = Origins(rows) \cup (IF kind = "POSITION_ORIGIN" THEN {e} ELSE {})
           /\ Recorded(rows') = Recorded(rows) \cup (IF kind = "DAILY_RESULT" THEN {e} ELSE {})
<1>1. \A k : Keys(rows', k) = Keys(rows, k) \cup (IF kind = k THEN {e} ELSE {})
  BY AppendedKeys
<1> QED BY <1>1 DEF Published, Pended, Settlements, Origins, Recorded

LEMMA NeatOpen ==
    ASSUME LedgerInv, NeatInv, NEW r \in Runs, Open(r)
    PROVE  NeatInv'
<1>1. Active(r) /\ UNCHANGED rows
  BY DEF Open, Active, Stages
<1>2. CASE run' = [run EXCEPT ![r] = Blank("failed")]
  BY <1>1, <1>2, TornKept, NeatEnd DEF NeatInv
<1>3. CASE Loadable(rows) /\ run' = [run EXCEPT ![r] = [run[r] EXCEPT !.pc = "settle", !.mem = rows]]
  <2>1. Unrecorded = {} /\ Unsettled = {}
    BY <1>3 DEF Loadable, Unrecorded, Unsettled
  <2>2. run'[r].pc = "settle"
    BY <1>3 DEF LedgerInv, TypeOK, Memories
  <2>3. OneTorn' /\ Neat(r)'
    BY <1>1, <2>1, <2>2, TornKept DEF NeatInv, Neat
  <2> QED BY <1>1, <1>3, <2>3, NeatAfter
<1> QED BY <1>2, <1>3 DEF Open, Become

LEMMA NeatOrigin ==
    ASSUME LedgerInv, NeatInv, NEW r \in Runs, NEW e \in Events, SavePositionOrigin(r, e)
    PROVE  NeatInv'
<1> DEFINE row == Row("POSITION_ORIGIN", e, r, "-")
           m == Knowing(r, row)
<1>1. Active(r) /\ run[r].pc = "settle" /\ AppendRow(row, r, m) /\ First(r, e) /\ e \notin Origins(run[r].mem)
  BY DEF SavePositionOrigin, Active, Stages
<1>2. run[r].mem = rows /\ Unrecorded = {} /\ (\A x \in Unsettled : First(r, x))
  BY <1>1 DEF LedgerInv, RunOK, NeatInv, Neat
<1>3. Unsettled \subseteq {e}
  BY <1>1, <1>2, OneFirst, TornTyped DEF LedgerInv
<1>4. rows' = rows \cup {row} => Unrecorded' = {} /\ Unsettled' \subseteq {e} /\ Reserved(rows') = Reserved(rows)
                                 /\ Pended(rows') = Pended(rows)
  <2> SUFFICES ASSUME rows' = rows \cup {row}
               PROVE  Unrecorded' = {} /\ Unsettled' \subseteq {e} /\ Reserved(rows') = Reserved(rows)
                      /\ Pended(rows') = Pended(rows)
    OBVIOUS
  <2>1. /\ Published(rows') = Published(rows) /\ Recorded(rows') = Recorded(rows)
        /\ Pended(rows') = Pended(rows) /\ Settlements(rows') = Settlements(rows)
        /\ Origins(rows') = Origins(rows) \cup {e}
    BY TornByRow DEF Kinds
  <2> QED BY <1>2, <1>3, <2>1 DEF Unrecorded, Unsettled, Reserved
<1>5. rows' = rows \cup {row} => OneTorn'
  BY <1>4 DEF OneTorn
<1>6. ASSUME run' = [run EXCEPT ![r] = m], rows' = rows \cup {row} PROVE Neat(r)'
  <2>1. run'[r] = m
    BY <1>6 DEF LedgerInv, TypeOK
  <2>2. m.mem = rows' /\ m.pc = "settle" /\ m.inputs = run[r].inputs
    BY <1>1, <1>2, <1>6, KnowingFields DEF LedgerInv
  <2>3. m.asOf = run[r].asOf /\ m.missing = run[r].missing
    BY DEF LedgerInv, TypeOK, Memories, Knowing
  <2>4. \A x : x.kind = "PENDING_T1" => (x \in rows' <=> x \in rows)
    <3>1. row.kind = "POSITION_ORIGIN"
      BY RowFields
    <3> QED BY <1>6, <3>1
  <2>5. \A x : OwnDecision(rows', x) <=> OwnDecision(rows, x)
    BY <2>4 DEF OwnDecision
  <2> HIDE DEF m, row
  <2>6. Due(r)' = Due(r)
    BY <1>2, <1>4, <1>6, <2>1, <2>2, <2>3, <2>5 DEF Due
  <2>7. First(r, e)'
    BY <1>1, <2>6 DEF First
  <2> QED BY <1>4, <1>6, <2>1, <2>2, <2>7 DEF Neat
<1> HIDE DEF row, m
<1> QED BY <1>1, <1>5, <1>6, NeatAppend

LEMMA NeatSettlement ==
    ASSUME LedgerInv, NeatInv, NEW r \in Runs, NEW e \in Events, NEW o, SettlePending(r, e, o)
    PROVE  NeatInv'
<1> DEFINE row == Row("SETTLEMENT", e, r, o)
           m == [Knowing(r, row) EXCEPT !.settled = @ \cup {e}]
<1>1. Active(r) /\ run[r].pc = "settle" /\ AppendRow(row, r, m) /\ First(r, e)
  BY DEF SettlePending, Active, Stages
<1>2. Unrecorded = {} /\ (\A x \in Unsettled : First(r, x))
  BY <1>1 DEF NeatInv, Neat
<1>3. Unsettled \subseteq {e}
  BY <1>1, <1>2, OneFirst, TornTyped DEF LedgerInv
<1>4. rows' = rows \cup {row} => Unrecorded' = {} /\ Unsettled' = {}
  <2> SUFFICES ASSUME rows' = rows \cup {row} PROVE Unrecorded' = {} /\ Unsettled' = {}
    OBVIOUS
  <2>1. /\ Published(rows') = Published(rows) /\ Recorded(rows') = Recorded(rows)
        /\ Settlements(rows') = Settlements(rows) \cup {e} /\ Origins(rows') = Origins(rows)
    BY TornByRow DEF Kinds
  <2> QED BY <1>2, <1>3, <2>1 DEF Unrecorded, Unsettled
<1>5. rows' = rows \cup {row} => OneTorn'
  BY <1>4 DEF OneTorn
<1>6. ASSUME run' = [run EXCEPT ![r] = m], rows' = rows \cup {row} PROVE Neat(r)'
  <2>1. run'[r].pc = "settle"
    BY <1>1, <1>6 DEF LedgerInv, TypeOK, Memories, Knowing
  <2> QED BY <1>4, <1>6, <2>1 DEF Neat
<1> HIDE DEF row, m
<1> QED BY <1>1, <1>5, <1>6, NeatAppend

LEMMA NeatBatch ==
    ASSUME LedgerInv, NeatInv, NEW r \in Runs, ReserveBatch(r)
    PROVE  NeatInv'
<1>1. Active(r) /\ UNCHANGED rows /\ run[r].pc = "settle" /\ Due(r) = {}
  BY DEF ReserveBatch, Active, Stages
<1>2. PICK G : run' = [run EXCEPT ![r] = [run[r] EXCEPT !.pc = "write", !.grants = G, !.todo = run[r].inputs]]
  BY DEF ReserveBatch, Become
<1>3. Unrecorded = {} /\ Unsettled = {} /\ Unborn(r)
  BY <1>1 DEF NeatInv, Neat, First, LedgerInv, RunOK
<1>4. run'[r].pc = "write" /\ run'[r].inputs = run'[r].todo
  BY <1>2 DEF LedgerInv, TypeOK, Memories
<1>5. OneTorn' /\ Unrecorded' = {} /\ Unsettled' = {}
  BY <1>1, <1>3, TornKept DEF NeatInv
<1>6. OfThisSession(r)' /\ ThroughWith(r)'
  BY <1>1, <1>3, <1>4 DEF Unborn, OfThisSession, ThroughWith
<1>7. Neat(r)'
  BY <1>4, <1>5, <1>6 DEF Neat
<1> QED BY <1>1, <1>2, <1>5, <1>7, NeatAfter

LEMMA NeatPublished ==
    ASSUME LedgerInv, NeatInv, NEW r \in Runs, NEW s \in Symbols, NEW e \in Events,
           RecordPublishedEvent(r, s, e)
    PROVE  NeatInv'
<1> DEFINE row == Row("PUBLISHED_EVENT", e, r, "-")
           m == Knowing(r, row)
<1>1. /\ Active(r) /\ run[r].pc = "write" /\ AppendRow(row, r, m)
      /\ s \in run[r].todo /\ (\A t \in run[r].todo : s <= t)
      /\ SymbolOf[e] = s /\ SignalOf[e] = run[r].asOf
  BY DEF RecordPublishedEvent, Current, NewEvents, Active, Stages
<1>2. Unsettled = {} /\ (\A x \in Unrecorded : AtCurrent(r, x)) /\ OfThisSession(r) /\ ThroughWith(r)
  BY <1>1 DEF NeatInv, Neat
<1>3. row.kind = "PUBLISHED_EVENT" /\ row.event = e /\ row.by = r
  BY RowFields
\* Whatever r has published for the symbol it is at is this event.
<1>4. \A x \in Unrecorded : x = e
  <2> SUFFICES ASSUME NEW x \in Unrecorded PROVE x = e
    OBVIOUS
  <2>1. x \in Events /\ SymbolOf[x] \in Int /\ SymbolOf[e] \in Int
    BY TornTyped, ChainAssumption DEF LedgerInv
  <2>2. SymbolOf[x] = SymbolOf[e] /\ SignalOf[x] = SignalOf[e]
    BY <1>1, <1>2, <2>1, RowFields DEF AtCurrent, OfThisSession
  <2> QED BY <2>1, <2>2, ChainAssumption
<1>5. rows' = rows \cup {row} => Unrecorded' \subseteq {e} /\ Unsettled' = {} /\ Recorded(rows') = Recorded(rows)
  <2> SUFFICES ASSUME rows' = rows \cup {row}
               PROVE  Unrecorded' \subseteq {e} /\ Unsettled' = {} /\ Recorded(rows') = Recorded(rows)
    OBVIOUS
  <2>1. /\ Published(rows') = Published(rows) \cup {e} /\ Recorded(rows') = Recorded(rows)
        /\ Settlements(rows') = Settlements(rows) /\ Origins(rows') = Origins(rows)
    BY TornByRow DEF Kinds
  <2> QED BY <1>2, <1>4, <2>1 DEF Unrecorded, Unsettled
<1>6. rows' = rows \cup {row} => OneTorn'
  BY <1>5 DEF OneTorn
<1>7. ASSUME run' = [run EXCEPT ![r] = m], rows' = rows \cup {row} PROVE Neat(r)'
  <2>1. run'[r] = m
    BY <1>7 DEF LedgerInv, TypeOK
  <2>2. m.pc = "write" /\ m.inputs = run[r].inputs /\ m.todo = run[r].todo /\ m.settled = run[r].settled
    BY <1>1, KnowingFields DEF LedgerInv
  <2>3. m.asOf = run[r].asOf
    BY DEF LedgerInv, TypeOK, Memories, Knowing
  <2> HIDE DEF m
  <2>4. AtCurrent(r, e)'
    BY <1>1, <1>7, <2>1, <2>2 DEF AtCurrent
  <2> HIDE DEF row
  <2>5. OfThisSession(r)'
    BY <1>1, <1>2, <1>3, <1>7, <2>1, <2>3 DEF OfThisSession
  <2>6. ThroughWith(r)'
    BY <1>2, <1>5, <1>7, <2>1, <2>2, <2>3 DEF ThroughWith, SettledHere
  <2> QED BY <1>5, <1>7, <2>1, <2>2, <2>4, <2>5, <2>6 DEF Neat
<1> HIDE DEF row, m
<1> QED BY <1>1, <1>6, <1>7, NeatAppend

LEMMA NeatPending ==
    ASSUME LedgerInv, NeatInv, NEW r \in Runs, NEW s \in Symbols, NEW e \in Events, SavePending(r, s, e)
    PROVE  NeatInv'
<1>1. PICK d \in DecisionOf(r, e) :
        AppendRow(Row("PENDING_T1", e, r, d), r, Knowing(r, Row("PENDING_T1", e, r, d)))
  BY DEF SavePending
<1> DEFINE row == Row("PENDING_T1", e, r, d)
           m == Knowing(r, row)
<1>2. Active(r) /\ run[r].pc = "write" /\ AppendRow(row, r, m)
  BY <1>1 DEF SavePending, Current, Active, Stages
<1>3. Unsettled = {} /\ (\A x \in Unrecorded : AtCurrent(r, x)) /\ OfThisSession(r) /\ ThroughWith(r)
  BY <1>2 DEF NeatInv, Neat
<1>4. row.kind = "PENDING_T1"
  BY RowFields
<1>5. rows' = rows \cup {row} =>
        Unrecorded' = Unrecorded /\ Unsettled' = Unsettled /\ Recorded(rows') = Recorded(rows)
  <2> SUFFICES ASSUME rows' = rows \cup {row}
               PROVE  Unrecorded' = Unrecorded /\ Unsettled' = Unsettled /\ Recorded(rows') = Recorded(rows)
    OBVIOUS
  <2>1. /\ Published(rows') = Published(rows) /\ Recorded(rows') = Recorded(rows)
        /\ Settlements(rows') = Settlements(rows) /\ Origins(rows') = Origins(rows)
    BY TornByRow DEF Kinds
  <2> QED BY <2>1 DEF Unrecorded, Unsettled
<1>6. rows' = rows \cup {row} => OneTorn'
  BY <1>5 DEF NeatInv, OneTorn
<1>7. ASSUME run' = [run EXCEPT ![r] = m], rows' = rows \cup {row} PROVE Neat(r)'
  <2>1. run'[r] = m
    BY <1>7 DEF LedgerInv, TypeOK
  <2>2. m.pc = "write" /\ m.inputs = run[r].inputs /\ m.todo = run[r].todo /\ m.settled = run[r].settled
    BY <1>2, KnowingFields DEF LedgerInv
  <2>3. m.asOf = run[r].asOf
    BY DEF LedgerInv, TypeOK, Memories, Knowing
  <2> HIDE DEF m, row
  <2>4. \A x \in Unrecorded' : AtCurrent(r, x)'
    BY <1>3, <1>5, <1>7, <2>1, <2>2 DEF AtCurrent
  <2>5. OfThisSession(r)'
    BY <1>3, <1>4, <1>7, <2>1, <2>3 DEF OfThisSession
  <2>6. ThroughWith(r)'
    BY <1>3, <1>5, <1>7, <2>1, <2>2, <2>3 DEF ThroughWith, SettledHere
  <2> QED BY <1>3, <1>5, <1>7, <2>1, <2>2, <2>4, <2>5, <2>6 DEF Neat
<1> HIDE DEF row, m
<1> QED BY <1>2, <1>6, <1>7, NeatAppend

\* A run that is through with s: what it still has to do.
LEMMA PastTodo ==
    ASSUME NEW memory \in Memories, NEW s
    PROVE  LET m == Past(memory, s)
           IN  \/ m = Blank("done") /\ memory.todo \subseteq {s}
               \/ /\ m.pc = memory.pc /\ m.todo = memory.todo \ {s}
                  /\ m.inputs = memory.inputs /\ m.asOf = memory.asOf /\ m.settled = memory.settled
<1> DEFINE rest == [memory EXCEPT !.todo = @ \ {s}]
<1>1. /\ rest.pc = memory.pc /\ rest.todo = memory.todo \ {s}
      /\ rest.inputs = memory.inputs /\ rest.asOf = memory.asOf /\ rest.settled = memory.settled
  BY DEF Memories
<1>2. Past(memory, s) = IF rest.todo = {} THEN Blank("done") ELSE rest
  BY DEF Past
<1> HIDE DEF rest
<1> QED BY <1>1, <1>2

\* Recording s makes every event the run published durable, and with no new
\* event of s left, all of them are in the ledger.
LEMMA DailyResultLeavesNothing ==
    ASSUME LedgerInv, NeatInv, NEW r \in Runs, NEW s \in Symbols, Current(r, s), NewEvents(r, s) = {}
    PROVE  /\ Unrecorded \subseteq PublishedHere(r, s)
           /\ \A d, e \in PublishedHere(r, s) : d = e
           /\ Unsettled = {}
           /\ \A e \in Events :
                /\ SymbolOf[e] = s
                /\ SignalOf[e] = run[r].asOf
                /\ SettledHere(r, s) = {}
                => e \in Published(rows)
<1>1. /\ run[r].pc = "write" /\ run[r].mem = rows /\ rows \subseteq Rows
      /\ s \in run[r].todo /\ (\A t \in run[r].todo : s <= t)
  BY DEF Current, LedgerInv, RunOK, TypeOK
<1>2. Unsettled = {} /\ (\A e \in Unrecorded : AtCurrent(r, e)) /\ OfThisSession(r)
  BY <1>1 DEF NeatInv, Neat
<1>3. ASSUME NEW e \in Unrecorded PROVE e \in PublishedHere(r, s)
  <2>1. e \in Events /\ SymbolOf[e] \in Int /\ s \in Int
    BY TornTyped, ChainAssumption DEF LedgerInv
  <2>2. SymbolOf[e] = s
    BY <1>1, <1>2, <2>1 DEF AtCurrent
  <2> QED BY <1>1, <1>2, <2>1, <2>2 DEF AtCurrent, PublishedHere
<1>4. ASSUME NEW d \in PublishedHere(r, s), NEW e \in PublishedHere(r, s) PROVE d = e
  <2>1. SymbolOf[d] = SymbolOf[e] /\ SignalOf[d] = SignalOf[e]
    BY <1>1, <1>2, RowFields DEF PublishedHere, OfThisSession
  <2> QED BY <2>1, ChainAssumption DEF PublishedHere
<1>5. ASSUME NEW e \in Events, SymbolOf[e] = s, SignalOf[e] = run[r].asOf, SettledHere(r, s) = {}
      PROVE  e \in Published(rows)
  BY <1>1, <1>5 DEF NewEvents
<1> QED BY <1>2, <1>3, <1>4, <1>5

LEMMA NeatDailyResult ==
    ASSUME LedgerInv, NeatInv, NEW r \in Runs, NEW s \in Symbols, RecordDailyResult(r, s)
    PROVE  NeatInv'
<1>1. /\ Active(r) /\ run[r].pc = "write" /\ run[r] \in Memories
      /\ Current(r, s) /\ NewEvents(r, s) = {}
  BY DEF RecordDailyResult, Current, Active, Stages, LedgerInv, TypeOK
<1>2. OfThisSession(r) /\ ThroughWith(r)
  BY <1>1 DEF NeatInv, Neat
<1>3. /\ Unrecorded \subseteq PublishedHere(r, s) /\ Unsettled = {}
      /\ \A d, e \in PublishedHere(r, s) : d = e
      /\ \A e \in Events : SymbolOf[e] = s /\ SignalOf[e] = run[r].asOf /\ SettledHere(r, s) = {}
                          => e \in Published(rows)
  BY <1>1, DailyResultLeavesNothing
\* Whatever the run is to become, with nothing left unrecorded.
<1>4. ASSUME NEW m, NEW known \in Memories, m = Past(known, s), run' = [run EXCEPT ![r] = m],
             known.pc = "write", known.todo = run[r].todo, known.inputs = run[r].inputs,
             known.asOf = run[r].asOf, known.settled = run[r].settled,
             Unrecorded' = {}, Unsettled' = {}, Recorded(rows) \subseteq Recorded(rows'),
             Published(rows) \subseteq Published(rows'), OfThisSession(r) => \A x \in rows' :
               x.kind = "PUBLISHED_EVENT" /\ x.by = r => SignalOf[x.event] = run[r].asOf
      PROVE  Neat(r)'
  <2>1. run'[r] = m
    BY <1>4 DEF LedgerInv, TypeOK
  <2>2. CASE m = Blank("done")
    BY <2>1, <2>2 DEF Neat, Blank
  <2>3. CASE /\ m.pc = known.pc /\ m.todo = known.todo \ {s}
             /\ m.inputs = known.inputs /\ m.asOf = known.asOf /\ m.settled = known.settled
    <3>1. OfThisSession(r)'
      BY <1>2, <1>4, <2>1, <2>3 DEF OfThisSession
    <3>2. ThroughWith(r)'
      <4>1. \A x : SettledHere(r, x)' = SettledHere(r, x)
        BY <1>4, <2>1, <2>3 DEF SettledHere
      <4>2. Published(rows') \subseteq Recorded(rows')
        BY <1>4 DEF Unrecorded
      <4> SUFFICES ASSUME NEW e \in Events,
                          SymbolOf[e] \in run[r].inputs \ (run[r].todo \ {s}),
                          SignalOf[e] = run[r].asOf, SettledHere(r, SymbolOf[e]) = {}
                   PROVE  e \in Recorded(rows')
        BY <1>4, <2>1, <2>3, <4>1 DEF ThroughWith
      <4>3. CASE SymbolOf[e] = s
        BY <1>3, <1>4, <4>2, <4>3
      <4>4. CASE SymbolOf[e] # s
        BY <1>2, <1>4, <4>4 DEF ThroughWith
      <4> QED BY <4>3, <4>4
    <3> QED BY <1>4, <2>1, <2>3, <3>1, <3>2 DEF Neat
  <2> QED BY <1>4, <2>2, <2>3, PastTodo
<1>5. CASE PublishedHere(r, s) = {}
  <2>1. UNCHANGED rows /\ (run' = [run EXCEPT ![r] = Past(run[r], s)] \/ run' = [run EXCEPT ![r] = Blank("failed")])
    BY <1>5 DEF RecordDailyResult, Become
  <2>2. OneTorn' /\ Unrecorded' = {} /\ Unsettled' = {}
    BY <1>3, <1>5, <2>1, TornKept DEF NeatInv
  <2>3. CASE run' = [run EXCEPT ![r] = Blank("failed")]
    BY <1>1, <2>2, <2>3, NeatEnd
  <2>4. CASE run' = [run EXCEPT ![r] = Past(run[r], s)]
    <3>1. Neat(r)'
      BY <1>1, <1>4, <2>1, <2>2, <2>4 DEF OfThisSession
    <3> QED BY <1>1, <2>2, <2>4, <3>1, NeatAfter
  <2> QED BY <2>1, <2>3, <2>4
<1>6. CASE PublishedHere(r, s) # {}
  <2>1. PICK e \in PublishedHere(r, s) :
          AppendRow(Row("DAILY_RESULT", e, r, "-"), r, Past(Knowing(r, Row("DAILY_RESULT", e, r, "-")), s))
    BY <1>6 DEF RecordDailyResult
  <2> DEFINE row == Row("DAILY_RESULT", e, r, "-")
             known == Knowing(r, row)
             m == Past(known, s)
  <2>2. rows' = rows \cup {row} =>
          /\ Unrecorded' = {} /\ Unsettled' = {}
          /\ Recorded(rows) \subseteq Recorded(rows') /\ Published(rows') = Published(rows)
    <3> SUFFICES ASSUME rows' = rows \cup {row}
                 PROVE  /\ Unrecorded' = {} /\ Unsettled' = {}
                        /\ Recorded(rows) \subseteq Recorded(rows') /\ Published(rows') = Published(rows)
      OBVIOUS
    <3>1. /\ Published(rows') = Published(rows) /\ Recorded(rows') = Recorded(rows) \cup {e}
          /\ Settlements(rows') = Settlements(rows) /\ Origins(rows') = Origins(rows)
      BY TornByRow DEF Kinds
    <3> QED BY <1>3, <3>1 DEF Unrecorded, Unsettled
  <2>3. rows' = rows \cup {row} => OneTorn'
    BY <2>2 DEF OneTorn
  <2>4. ASSUME run' = [run EXCEPT ![r] = m], rows' = rows \cup {row} PROVE Neat(r)'
    <3>1. known \in Memories
      <4>1. row \in Rows
        BY RowTyped, EventTyped DEF Kinds, PublishedHere
      <4> QED BY <4>1, KnowingTyped DEF LedgerInv
    <3>2. /\ known.pc = "write" /\ known.todo = run[r].todo /\ known.inputs = run[r].inputs
          /\ known.settled = run[r].settled
      BY <1>1, KnowingFields DEF LedgerInv
    <3>3. known.asOf = run[r].asOf
      BY DEF LedgerInv, TypeOK, Memories, Knowing
    <3>4. row.kind = "DAILY_RESULT"
      BY RowFields
    <3> HIDE DEF row, known
    <3>5. OfThisSession(r) =>
            \A x \in rows' : x.kind = "PUBLISHED_EVENT" /\ x.by = r => SignalOf[x.event] = run[r].asOf
      BY <2>4, <3>4 DEF OfThisSession
    <3> HIDE DEF m
    <3>6. m = Past(known, s)
      BY DEF m
    <3> QED BY <1>4, <2>2, <2>4, <3>1, <3>2, <3>3, <3>5, <3>6
  <2> HIDE DEF row, m, known
  <2>5. AppendRow(row, r, m)
    BY <2>1 DEF row, m, known
  <2> QED BY <1>1, <2>3, <2>4, <2>5, NeatAppend
<1> QED BY <1>5, <1>6

LEMMA NeatInvInit ==
    ASSUME Init
    PROVE  NeatInv
<1>1. \A k : Keys(rows, k) = {}
  BY DEF Init, Keys
<1>2. OneTorn
  BY <1>1 DEF OneTorn, Unrecorded, Unsettled, Published, Origins
<1>3. \A r \in Runs : run[r].pc = "idle"
  BY DEF Init, Blank
<1> QED BY <1>2, <1>3 DEF NeatInv, Neat

LEMMA NeatInvPreserved ==
    ASSUME LedgerInv, NeatInv, [Next]_vars
    PROVE  NeatInv'
<1>1. CASE UNCHANGED <<rows, run>>
  <2>1. \A r \in Runs : Neat(r)'
    BY <1>1, TornKept
       DEF NeatInv, Neat, First, Due, AtCurrent, OfThisSession, ThroughWith, SettledHere
  <2> QED BY <1>1, <2>1, TornKept DEF NeatInv
<1>2. ASSUME NEW r \in Runs, Start(r) PROVE NeatInv'
  <2> DEFINE m == [Blank("open") EXCEPT !.asOf = clock, !.inputs = pool, !.existing = held, !.missing = gaps]
  <2>1. UNCHANGED rows /\ run' = [run EXCEPT ![r] = m] /\ m.pc = "open"
    BY <1>2 DEF Start, Become, Blank
  <2> HIDE DEF m
  <2>2. run'[r].pc = "open" /\ \A q \in Runs \ {r} : run'[q] = run[q]
    BY <2>1 DEF LedgerInv, TypeOK
  <2>3. \A q \in Runs : Neat(q)'
    BY <2>1, <2>2, TornKept
       DEF NeatInv, Neat, First, Due, AtCurrent, OfThisSession, ThroughWith, SettledHere
  <2> QED BY <2>1, <2>3, TornKept DEF NeatInv
<1>3. ASSUME NEW r \in Runs, Step(r) PROVE NeatInv'
  <2>1. CASE Open(r) \/ ReserveBatch(r)
    BY <2>1, NeatOpen, NeatBatch
  <2>2. CASE \E e \in Events : \/ SavePositionOrigin(r, e)
                               \/ \E o \in {"EXECUTED", "SKIPPED"} : SettlePending(r, e, o)
    BY <2>2, NeatOrigin, NeatSettlement
  <2>3. CASE \E s \in Symbols : \/ \E e \in Events : RecordPublishedEvent(r, s, e) \/ SavePending(r, s, e)
                                \/ RecordDailyResult(r, s)
    BY <2>3, NeatPublished, NeatPending, NeatDailyResult
  <2> QED BY <1>3, <2>1, <2>2, <2>3 DEF Step
<1>4. ASSUME NEW r \in Runs, Crash(r) PROVE NeatInv'
  BY <1>4, TornKept, NeatEnd DEF Crash, Become, NeatInv
<1> QED BY <1>1, <1>2, <1>3, <1>4
      DEF Next, NextSession, RefreshHistory, EditPool, ListPosition, ClosePosition, vars, sheets

LEMMA NeatAlways ==
    ASSUME Serialized, PositionsListed
    PROVE  Spec => []NeatInv
<1>1. Init => NeatInv
  BY NeatInvInit
<1>2. LedgerInv /\ NeatInv /\ [Next]_vars => NeatInv'
  BY NeatInvPreserved
<1> QED BY <1>1, <1>2, LedgerCorrect, PTL DEF Spec

\* At most one event of the worksheet is incomplete, whatever append failed or
\* process was killed.
THEOREM OneTornEvent ==
    ASSUME Serialized, PositionsListed
    PROVE  Spec => []AtMostOneTornEvent
<1>1. NeatInv => AtMostOneTornEvent
  <2> DEFINE Torn == (Published(rows) \ Recorded(rows)) \cup (Origins(rows) \ Settlements(rows))
  <2> SUFFICES ASSUME NeatInv PROVE Cardinality(Torn) <= 1
    BY DEF AtMostOneTornEvent
  <2>1. \A d, e \in Torn : d = e
    BY DEF NeatInv, OneTorn, Unrecorded, Unsettled
  <2> HIDE DEF Torn
  <2>2. CASE Torn = {}
    BY <2>2, FS_EmptySet
  <2>3. CASE Torn # {}
    <3>1. PICK e : Torn = {e}
      BY <2>1, <2>3
    <3> QED BY <3>1, FS_Singleton
  <2> QED BY <2>2, <2>3
<1> QED BY <1>1, NeatAlways, PTL

\* Only the last daily result finishes a run.
LEMMA OnlyAResultFinishes ==
    ASSUME LedgerInv, [Next]_vars, NEW r \in Runs, Active(r), run'[r].pc = "done"
    PROVE  \E s \in Symbols : RecordDailyResult(r, s)
<1> DEFINE Ends(m) == run' = [run EXCEPT ![r] = m]
<1>0. run[r].pc \in Stages /\ run \in [Runs -> Memories] /\ run'[r] # run[r]
  BY DEF Active, LedgerInv, TypeOK, Stages
<1>1. \A m : Ends(m) => m.pc = "done"
  BY <1>0
<1>2. \A stage \in {"open", "failed"} : ~Ends(Blank(stage))
  <2>1. \A stage \in {"open", "failed"} : Blank(stage).pc # "done"
    BY DEF Blank
  <2> HIDE DEF Ends
  <2> QED BY <1>1, <2>1
<1>3. ASSUME NEW row, AppendRow(row, r, Knowing(r, row)) PROVE FALSE
  BY <1>0, <1>1, <1>2, <1>3, KnowingFields DEF AppendRow, Become, LedgerInv, Stages
<1>4. ASSUME NEW q \in Runs, Start(q) \/ Step(q) \/ Crash(q) PROVE q = r /\ Step(r)
  <2>1. q = r
    <3>1. \E m : run' = [run EXCEPT ![q] = m]
      BY <1>4 DEF Start, Step, Crash, Open, ReserveBatch, SavePositionOrigin, SettlePending,
                  RecordPublishedEvent, SavePending, RecordDailyResult, AppendRow, Become
    <3> QED BY <1>0, <3>1
  <2>2. ~Start(r) /\ ~Crash(r)
    BY <1>0, <1>2 DEF Start, MayStart, Crash, Become, Stages
  <2> QED BY <1>4, <2>1, <2>2
<1>5. Step(r)
  BY <1>0, <1>4 DEF Next, NextSession, RefreshHistory, EditPool, ListPosition, ClosePosition, vars, sheets
<1>6. ~Open(r) /\ ~ReserveBatch(r)
  <2>1. ~Open(r)
    <3> DEFINE m == [run[r] EXCEPT !.pc = "settle", !.mem = rows]
    <3>1. m.pc = "settle"
      BY <1>0 DEF Memories
    <3> QED BY <1>1, <1>2, <3>1 DEF Open, Become
  <2>2. ASSUME ReserveBatch(r) PROVE FALSE
    <3>1. PICK G : Ends([run[r] EXCEPT !.pc = "write", !.grants = G, !.todo = run[r].inputs])
      BY <2>2 DEF ReserveBatch, Become
    <3>2. [run[r] EXCEPT !.pc = "write", !.grants = G, !.todo = run[r].inputs].pc = "write"
      BY <1>0 DEF Memories
    <3> QED BY <1>1, <3>1, <3>2
  <2> QED BY <2>1, <2>2
<1>7. \A e \in Events : ~SavePositionOrigin(r, e)
  BY <1>3 DEF SavePositionOrigin
<1>8. ASSUME NEW e \in Events, NEW o, SettlePending(r, e, o) PROVE FALSE
  <2> DEFINE row == Row("SETTLEMENT", e, r, o)
             m == [Knowing(r, row) EXCEPT !.settled = @ \cup {e}]
  <2>1. m.pc = run[r].pc
    BY <1>0 DEF Memories, Knowing
  <2>2. AppendRow(row, r, m)
    BY <1>8 DEF SettlePending
  <2> HIDE DEF m
  <2> QED BY <1>0, <1>1, <1>2, <2>1, <2>2 DEF AppendRow, Become, Stages
<1>9. \A s \in Symbols, e \in Events : ~RecordPublishedEvent(r, s, e) /\ ~SavePending(r, s, e)
  BY <1>3 DEF RecordPublishedEvent, SavePending
<1> QED BY <1>5, <1>6, <1>7, <1>8, <1>9 DEF Step

LEMMA FinishedClean ==
    ASSUME LedgerInv, NeatInv, NEW r \in Runs, NEW s \in Symbols, RecordDailyResult(r, s),
           run'[r].pc = "done"
    PROVE  run[r].todo \subseteq {s} /\ Published(rows) \subseteq Recorded(rows')
           /\ Recorded(rows) \subseteq Recorded(rows')
<1>1. run[r].pc = "write" /\ run[r] \in Memories /\ Current(r, s) /\ NewEvents(r, s) = {}
  BY DEF RecordDailyResult, Current, LedgerInv, TypeOK
<1>2. Unrecorded \subseteq PublishedHere(r, s) /\ \A d, e \in PublishedHere(r, s) : d = e
  BY <1>1, DailyResultLeavesNothing
<1>3. ASSUME NEW known \in Memories, known.pc = "write", known.todo = run[r].todo,
             \/ run' = [run EXCEPT ![r] = Past(known, s)]
             \/ run' = [run EXCEPT ![r] = Blank("failed")]
      PROVE  run[r].todo \subseteq {s} /\ run' = [run EXCEPT ![r] = Past(known, s)]
  <2>1. run' # [run EXCEPT ![r] = Blank("failed")]
    BY DEF LedgerInv, TypeOK, Blank
  <2>2. run'[r] = Past(known, s) /\ run' = [run EXCEPT ![r] = Past(known, s)]
    BY <1>3, <2>1 DEF LedgerInv, TypeOK
  <2> QED BY <1>3, <2>2, PastTodo
<1>4. CASE PublishedHere(r, s) = {}
  <2>1. UNCHANGED rows /\ (run' = [run EXCEPT ![r] = Past(run[r], s)] \/ run' = [run EXCEPT ![r] = Blank("failed")])
    BY <1>4 DEF RecordDailyResult, Become
  <2>2. Unrecorded = {}
    BY <1>2, <1>4
  <2> QED BY <1>1, <1>3, <2>1, <2>2 DEF Unrecorded
<1>5. CASE PublishedHere(r, s) # {}
  <2>1. PICK e \in PublishedHere(r, s) :
          AppendRow(Row("DAILY_RESULT", e, r, "-"), r, Past(Knowing(r, Row("DAILY_RESULT", e, r, "-")), s))
    BY <1>5 DEF RecordDailyResult
  <2> DEFINE row == Row("DAILY_RESULT", e, r, "-")
             known == Knowing(r, row)
  <2>2. known \in Memories /\ known.pc = "write" /\ known.todo = run[r].todo
    <3>1. row \in Rows
      BY RowTyped, EventTyped DEF Kinds, PublishedHere
    <3> QED BY <1>1, <3>1, KnowingTyped, KnowingFields DEF LedgerInv
  <2>3. AppendRow(row, r, Past(known, s))
    BY <2>1
  <2>4. run[r].todo \subseteq {s} /\ run' = [run EXCEPT ![r] = Past(known, s)]
    <3> HIDE DEF row, known
    <3> QED BY <1>3, <2>2, <2>3 DEF AppendRow, Become
  <2>5. rows' = rows \cup {row}
    <3>1. run' # [run EXCEPT ![r] = Blank("failed")]
      BY DEF LedgerInv, TypeOK, Blank
    <3> QED BY <2>1, <3>1 DEF AppendRow, Become
  <2>6. Recorded(rows') = Recorded(rows) \cup {e}
    BY <2>5, TornByRow DEF Kinds
  <2> QED BY <1>2, <2>4, <2>6 DEF Unrecorded
<1> QED BY <1>4, <1>5

\* A run only finishes with every new event of its symbols in the ledger, but
\* for symbols whose earlier event it settled.
THEOREM NothingElseHidden ==
    ASSUME Serialized, PositionsListed
    PROVE  Spec => OnlySettlementHidesAnEvent
<1> DEFINE Complete(r) ==
             \A e \in Events :
               /\ SymbolOf[e] \in run[r].inputs
               /\ SignalOf[e] = run[r].asOf
               /\ SettledHere(r, SymbolOf[e]) = {}
               => e \in Recorded(rows')
           Finishing == \A r \in Runs : Active(r) /\ run'[r].pc = "done" => Complete(r)
<1>1. ASSUME LedgerInv, NeatInv, [Next]_vars PROVE Finishing
  <2> SUFFICES ASSUME NEW r \in Runs, Active(r), run'[r].pc = "done" PROVE Complete(r)
    OBVIOUS
  <2>1. PICK s \in Symbols : RecordDailyResult(r, s)
    BY <1>1, OnlyAResultFinishes
  <2>2. /\ run[r].pc = "write" /\ run[r].mem = rows
        /\ Current(r, s) /\ NewEvents(r, s) = {} /\ ThroughWith(r)
    BY <1>1, <2>1 DEF RecordDailyResult, Current, LedgerInv, RunOK, NeatInv, Neat
  <2>3. run[r].todo \subseteq {s} /\ Published(rows) \subseteq Recorded(rows')
        /\ Recorded(rows) \subseteq Recorded(rows')
    BY <1>1, <2>1, FinishedClean
  <2> SUFFICES ASSUME NEW e \in Events, SymbolOf[e] \in run[r].inputs, SignalOf[e] = run[r].asOf,
                      SettledHere(r, SymbolOf[e]) = {}
               PROVE  e \in Recorded(rows')
    OBVIOUS
  <2>4. CASE SymbolOf[e] = s
    BY <2>2, <2>3, <2>4 DEF NewEvents
  <2>5. CASE SymbolOf[e] # s
    BY <2>2, <2>3, <2>5 DEF ThroughWith
  <2> QED BY <2>4, <2>5
<1>2. LedgerInv /\ NeatInv /\ [Next]_vars => [Finishing]_vars
  BY <1>1
<1> QED BY <1>2, LedgerCorrect, NeatAlways, PTL DEF Spec, OnlySettlementHidesAnEvent

=============================================================================
