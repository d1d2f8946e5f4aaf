------------------------ MODULE SetupLifecycleProofs ------------------------
(* What holds of the two lifecycles of a symbol for any price history, any    *)
(* calendar and any lookback: they never compete, an end is final, no         *)
(* lifecycle is decided twice, no later session changes what the replay of    *)
(* the whole history tells of an earlier one, the events of a setup are of    *)
(* ever later impulses, the close that would invalidate an impulse never      *)
(* falls, and what is confirmed is a sound structure to the evaluator.        *)
EXTENDS SetupDecision, SwingEngineProofs, SequenceTheorems, TLAPS

\* The two setups are never both followed before their confirmation: they read
\* one primary scenario, and a setup whose scenario is gone fails on that day.
OneLive(day) == ~ \A s \in Setups : day[s].state \in Live

\* From one day to the next an ended lifecycle stays, or a further one starts.
Forward(t, u) ==
    \/ u = t
    \/ t.state \notin Terminal
    \/ u.number = t.number + 1 /\ u.candidate.key # t.candidate.key

OneLiveSetup == \A i \in DOMAIN days : OneLive(days[i])

EndIsFinal ==
    \A i \in 1..(Len(days) - 1) : \A s \in Setups : Forward(days[i][s], days[i + 1][s])

IsSeq == \E S : days \in Seq(S)

Inv == IsSeq /\ OneLiveSetup /\ EndIsFinal

-----------------------------------------------------------------------------
(* One day.                                                                   *)

LEMMA LongerSeq ==
    ASSUME NEW S, NEW s \in Seq(S), NEW x
    PROVE  /\ Append(s, x) \in Seq(S \cup {x})
           /\ Len(Append(s, x)) = Len(s) + 1 /\ Len(s) \in Nat
           /\ DOMAIN Append(s, x) = 1..(Len(s) + 1) /\ DOMAIN s = 1..Len(s)
           /\ \A i \in 1..Len(s) : Append(s, x)[i] = s[i]
           /\ Append(s, x)[Len(s) + 1] = x
<1>1. s \in Seq(S \cup {x})
  BY SMT
<1> QED BY <1>1, AppendProperties

\* No scenario is a candidate of both setups.
LEMMA OneCandidate ==
    ASSUME NEW r
    PROVE  Wave2Candidate(r) = NoCandidate \/ ContinuationCandidate(r) = NoCandidate
<1>1. CASE Primary(r) = "WAVE_2_TO_3_CANDIDATE"
  BY <1>1 DEF ContinuationCandidate
<1>2. CASE Primary(r) # "WAVE_2_TO_3_CANDIDATE"
  BY <1>2 DEF Wave2Candidate
<1> QED BY <1>1, <1>2

\* Without a candidate nothing is followed any more.
LEMMA NothingLive ==
    ASSUME NEW t, NEW close, NEW i
    PROVE  Advance(t, NoCandidate, close, i).state \notin Live
BY DEF Advance, WithoutContext, Lifecycle, Live

LEMMA DayIsOneLive ==
    ASSUME NEW before, NEW r, NEW i
    PROVE  OneLive(Day(before, r, i))
<1>1. /\ Day(before, r, i)["SETUP_01"] = Advance(before["SETUP_01"], Wave2Candidate(r), r.close, i)
      /\ Day(before, r, i)["SETUP_02"] =
             Advance(before["SETUP_02"], ContinuationCandidate(r), r.close, i)
  BY DEF Day, Setups
<1> QED BY <1>1, OneCandidate, NothingLive DEF OneLive, Setups

LEMMA AdvanceIsForward ==
    ASSUME NEW t, NEW c, NEW close, NEW i
    PROVE  Forward(t, Advance(t, c, close, i))
<1>1. CASE c = NoCandidate
  BY <1>1 DEF Forward, Advance, WithoutContext, Live, Terminal
<1>2. CASE c # NoCandidate /\ c.key # t.candidate.key
  BY <1>2 DEF Forward, Advance, Started, Lifecycle
<1>3. CASE c # NoCandidate /\ c.key = t.candidate.key
  BY <1>3 DEF Forward, Advance
<1> QED BY <1>1, <1>2, <1>3

LEMMA DayIsForward ==
    ASSUME NEW before, NEW r, NEW i, NEW s \in Setups
    PROVE  Forward(before[s], Day(before, r, i)[s])
BY AdvanceIsForward DEF Day

-----------------------------------------------------------------------------
(* The sessions.                                                              *)

LEMMA InitHolds == Init => Inv
<1> SUFFICES ASSUME Init PROVE Inv
  OBVIOUS
<1>1. days = <<>> /\ days \in Seq({})
  BY DEF Init
<1> QED BY <1>1 DEF Inv, IsSeq, OneLiveSetup, EndIsFinal

LEMMA StepHolds == Inv /\ [Next]_vars => Inv'
<1> SUFFICES ASSUME Inv, [Next]_vars PROVE Inv'
  OBVIOUS
<1>1. CASE UNCHANGED vars
  BY <1>1 DEF vars, Inv, IsSeq, OneLiveSetup, EndIsFinal
<1>2. CASE Next
  <2>1. PICK new, r, i : days' = Append(days, new) /\ new = Day(Before(days), r, i)
    BY <1>2 DEF Next, NextSession, Evaluated
  <2> DEFINE n == Len(days)
  <2>2. PICK S : days \in Seq(S)
    BY DEF Inv, IsSeq
  <2>3. /\ days' \in Seq(S \cup {new})
        /\ Len(days') = n + 1 /\ n \in Nat
        /\ DOMAIN days' = 1..(n + 1) /\ DOMAIN days = 1..n
        /\ \A k \in 1..n : days'[k] = days[k]
        /\ days'[n + 1] = new
    BY <2>1, <2>2, LongerSeq
  <2>4. IsSeq'
    BY <2>3 DEF IsSeq
  <2>5. OneLiveSetup'
    <3> SUFFICES ASSUME NEW k \in 1..(n + 1) PROVE OneLive(days'[k])
      BY <2>3 DEF OneLiveSetup
    <3>1. CASE k = n + 1
      BY <3>1, <2>1, <2>3, DayIsOneLive
    <3>2. CASE k \in 1..n
      BY <3>2, <2>3 DEF Inv, OneLiveSetup
    <3> QED BY <3>1, <3>2, <2>3
  <2>6. EndIsFinal'
    <3> SUFFICES ASSUME NEW k \in 1..n, NEW s \in Setups
                 PROVE  Forward(days'[k][s], days'[k + 1][s])
      BY <2>3 DEF EndIsFinal
    <3>1. CASE k = n
      <4>1. Before(days) = days[n]
        BY <3>1, <2>2, <2>3 DEF Before
      <4> QED BY <4>1, <3>1, <2>1, <2>3, DayIsForward
    <3>2. CASE k \in 1..(n - 1)
      BY <3>2, <2>3 DEF Inv, EndIsFinal
    <3>3. k = n \/ k \in 1..(n - 1)
      <4>1. n \in Nat
        BY <2>2
      <4> HIDE DEF n
      <4> QED BY <4>1
    <3> QED BY <3>1, <3>2, <3>3, Zenon
  <2> QED BY <2>4, <2>5, <2>6 DEF Inv
<1> QED BY <1>1, <1>2

\* SETUP_01 and SETUP_02 of a symbol are never both live, whatever the prices,
\* the calendar and the lookback (evaluate_setup01_history and its sibling).
THEOREM SetupsExclude == Spec => []OneLiveSetup
<1>1. Inv => OneLiveSetup
  BY DEF Inv
<1> QED BY InitHolds, StepHolds, <1>1, PTL DEF Spec

\* A confirmed or failed lifecycle never changes: what follows it is a lifecycle
\* of another impulse with the next number ("not backfilled or repeated").
THEOREM EndsAreFinal == Spec => []EndIsFinal
<1>1. Inv => EndIsFinal
  BY DEF Inv
<1> QED BY InitHolds, StepHolds, <1>1, PTL DEF Spec

-----------------------------------------------------------------------------
(* The plans.                                                                 *)

\* From one day to a later one the lifecycles are counted up, and one that has
\* ended is the same as long as it is the current one.
Grows(t, u) ==
    /\ t.number <= u.number
    /\ t.number = u.number /\ t.state \in Terminal => u = t

NumbersGrow ==
    \A s \in Setups : \A i, j \in DOMAIN days :
        /\ days[i][s].number \in Nat
        /\ i <= j => Grows(days[i][s], days[j][s])

\* Only a confirmation is decided, and on its day.
PlansOfEvents ==
    \A i \in DOMAIN plans : \A s \in Setups :
        plans[i][s] # NoDecision => days[i][s].state = "CONFIRMED" /\ days[i][s].since = i

SameLength ==
    /\ \E S : days \in Seq(S) /\ bars \in Seq(S) /\ plans \in Seq(S)
    /\ Len(bars) = Len(days) /\ Len(plans) = Len(days)

\* Two days with a decision of one setup decide two different lifecycles.
PlannedOnce ==
    \A s \in Setups : \A i, j \in DOMAIN plans :
        i < j /\ plans[i][s] # NoDecision /\ plans[j][s] # NoDecision
          => days[i][s].number < days[j][s].number

PlanInv == SameLength /\ NumbersGrow /\ PlansOfEvents

LEMMA AdvanceGrows ==
    ASSUME NEW t, t.number \in Nat, NEW c, NEW close, NEW i
    PROVE  Advance(t, c, close, i).number \in Nat /\ Grows(t, Advance(t, c, close, i))
<1>1. CASE c = NoCandidate
  <2>1. CASE t.state \in Live
    BY <1>1, <2>1 DEF Advance, WithoutContext, Lifecycle, Grows, Live, Terminal
  <2>2. CASE t.state \notin Live
    BY <1>1, <2>2 DEF Advance, WithoutContext, Grows
  <2> QED BY <2>1, <2>2
<1>2. CASE c # NoCandidate /\ c.key # t.candidate.key
  BY <1>2 DEF Advance, Started, Lifecycle, Grows
<1>3. CASE c # NoCandidate /\ c.key = t.candidate.key /\ t.state \in Terminal
  BY <1>3 DEF Advance, Grows
<1>4. CASE c # NoCandidate /\ c.key = t.candidate.key /\ t.state \notin Terminal
  BY <1>4 DEF Advance, Refreshed, Lifecycle, Grows
<1> QED BY <1>1, <1>2, <1>3, <1>4

LEMMA DayGrows ==
    ASSUME NEW before, NEW r, NEW i, NEW s \in Setups, before[s].number \in Nat
    PROVE  Day(before, r, i)[s].number \in Nat /\ Grows(before[s], Day(before, r, i)[s])
BY AdvanceGrows DEF Day

LEMMA DecisionsOfEvents ==
    ASSUME NEW day, NEW history, NEW t, NEW s \in Setups,
           Decisions(day, history, t)[s] # NoDecision
    PROVE  day[s].state = "CONFIRMED" /\ day[s].since = t
BY DEF Decisions, Decision

LEMMA PlanInitHolds == PlanInit => PlanInv
<1> SUFFICES ASSUME PlanInit PROVE PlanInv
  OBVIOUS
<1>1. days = <<>> /\ bars = <<>> /\ plans = <<>> /\ <<>> \in Seq({})
  BY DEF PlanInit, Init
<1> QED BY <1>1 DEF PlanInv, SameLength, NumbersGrow, PlansOfEvents

LEMMA PlanStepHolds == PlanInv /\ [PlanNext]_planVars => PlanInv'
<1> SUFFICES ASSUME PlanInv, [PlanNext]_planVars PROVE PlanInv'
  OBVIOUS
<1>1. CASE UNCHANGED planVars
  BY <1>1 DEF planVars, PlanInv, SameLength, NumbersGrow, PlansOfEvents
<1>2. CASE PlanNext
  <2>1. PICK b, new, r, i : /\ bars' = Append(bars, b)
                            /\ days' = Append(days, new) /\ new = Day(Before(days), r, i)
    BY <1>2 DEF PlanNext, PlanSession, NextSession, Evaluated
  <2>2. PICK S : days \in Seq(S) /\ bars \in Seq(S) /\ plans \in Seq(S)
    BY DEF PlanInv, SameLength
  <2> DEFINE n == Len(days)
             plan == Decisions(Last(days'), bars', Len(bars'))
             T == S \cup {b, new, plan}
  <2>3. days \in Seq(T) /\ bars \in Seq(T) /\ plans \in Seq(T)
    BY <2>2, SMT
  <2>4. plans' = Append(plans, plan)
    BY <1>2 DEF PlanNext, PlanSession
  <2>5. n \in Nat /\ Len(bars) = n /\ Len(plans) = n
    BY <2>2 DEF PlanInv, SameLength
  <2>6. b \in T /\ new \in T /\ plan \in T
    OBVIOUS
  <2> HIDE DEF T, plan
  <2>7. /\ days' \in Seq(T) /\ bars' \in Seq(T) /\ plans' \in Seq(T)
        /\ Len(days') = n + 1 /\ Len(bars') = n + 1 /\ Len(plans') = n + 1
        /\ DOMAIN days = 1..n /\ DOMAIN days' = 1..(n + 1)
        /\ DOMAIN plans = 1..n /\ DOMAIN plans' = 1..(n + 1)
    BY <2>1, <2>3, <2>4, <2>5, <2>6, AppendProperties, LenProperties
  <2>8. /\ \A k \in 1..n : days'[k] = days[k] /\ plans'[k] = plans[k]
        /\ days'[n + 1] = new /\ plans'[n + 1] = plan
    BY <2>1, <2>3, <2>4, <2>5, <2>6, AppendProperties
  <2>9. SameLength'
    BY <2>7 DEF SameLength
  <2>10. NumbersGrow'
    <3> SUFFICES ASSUME NEW s \in Setups
                 PROVE  \A k, j \in 1..(n + 1) :
                            /\ days'[k][s].number \in Nat
                            /\ k <= j => Grows(days'[k][s], days'[j][s])
      BY <2>7 DEF NumbersGrow
    <3>1. \A k, j \in 1..n : /\ days[k][s].number \in Nat
                             /\ k <= j => Grows(days[k][s], days[j][s])
      BY <2>7 DEF PlanInv, NumbersGrow
    <3>2. Before(days)[s].number \in Nat
      <4>1. CASE n = 0
        <5>1. days = <<>>
          BY <4>1, <2>2, EmptySeq
        <5> QED BY <5>1 DEF Before, NoLifecycle, Lifecycle
      <4>2. CASE n # 0
        <5>1. n \in 1..n /\ days # <<>>
          BY <4>2, <2>5, <2>2
        <5> QED BY <5>1, <3>1 DEF Before
      <4> QED BY <4>1, <4>2
    <3>3. new[s].number \in Nat /\ Grows(Before(days)[s], new[s])
      BY <2>1, <3>2, DayGrows
    <3>4. \A k \in 1..n : Grows(days[k][s], new[s])
      <4> SUFFICES ASSUME NEW k \in 1..n PROVE Grows(days[k][s], new[s])
        OBVIOUS
      <4>1. n \in 1..n /\ k <= n /\ days # <<>>
        BY <2>5, <2>2
      <4>2. Grows(days[k][s], days[n][s]) /\ Grows(days[n][s], new[s])
        BY <4>1, <3>1, <3>3 DEF Before
      <4>3. /\ days[k][s].number \in Nat /\ days[n][s].number \in Nat
            /\ new[s].number \in Nat
        BY <4>1, <3>1, <3>3
      <4> QED BY <4>2, <4>3 DEF Grows
    <3>5. Grows(new[s], new[s])
      BY <3>3 DEF Grows
    <3> SUFFICES ASSUME NEW k \in 1..(n + 1), NEW j \in 1..(n + 1)
                 PROVE  /\ days'[k][s].number \in Nat
                        /\ k <= j => Grows(days'[k][s], days'[j][s])
      OBVIOUS
    <3>6. CASE k \in 1..n /\ j \in 1..n
      BY <3>6, <3>1, <2>8
    <3>7. CASE k \in 1..n /\ j = n + 1
      BY <3>7, <3>1, <3>4, <2>8
    <3>8. CASE k = n + 1 /\ j = n + 1
      BY <3>8, <3>3, <3>5, <2>8
    <3>9. CASE k = n + 1 /\ j \in 1..n
      <4>1. ~ (k <= j)
        BY <3>9, <2>5
      <4> QED BY <4>1, <3>9, <3>3, <2>8
    <3>10. (k \in 1..n \/ k = n + 1) /\ (j \in 1..n \/ j = n + 1)
      BY <2>5
    <3> QED BY <3>6, <3>7, <3>8, <3>9, <3>10
  <2>11. PlansOfEvents'
    <3> SUFFICES ASSUME NEW k \in 1..(n + 1), NEW s \in Setups, plans'[k][s] # NoDecision
                 PROVE  days'[k][s].state = "CONFIRMED" /\ days'[k][s].since = k
      BY <2>7 DEF PlansOfEvents
    <3>1. CASE k \in 1..n
      BY <3>1, <2>7, <2>8 DEF PlanInv, PlansOfEvents
    <3>2. CASE k = n + 1
      <4>1. Last(days') = new /\ Len(bars') = k
        BY <3>2, <2>7, <2>8 DEF Last
      <4>2. Decisions(new, bars', k)[s] # NoDecision
        BY <4>1, <3>2, <2>8 DEF plan
      <4>3. new[s].state = "CONFIRMED" /\ new[s].since = k
        BY <4>2, DecisionsOfEvents
      <4> QED BY <4>3, <3>2, <2>8
    <3>3. k \in 1..n \/ k = n + 1
      BY <2>5
    <3> QED BY <3>1, <3>2, <3>3
  <2> QED BY <2>9, <2>10, <2>11 DEF PlanInv
<1> QED BY <1>1, <1>2

LEMMA DecidedOnce == PlanInv => PlannedOnce
<1> SUFFICES ASSUME PlanInv, NEW s \in Setups, NEW i \in DOMAIN plans, NEW j \in DOMAIN plans,
                    i < j, plans[i][s] # NoDecision, plans[j][s] # NoDecision
             PROVE  days[i][s].number < days[j][s].number
  BY DEF PlannedOnce
<1>1. DOMAIN plans = DOMAIN days /\ i \in Nat /\ j \in Nat
  <2>1. PICK S : days \in Seq(S) /\ plans \in Seq(S)
    BY DEF PlanInv, SameLength
  <2> QED BY <2>1 DEF PlanInv, SameLength
<1>2. days[i][s].since = i /\ days[j][s].since = j /\ days[i][s].state \in Terminal
  BY DEF PlanInv, PlansOfEvents, Terminal
<1>3. /\ Grows(days[i][s], days[j][s])
      /\ days[i][s].number \in Nat /\ days[j][s].number \in Nat
  BY <1>1 DEF PlanInv, NumbersGrow
<1>4. days[i][s].number # days[j][s].number
  BY <1>1, <1>2, <1>3 DEF Grows
<1> QED BY <1>3, <1>4 DEF Grows

\* A lifecycle is decided at most once, however often its context comes back and
\* whatever the prices: two plans of a setup are of two lifecycles, in the order
\* of their days (evaluate_setup01_decision takes new CONFIRMED events only).
THEOREM LifecyclesPlannedOnce == PlanSpec => []PlannedOnce
BY PlanInitHolds, PlanStepHolds, DecidedOnce, PTL DEF PlanSpec

-----------------------------------------------------------------------------
(* The calendar.                                                              *)

\* The weeks follow one another, and a Friday ends its own.
LEMMA WeeksRise ==
    ASSUME NEW i \in 1..Len(WeekOf), NEW j \in i..Len(WeekOf)
    PROVE  /\ WeekOf[i] \in Nat /\ WeekOf[j] \in Nat /\ WeekOf[i] <= WeekOf[j]
           /\ i \in Fridays /\ i # j => WeekOf[i] < WeekOf[j]
<1> DEFINE n == j - i
           After(d) == /\ WeekOf[i] <= WeekOf[i + d]
                       /\ i \in Fridays /\ d # 0 => WeekOf[i] < WeekOf[i + d]
           G == {d \in 0..n : After(d)}
<1>1. /\ Len(WeekOf) \in Nat /\ \A k \in 1..Len(WeekOf) : WeekOf[k] \in Nat
      /\ \A k \in 1..(Len(WeekOf) - 1) :
            /\ WeekOf[k + 1] = WeekOf[k] \/ WeekOf[k + 1] = WeekOf[k] + 1
            /\ k \in Fridays => WeekOf[k + 1] # WeekOf[k]
  BY CalendarAssumption
<1>2. n \in Nat /\ i + n = j /\ \A d \in 0..n : i + d \in 1..Len(WeekOf)
  BY <1>1
<1> HIDE DEF n
<1>3. G \in SUBSET (0..n) /\ 0 \in G
  <2>1. i + 0 = i /\ 0 \in 0..n
    BY <1>2
  <2>2. After(0)
    BY <1>1, <2>1
  <2> QED BY <2>1, <2>2
<1>4. ASSUME NEW d \in 1..n, d - 1 \in G PROVE d \in G
  <2> DEFINE k == i + (d - 1)
  <2>1. k \in 1..(Len(WeekOf) - 1) /\ k + 1 = i + d /\ d \in 0..n
    BY <1>1, <1>2
  <2>2. After(d - 1)
    BY <1>4
  <2> HIDE DEF k
  <2>3. WeekOf[i] <= WeekOf[k] /\ (i \in Fridays /\ k # i => WeekOf[i] < WeekOf[k])
    <3>1. d - 1 # 0 <=> k # i
      BY DEF k
    <3> QED BY <2>2, <3>1 DEF k
  <2>4. /\ WeekOf[k] \in Nat /\ WeekOf[i] \in Nat /\ WeekOf[k + 1] \in Nat
        /\ WeekOf[k + 1] = WeekOf[k] \/ WeekOf[k + 1] = WeekOf[k] + 1
        /\ k \in Fridays => WeekOf[k + 1] # WeekOf[k]
    BY <1>1, <2>1
  <2>5. WeekOf[i] <= WeekOf[k + 1] /\ (i \in Fridays => WeekOf[i] < WeekOf[k + 1])
    BY <2>3, <2>4
  <2>6. After(d)
    BY <2>1, <2>5
  <2> QED BY <2>1, <2>6
<1>5. n \in G
  <2>1. \A d \in 0..n : d \in G
    <3> HIDE DEF G
    <3> QED BY <1>2, <1>3, <1>4, Induction
  <2>2. n \in 0..n
    BY <1>2
  <2> QED BY <2>1, <2>2
<1>6. j \in 1..Len(WeekOf)
  BY <1>2
<1> QED BY <1>1, <1>2, <1>5, <1>6

LEMMA WeeksCount ==
    ASSUME NEW i \in 1..Len(WeekOf)
    PROVE  /\ WeekOf[i] \in Nat /\ WeekOf[i] >= 1
           /\ CompletedWeeks(i) \in Nat /\ CompletedWeeks(i) <= WeekOf[i]
<1>1. 1 \in 1..Len(WeekOf) /\ i \in 1..Len(WeekOf)
  BY CalendarAssumption
<1>2. WeekOf # <<>> /\ WeekOf[1] = 1
  BY <1>1, CalendarAssumption
<1>3. WeekOf[1] <= WeekOf[i] /\ WeekOf[i] \in Nat
  BY <1>1, WeeksRise
<1> QED BY <1>2, <1>3 DEF CompletedWeeks

\* No week up to the last one is without a session.
LEMMA WeeksHaveSessions ==
    ASSUME NEW n \in 1..Len(WeekOf), NEW w \in 1..WeekOf[n]
    PROVE  SessionsOf(w, n) # {}
<1> DEFINE G == {m \in 0..n : m # 0 => \A v \in 1..WeekOf[m] : SessionsOf(v, m) # {}}
<1>1. n \in Nat /\ n # 0 /\ Len(WeekOf) \in Nat /\ n \in 0..n
  BY CalendarAssumption
<1>2. G \in SUBSET (0..n) /\ 0 \in G
  BY <1>1
<1>3. ASSUME NEW m \in 1..n, m - 1 \in G PROVE m \in G
  <2>1. m \in 1..Len(WeekOf) /\ m \in 0..n
    BY <1>1
  <2> SUFFICES ASSUME NEW v \in 1..WeekOf[m] PROVE SessionsOf(v, m) # {}
    BY <2>1
  <2>2. CASE v = WeekOf[m]
    <3>1. m \in SessionsOf(v, m)
      BY <2>2, <2>1 DEF SessionsOf
    <3> QED BY <3>1
  <2>3. CASE v # WeekOf[m] /\ m = 1
    BY <2>3, <2>1, CalendarAssumption
  <2>4. CASE v # WeekOf[m] /\ m # 1
    <3> DEFINE k == m - 1
    <3>1. k \in 1..(Len(WeekOf) - 1) /\ k + 1 = m /\ k # 0 /\ 1..k \subseteq 1..m
      BY <2>1, <2>4, <1>1
    <3>2. \A u \in 1..WeekOf[k] : SessionsOf(u, k) # {}
      BY <1>3, <3>1
    <3> HIDE DEF k
    <3>3. WeekOf[k + 1] = WeekOf[k] \/ WeekOf[k + 1] = WeekOf[k] + 1
      BY <3>1, CalendarAssumption
    <3>4. WeekOf[k] \in Nat /\ WeekOf[m] \in Nat
      BY <2>1, <3>1, WeeksCount
    <3>5. v \in 1..WeekOf[k]
      BY <3>1, <3>3, <3>4, <2>4
    <3>6. SessionsOf(v, k) \subseteq SessionsOf(v, m)
      BY <3>1 DEF SessionsOf
    <3> QED BY <3>2, <3>5, <3>6
  <2> QED BY <2>2, <2>3, <2>4
<1>4. \A m \in 0..n : m \in G
  <2> HIDE DEF G
  <2> QED BY <1>1, <1>2, <1>3, Induction
<1> QED BY <1>1, <1>4

LEMMA MaxIn ==
    ASSUME NEW n \in Nat, NEW T, T \subseteq 1..n, T # {}
    PROVE  Max(T) \in T /\ \A t \in T : t <= Max(T)
<1>1. PICK m \in T : \A t \in T : t <= m
  BY LastIndex
<1>2. \A t \in T : m >= t
  <2>1. m \in Int /\ \A t \in T : t \in Int
    OBVIOUS
  <2> QED BY <1>1, <2>1
<1>3. Max(T) \in T /\ \A t \in T : Max(T) >= t
  BY <1>2, Zenon DEF Max
<1>4. \A t \in T : t \in Int
  OBVIOUS
<1> QED BY <1>3, <1>4

\* Read in a longer series, the weeks that were complete on a session are those
\* that its own prefix would count.
LEMMA WeeksAreCausal ==
    ASSUME NEW n \in 1..Len(WeekOf), NEW i \in 1..n
    PROVE  WeeksKnown(n, i) = CompletedWeeks(i) /\ CompletedWeeks(i) <= CompletedWeeks(n)
<1> DEFINE LastOf(w) == Max(SessionsOf(w, n))
           own == IF i \in Fridays THEN {} ELSE {WeekOf[i]}
           ended == {w \in 1..CompletedWeeks(n) : LastOf(w) <= i}
<1>1. /\ Len(WeekOf) \in Nat /\ n \in Nat /\ i \in 1..Len(WeekOf) /\ n \in i..Len(WeekOf)
      /\ WeekOf[i] \in Nat /\ WeekOf[i] >= 1 /\ WeekOf[n] \in Nat
      /\ CompletedWeeks(n) \in Nat /\ CompletedWeeks(n) <= WeekOf[n]
      /\ CompletedWeeks(i) \in Nat
  BY CalendarAssumption, WeeksCount
<1>2. WeekOf[i] <= WeekOf[n] /\ (i \in Fridays /\ i # n => WeekOf[i] < WeekOf[n])
  BY <1>1, WeeksRise
<1>3. CompletedWeeks(i) <= CompletedWeeks(n)
  <2>1. CASE i = n
    BY <1>1, <2>1
  <2>2. CASE i # n
    BY <1>1, <1>2, <2>2 DEF CompletedWeeks
  <2> QED BY <2>1, <2>2
<1>4. ASSUME NEW w \in 1..CompletedWeeks(n)
      PROVE  LastOf(w) \in 1..n /\ WeekOf[LastOf(w)] = w
  <2>1. w \in 1..WeekOf[n]
    BY <1>1
  <2>2. SessionsOf(w, n) # {} /\ SessionsOf(w, n) \subseteq 1..n
    BY <2>1, WeeksHaveSessions DEF SessionsOf
  <2>3. Max(SessionsOf(w, n)) \in SessionsOf(w, n)
    BY <1>1, <2>2, MaxIn
  <2> QED BY <2>3 DEF SessionsOf
<1> HIDE DEF LastOf
<1>5. ASSUME NEW w \in 1..CompletedWeeks(n)
      PROVE  w \in ended \ own <=> w <= CompletedWeeks(i)
  <2> DEFINE j == LastOf(w)
  <2>1. j \in 1..n /\ WeekOf[j] = w /\ j \in 1..Len(WeekOf) /\ j \in Nat /\ i \in Nat /\ w \in Nat
    BY <1>1, <1>4
  <2> HIDE DEF j
  <2>2. w < WeekOf[i] => j <= i
    <3> SUFFICES ASSUME ~(j <= i) PROVE WeekOf[i] <= w
      BY <1>1, <2>1
    <3>1. j \in i..Len(WeekOf)
      BY <1>1, <2>1
    <3> QED BY <1>1, <2>1, <3>1, WeeksRise
  <2>3. w > WeekOf[i] => ~(j <= i)
    <3> SUFFICES ASSUME j <= i PROVE w <= WeekOf[i]
      BY <1>1, <2>1
    <3>1. i \in j..Len(WeekOf)
      BY <1>1, <2>1
    <3> QED BY <2>1, <3>1, WeeksRise
  <2>4. w = WeekOf[i] /\ i \in Fridays => j <= i
    <3> SUFFICES ASSUME ~(j <= i), i \in Fridays PROVE WeekOf[i] < w
      BY <1>1, <2>1
    <3>1. j \in i..Len(WeekOf) /\ i # j
      BY <1>1, <2>1
    <3> QED BY <1>1, <2>1, <3>1, WeeksRise
  <2>5. w \in ended <=> j <= i
    BY DEF j
  <2>6. CASE i \in Fridays
    <3>1. CompletedWeeks(i) = WeekOf[i]
      BY <2>6 DEF CompletedWeeks
    <3> QED BY <1>1, <2>1, <2>2, <2>3, <2>4, <2>5, <2>6, <3>1
  <2>7. CASE i \notin Fridays
    <3>1. CompletedWeeks(i) = WeekOf[i] - 1
      BY <2>7 DEF CompletedWeeks
    <3>2. w \in ended \ own <=> w < WeekOf[i]
      BY <1>1, <2>1, <2>2, <2>3, <2>5, <2>7
    <3> QED BY <1>1, <2>1, <3>1, <3>2
  <2> QED BY <2>6, <2>7
<1>6. ended \ own = 1..CompletedWeeks(i)
  <2>1. \A w \in ended : w \in 1..CompletedWeeks(n)
    OBVIOUS
  <2>2. \A w \in 1..CompletedWeeks(i) : w \in 1..CompletedWeeks(n) /\ w <= CompletedWeeks(i)
    BY <1>1, <1>3
  <2>3. \A w \in 1..CompletedWeeks(n) : w <= CompletedWeeks(i) => w \in 1..CompletedWeeks(i)
    BY <1>1
  <2> HIDE DEF ended, own
  <2> QED BY <1>5, <2>1, <2>2, <2>3
<1>7. WeeksKnown(n, i) = Cardinality(1..CompletedWeeks(i))
  BY <1>6, Zenon DEF WeeksKnown, LastOf
<1>8. Cardinality(1..CompletedWeeks(i)) = CompletedWeeks(i)
  <2>1. CompletedWeeks(i) >= 0
    BY <1>1
  <2> QED BY <1>1, <2>1, FS_Interval
<1> QED BY <1>3, <1>7, <1>8

\* The sessions of a complete week are all there: later ones are of later weeks.
LEMMA WeeksAreWhole ==
    ASSUME NEW m \in 1..Len(WeekOf), NEW n \in 1..m, NEW w \in 1..CompletedWeeks(n)
    PROVE  SessionsOf(w, n) = SessionsOf(w, m)
<1>1. /\ Len(WeekOf) \in Nat /\ n \in 1..Len(WeekOf) /\ 1..n \subseteq 1..m /\ w \in Nat
      /\ WeekOf[n] \in Nat /\ CompletedWeeks(n) \in Nat
  BY CalendarAssumption, WeeksCount
<1>2. ASSUME NEW k \in 1..m, WeekOf[k] = w PROVE k \in 1..n
  <2> SUFFICES ASSUME k \notin 1..n PROVE FALSE
    OBVIOUS
  <2>1. k \in n..Len(WeekOf) /\ n # k
    BY <1>1
  <2>2. WeekOf[n] <= w /\ (n \in Fridays => WeekOf[n] < w)
    BY <1>1, <1>2, <2>1, WeeksRise
  <2> QED BY <1>1, <2>2 DEF CompletedWeeks
<1> QED BY <1>1, <1>2 DEF SessionsOf

\* A week of a series, from its sessions.
WeekBar(series, w, n) ==
    [high |-> Max({series[i].high : i \in SessionsOf(w, n)}),
     low |-> Min({series[i].low : i \in SessionsOf(w, n)})]

LEMMA IsASequence ==
    ASSUME NEW S, NEW k \in Nat, NEW f \in [1..k -> S]
    PROVE  f \in Seq(S) /\ Len(f) = k
  OBVIOUS

\* The weekly series of a prefix is a prefix of that of the whole.
LEMMA WeeklyPrefix ==
    ASSUME NEW B, NEW a \in Seq(B), NEW b \in Seq(B), AgreeUpTo(Len(a), a, b),
           Len(a) \in 1..Len(b), Len(b) \in 1..Len(WeekOf)
    PROVE  /\ Len(WeeklyBars(a)) = CompletedWeeks(Len(a))
           /\ AgreeUpTo(CompletedWeeks(Len(a)), WeeklyBars(a), WeeklyBars(b))
           /\ \E W : WeeklyBars(a) \in Seq(W) /\ WeeklyBars(b) \in Seq(W)
<1> DEFINE n == Len(a)
           m == Len(b)
           W == {WeekBar(a, w, n) : w \in 1..CompletedWeeks(n)}
                    \cup {WeekBar(b, w, m) : w \in 1..CompletedWeeks(m)}
<1>1. /\ n \in Nat /\ m \in Nat /\ n \in 1..Len(WeekOf) /\ n \in 1..m
      /\ CompletedWeeks(n) \in Nat /\ CompletedWeeks(m) \in Nat
      /\ CompletedWeeks(n) <= CompletedWeeks(m)
  <2>1. n \in 1..Len(WeekOf) /\ n \in Nat /\ m \in Nat
    OBVIOUS
  <2> QED BY <2>1, WeeksCount, WeeksAreCausal
<1>2. WeeklyBars(a) = [w \in 1..CompletedWeeks(n) |-> WeekBar(a, w, n)]
  BY DEF WeeklyBars, WeekBar
<1>3. WeeklyBars(b) = [w \in 1..CompletedWeeks(m) |-> WeekBar(b, w, m)]
  BY DEF WeeklyBars, WeekBar
<1>4. ASSUME NEW w \in 1..CompletedWeeks(n) PROVE WeekBar(a, w, n) = WeekBar(b, w, m)
  <2>1. SessionsOf(w, n) = SessionsOf(w, m)
    BY <1>1, WeeksAreWhole
  <2>2. \A i \in SessionsOf(w, n) : a[i] = b[i]
    BY DEF SessionsOf, AgreeUpTo
  <2>3. /\ {a[i].high : i \in SessionsOf(w, n)} = {b[i].high : i \in SessionsOf(w, m)}
        /\ {a[i].low : i \in SessionsOf(w, n)} = {b[i].low : i \in SessionsOf(w, m)}
    BY <2>1, <2>2
  <2> QED BY <2>3 DEF WeekBar
<1> HIDE DEF n, m
<1>5. /\ WeeklyBars(a) \in Seq(W) /\ Len(WeeklyBars(a)) = CompletedWeeks(n)
      /\ WeeklyBars(b) \in Seq(W) /\ Len(WeeklyBars(b)) = CompletedWeeks(m)
  <2>1. /\ \A w \in 1..CompletedWeeks(n) : WeekBar(a, w, n) \in W
        /\ \A w \in 1..CompletedWeeks(m) : WeekBar(b, w, m) \in W
    OBVIOUS
  <2> HIDE DEF W
  <2>2. WeeklyBars(a) \in [1..CompletedWeeks(n) -> W]
    BY <1>2, <2>1
  <2>3. WeeklyBars(b) \in [1..CompletedWeeks(m) -> W]
    BY <1>3, <2>1
  <2> QED BY <1>1, <2>2, <2>3, IsASequence
<1>6. \A w \in 1..CompletedWeeks(n) : WeeklyBars(a)[w] = WeeklyBars(b)[w]
  <2>1. \A w \in 1..CompletedWeeks(n) : w \in 1..CompletedWeeks(m)
    BY <1>1
  <2> QED BY <1>2, <1>3, <1>4, <2>1
<1>7. AgreeUpTo(CompletedWeeks(n), WeeklyBars(a), WeeklyBars(b))
  BY <1>1, <1>5, <1>6 DEF AgreeUpTo
<1> HIDE DEF W
<1> QED BY <1>5, <1>7 DEF n

\* What day i of a history reads, every longer history lets it read.
Readings(history, i) ==
    ReadingIn(history, FindSwings(history), FindSwings(WeeklyBars(history)), i)

LEMMA ReadingsAreCausal ==
    ASSUME NEW B, NEW a \in Seq(B), NEW b \in Seq(B), AgreeUpTo(Len(a), a, b),
           Len(a) \in 1..Len(b), Len(b) \in 1..Len(WeekOf), NEW i \in 1..Len(a)
    PROVE  Readings(a, i) = Readings(b, i)
<1> DEFINE n == Len(a)
           m == Len(b)
           k == CompletedWeeks(i)
<1>1. /\ n \in 1..Len(WeekOf) /\ i \in 1..n /\ i \in 1..m /\ i \in 0..n
      /\ i \in 1..Len(WeekOf) /\ m \in 1..Len(WeekOf)
  OBVIOUS
<1>2. WeeksKnown(n, i) = k /\ WeeksKnown(m, i) = k /\ k <= CompletedWeeks(n) /\ k \in Nat
  BY <1>1, WeeksAreCausal, WeeksCount
<1>3. Confirmed(FindSwings(a), i) = Confirmed(FindSwings(b), i)
  BY <1>1, LongerSeries
<1>4. PICK W : WeeklyBars(a) \in Seq(W) /\ WeeklyBars(b) \in Seq(W)
  BY WeeklyPrefix
<1>5. /\ Len(WeeklyBars(a)) = CompletedWeeks(n)
      /\ AgreeUpTo(Len(WeeklyBars(a)), WeeklyBars(a), WeeklyBars(b))
  BY WeeklyPrefix
<1>6. k \in 0..Len(WeeklyBars(a))
  BY <1>2, <1>4, <1>5
<1>7. Confirmed(FindSwings(WeeklyBars(a)), k) = Confirmed(FindSwings(WeeklyBars(b)), k)
  BY <1>4, <1>5, <1>6, LongerSeries
<1>8. a[i] = b[i]
  BY <1>1 DEF AgreeUpTo
<1> QED BY <1>2, <1>3, <1>7, <1>8 DEF Readings, ReadingIn

\* The last day of a history reads what its prefix, the whole, tells.
LEMMA LastReading ==
    ASSUME NEW B, NEW a \in Seq(B), Len(a) \in 1..Len(WeekOf)
    PROVE  Readings(a, Len(a)) = ReadingOf(a)
<1>1. AgreeUpTo(Len(a), a, a) /\ Len(a) \in 1..Len(a)
  BY DEF AgreeUpTo
<1>2. Len(WeeklyBars(a)) = CompletedWeeks(Len(a))
  BY <1>1, WeeklyPrefix
<1>3. WeeksKnown(Len(a), Len(a)) = CompletedWeeks(Len(a))
  BY <1>1, WeeksAreCausal
<1> QED BY <1>2, <1>3 DEF Readings, ReadingIn, ReadingOf

-----------------------------------------------------------------------------
(* The replay of a growing history.                                            *)

\* The loop of the replay has its run.
LEMMA ReplayRun ==
    ASSUME NEW S, NEW history \in Seq(S), NEW daily, NEW weekly
    PROVE  /\ Replayed(history, daily, weekly)[0] = <<>>
           /\ \A i \in 1..Len(history) :
                  Replayed(history, daily, weekly)[i]
                      = Evaluated(Replayed(history, daily, weekly)[i - 1],
                                  ReadingIn(history, daily, weekly, i), i)
<1> DEFINE n == Len(history)
           Step(seen, i) == Evaluated(seen, ReadingIn(history, daily, weekly, i), i)
           Upto(m, f) == f[0] = <<>> /\ \A i \in 1..m : f[i] = Step(f[i - 1], i)
           G == {m \in 0..n : \E f : Upto(m, f)}
           Follows(f) == f = [i \in 0..n |-> IF i = 0 THEN <<>> ELSE Step(f[i - 1], i)]
<1>1. n \in Nat /\ n \in 0..n /\ 0 \in 0..n
  OBVIOUS
<1> HIDE DEF n, Step
<1>2. G \in SUBSET (0..n) /\ 0 \in G
  <2>1. Upto(0, [i \in {0} |-> <<>>])
    OBVIOUS
  <2> HIDE DEF Upto
  <2> QED BY <1>1, <2>1
<1>3. ASSUME NEW m \in 1..n, m - 1 \in G PROVE m \in G
  <2>1. PICK f : Upto(m - 1, f)
    BY <1>3
  <2> DEFINE g == [i \in 0..m |-> IF i < m THEN f[i] ELSE Step(f[m - 1], m)]
  <2>2. Upto(m, g)
    <3>1. m \in Nat /\ m # 0
      BY <1>1
    <3>2. ASSUME NEW i \in 1..m PROVE g[i] = Step(g[i - 1], i)
      <4>1. g[i - 1] = f[i - 1]
        BY <3>1
      <4>2. CASE i = m
        BY <4>1, <4>2, <3>1
      <4>3. CASE i # m
        BY <4>1, <4>3, <3>1, <2>1
      <4> QED BY <4>2, <4>3
    <3> QED BY <2>1, <3>1, <3>2
  <2> HIDE DEF Upto, g
  <2> QED BY <2>2
<1>4. PICK f : Upto(n, f)
  <2> HIDE DEF G
  <2>1. \A m \in 0..n : m \in G
    BY <1>1, <1>2, <1>3, Induction
  <2> QED BY <1>1, <2>1 DEF G
<1>5. Follows([i \in 0..n |-> f[i]])
  BY <1>1, <1>4
<1> DEFINE h == Replayed(history, daily, weekly)
<1>6. Follows(h)
  BY <1>5 DEF Replayed, n, Step
<1> HIDE DEF h
<1>7. h[0] = <<>> /\ \A i \in 1..n : h[i] = Step(h[i - 1], i)
  BY <1>1, <1>6
<1> QED BY <1>7 DEF n, h, Step

\* Every day as its history evaluates it.
Seen(history) == Replayed(history, FindSwings(history), FindSwings(WeeklyBars(history)))

LEMMA SeenRun ==
    ASSUME NEW S, NEW history \in Seq(S)
    PROVE  /\ Seen(history)[0] = <<>>
           /\ \A i \in 1..Len(history) :
                  Seen(history)[i] = Evaluated(Seen(history)[i - 1], Readings(history, i), i)
           /\ Replay(history) = Seen(history)[Len(history)]
  BY ReplayRun DEF Seen, Readings, Replay

\* A longer history is evaluated as its prefix was, and one day more.
LEMMA SeenIsCausal ==
    ASSUME NEW B, NEW a \in Seq(B), NEW b \in Seq(B), AgreeUpTo(Len(a), a, b),
           Len(b) = Len(a) + 1, Len(b) \in 1..Len(WeekOf)
    PROVE  Replay(b) = Evaluated(Replay(a), ReadingOf(b), Len(b))
<1> DEFINE n == Len(a)
           m == Len(b)
           G == {i \in 0..n : Seen(a)[i] = Seen(b)[i]}
<1>1. n \in Nat /\ m = n + 1 /\ m \in 1..m /\ m - 1 = n /\ n \in 0..n
  OBVIOUS
<1>2. G \in SUBSET (0..n) /\ 0 \in G
  BY <1>1, SeenRun
<1>3. ASSUME NEW i \in 1..n, i - 1 \in G PROVE i \in G
  <2>1. i \in 1..m /\ n \in 1..m /\ i \in 0..n
    BY <1>1
  <2>2. Readings(a, i) = Readings(b, i)
    BY <2>1, ReadingsAreCausal
  <2>3. Seen(a)[i] = Evaluated(Seen(a)[i - 1], Readings(a, i), i)
    BY SeenRun
  <2>4. Seen(b)[i] = Evaluated(Seen(b)[i - 1], Readings(b, i), i)
    BY <2>1, SeenRun
  <2> QED BY <1>3, <2>1, <2>2, <2>3, <2>4
<1>4. Seen(a)[n] = Seen(b)[n]
  <2>1. \A i \in 0..n : i \in G
    <3> HIDE DEF G
    <3> QED BY <1>1, <1>2, <1>3, Induction
  <2> QED BY <1>1, <2>1
<1>5. Seen(b)[m] = Evaluated(Seen(b)[m - 1], Readings(b, m), m)
  BY <1>1, SeenRun
<1>6. Readings(b, m) = ReadingOf(b)
  BY LastReading
<1>7. Replay(b) = Seen(b)[m] /\ Replay(a) = Seen(a)[n]
  BY SeenRun
<1> QED BY <1>1, <1>4, <1>5, <1>6, <1>7

-----------------------------------------------------------------------------
(* The plans are causal.                                                       *)

\* A decision reads its history up to its day.
LEMMA DecisionsAreCausal ==
    ASSUME NEW B, NEW a \in Seq(B), NEW b \in Seq(B), AgreeUpTo(Len(a), a, b),
           NEW i \in 1..Len(a), NEW day
    PROVE  Decisions(day, a, i) = Decisions(day, b, i)
<1>1. SubSeq(a, 1, i) = SubSeq(b, 1, i)
  <2>1. i \in 1..Len(b) /\ \A k \in 1..i : a[k] = b[k]
    BY DEF AgreeUpTo
  <2> QED BY <2>1
<1> QED BY <1>1 DEF Decisions, Decision

\* The calendar covers the history, and its evaluation is what its days saw.
CausalInv == Len(bars) <= Len(WeekOf) /\ PlansAreCausal

LEMMA HistoriesAreDated ==
    ASSUME NEW S, NEW h \in Seq(S), IsHistory(h)
    PROVE  Len(h) <= Len(WeekOf)
<1>1. PICK p \in Pasts : Len(h) <= Len(p) \/ Len(h) <= Len(p) + FreeSessions
  BY DEF IsHistory, IsPrefix
<1>2. /\ Len(p) \in Nat /\ FreeSessions \in Nat /\ Len(p) + FreeSessions <= Len(WeekOf)
      /\ Len(WeekOf) \in Nat /\ Len(h) \in Nat
  BY SetupAssumption, CalendarAssumption
<1> QED BY <1>1, <1>2

LEMMA CausalInit == PlanInit => CausalInv
<1> SUFFICES ASSUME PlanInit PROVE CausalInv
  OBVIOUS
<1>1. bars = <<>> /\ days = <<>> /\ plans = <<>> /\ <<>> \in Seq({}) /\ Len(<<>>) = 0
  BY DEF PlanInit, Init
<1>2. Replay(<<>>) = <<>>
  BY <1>1, SeenRun
<1>3. plans = [i \in DOMAIN bars |-> Decisions(days[i], bars, i)]
  BY <1>1
<1> QED BY <1>1, <1>2, <1>3, CalendarAssumption DEF CausalInv, PlansAreCausal

LEMMA CausalStep == PlanInv /\ CausalInv /\ [PlanNext]_planVars => CausalInv'
<1> SUFFICES ASSUME PlanInv, CausalInv, [PlanNext]_planVars PROVE CausalInv'
  OBVIOUS
<1>1. CASE UNCHANGED planVars
  BY <1>1 DEF planVars, CausalInv, PlansAreCausal
<1>2. CASE PlanNext
  <2>1. PICK b : /\ IsHistory(Append(bars, b)) /\ bars' = Append(bars, b)
                 /\ days' = Evaluated(days, ReadingOf(bars'), Len(bars'))
                 /\ plans' = Append(plans, Decisions(Last(days'), bars', Len(bars')))
    BY <1>2 DEF PlanNext, PlanSession, NextSession
  <2>2. PICK S : days \in Seq(S) /\ bars \in Seq(S) /\ plans \in Seq(S)
    BY DEF PlanInv, SameLength
  <2> DEFINE n == Len(bars)
             B == S \cup {b}
             new == Day(Before(days), ReadingOf(bars'), Len(bars'))
             plan == Decisions(Last(days'), bars', Len(bars'))
  <2>3. /\ bars \in Seq(B) /\ bars' \in Seq(B) /\ Len(bars') = n + 1 /\ n \in Nat
        /\ AgreeUpTo(n, bars, bars')
    <3>1. /\ Append(bars, b) \in Seq(S \cup {b}) /\ Len(Append(bars, b)) = n + 1 /\ n \in Nat
          /\ \A i \in 1..n : Append(bars, b)[i] = bars[i]
      BY <2>2, LongerSeq
    <3>2. bars \in Seq(B)
      BY <2>2, SMT
    <3> QED BY <2>1, <3>1, <3>2 DEF AgreeUpTo
  <2> HIDE DEF B
  <2>4. Len(bars') <= Len(WeekOf)
    BY <2>1, <2>3, HistoriesAreDated
  <2>5. Len(bars') \in 1..Len(WeekOf)
    BY <2>3, <2>4, CalendarAssumption
  <2>6. Replay(bars') = days'
    <3>1. Replay(bars') = Evaluated(Replay(bars), ReadingOf(bars'), Len(bars'))
      BY <2>3, <2>5, SeenIsCausal
    <3>2. Replay(bars) = days
      BY DEF CausalInv, PlansAreCausal
    <3> QED BY <2>1, <3>1, <3>2
  <2>7. days' = Append(days, new)
    BY <2>1 DEF Evaluated
  <2> HIDE DEF new
  <2>8. Len(days) = n /\ Len(plans) = n
    BY DEF PlanInv, SameLength
  <2>9. /\ Len(days') = n + 1 /\ days'[n + 1] = new /\ \A i \in 1..n : days'[i] = days[i]
    BY <2>2, <2>7, <2>8, LongerSeq
  <2>10. plans' = Append(plans, plan)
    BY <2>1
  <2> HIDE DEF plan
  <2>11. /\ DOMAIN plans' = 1..(n + 1) /\ plans'[n + 1] = plan
         /\ \A i \in 1..n : plans'[i] = plans[i]
    BY <2>2, <2>8, <2>10, LongerSeq
  <2>12. \A i \in 1..n : plans[i] = Decisions(days[i], bars, i)
    <3>1. DOMAIN bars = 1..n
      BY <2>2
    <3> QED BY <3>1 DEF CausalInv, PlansAreCausal
  <2>13. ASSUME NEW i \in 1..(n + 1) PROVE plans'[i] = Decisions(days'[i], bars', i)
    <3>1. CASE i = n + 1
      <4>1. Last(days') = days'[i] /\ Len(bars') = i
        BY <3>1, <2>3, <2>9 DEF Last
      <4> QED BY <3>1, <4>1, <2>11 DEF plan
    <3>2. CASE i \in 1..n
      <4>1. Decisions(days[i], bars, i) = Decisions(days[i], bars', i)
        BY <3>2, <2>3, DecisionsAreCausal
      <4> QED BY <3>2, <4>1, <2>9, <2>11, <2>12
    <3> QED BY <3>1, <3>2, <2>3
  <2>14. plans' = [i \in DOMAIN bars' |-> Decisions(days'[i], bars', i)]
    <3>1. DOMAIN bars' = 1..(n + 1)
      BY <2>3
    <3>2. plans' = [i \in 1..(n + 1) |-> plans'[i]]
      <4>1. plans' = [i \in DOMAIN plans' |-> plans'[i]]
        <5> DEFINE T == S \cup {plan}
        <5>1. plans' \in Seq(T)
          BY <2>2, <2>10, LongerSeq
        <5> QED BY <5>1
      <4> QED BY <4>1, <2>11
    <3> QED BY <2>13, <3>1, <3>2
  <2> QED BY <2>4, <2>6, <2>14 DEF CausalInv, PlansAreCausal
<1> QED BY <1>1, <1>2

\* Days later, with more swings confirmed and more weeks complete, the replay of
\* the history still tells what each day saw and leads to the plans of their
\* days, for any prices, calendar and lookback (evaluate_setup01_history's cached
\* projections, evaluate_setup01_decision).
THEOREM PlansCausal == PlanSpec => []PlansAreCausal
<1>1. PlanSpec => [](PlanInv /\ CausalInv)
  BY PlanInitHolds, PlanStepHolds, CausalInit, CausalStep, PTL DEF PlanSpec
<1>2. CausalInv => PlansAreCausal
  BY DEF CausalInv
<1> QED BY <1>1, <1>2, PTL

-----------------------------------------------------------------------------
(* The patterns of a growing list of swings.                                  *)

\* Where the pattern of a setup begins, how many of its swings identify the
\* impulse, and what the impulse at a place is identified by.
Pattern(s, swings) ==
    IF s = "SETUP_01" THEN Places(swings, <<"LOW", "HIGH", "LOW">>)
    ELSE {i \in Places(swings, <<"LOW", "HIGH", "LOW", "HIGH">>) :
             /\ swings[i + 3].price > swings[i + 1].price
             /\ swings[i + 2].price > swings[i].price}

KeySize(s) == IF s = "SETUP_01" THEN 2 ELSE 4

KeyAt(s, swings, p) == [k \in 1..KeySize(s) |-> swings[p + k - 1].index]

CandidateOf(s, r) == IF s = "SETUP_01" THEN Wave2Candidate(r) ELSE ContinuationCandidate(r)

\* A pattern lies within the list.
LEMMA PatternBounds ==
    ASSUME NEW s \in Setups, NEW S, NEW swings \in Seq(S), NEW p \in Pattern(s, swings)
    PROVE  /\ p \in Nat /\ p >= 1 /\ p + 2 <= Len(swings)
           /\ s # "SETUP_01" => p + 3 <= Len(swings)
           /\ p + KeySize(s) - 1 \in 1..Len(swings)
<1>1. CASE s = "SETUP_01"
  BY <1>1 DEF Pattern, Places, KeySize
<1>2. CASE s # "SETUP_01"
  BY <1>2 DEF Pattern, Places, KeySize
<1> QED BY <1>1, <1>2

LEMMA NewestPattern ==
    ASSUME NEW s \in Setups, NEW S, NEW swings \in Seq(S), Pattern(s, swings) # {}
    PROVE  /\ Max(Pattern(s, swings)) \in Pattern(s, swings)
           /\ \A p \in Pattern(s, swings) : p <= Max(Pattern(s, swings))
<1>1. Len(swings) \in Nat /\ Pattern(s, swings) \subseteq 1..Len(swings)
  <2>1. \A p \in Pattern(s, swings) : p \in 1..Len(swings)
    BY PatternBounds
  <2> QED BY <2>1
<1> QED BY <1>1, MaxIn

\* A longer list has the patterns of the shorter one, with their keys.
LEMMA PatternsStay ==
    ASSUME NEW s \in Setups, NEW S, NEW a \in Seq(S), NEW b \in Seq(S),
           AgreeUpTo(Len(a), a, b), NEW p \in Pattern(s, a)
    PROVE  p \in Pattern(s, b) /\ KeyAt(s, b, p) = KeyAt(s, a, p)
<1>1. /\ p \in Nat /\ p >= 1 /\ p + 2 <= Len(a)
      /\ Len(a) \in Nat /\ Len(b) \in Nat /\ Len(a) <= Len(b)
      /\ s # "SETUP_01" => p + 3 <= Len(a)
  BY PatternBounds DEF AgreeUpTo
<1>2. \A k \in 1..Len(a) : a[k] = b[k]
  BY DEF AgreeUpTo
<1>3. CASE s = "SETUP_01"
  <2>1. \A k \in 1..3 : p + k - 1 \in 1..Len(a)
    BY <1>1
  <2>2. \A k \in 1..3 : a[p + k - 1] = b[p + k - 1]
    BY <1>2, <2>1
  <2>3. p \in Pattern(s, b)
    BY <1>1, <1>3, <2>2 DEF Pattern, Places
  <2>4. KeyAt(s, b, p) = KeyAt(s, a, p)
    BY <1>3, <2>2 DEF KeyAt, KeySize
  <2> QED BY <2>3, <2>4
<1>4. CASE s # "SETUP_01"
  <2>1. \A k \in 1..4 : p + k - 1 \in 1..Len(a)
    BY <1>1, <1>4
  <2>2. \A k \in 1..4 : a[p + k - 1] = b[p + k - 1]
    BY <1>2, <2>1
  <2>3. a[p] = b[p] /\ a[p + 1] = b[p + 1] /\ a[p + 2] = b[p + 2] /\ a[p + 3] = b[p + 3]
    BY <1>1, <1>4, <1>2
  <2>4. p \in Places(b, <<"LOW", "HIGH", "LOW", "HIGH">>)
    BY <1>1, <1>4, <2>2 DEF Pattern, Places
  <2>5. p \in Pattern(s, b)
    BY <1>4, <2>3, <2>4 DEF Pattern
  <2>6. KeyAt(s, b, p) = KeyAt(s, a, p)
    BY <1>4, <2>2 DEF KeyAt, KeySize
  <2> QED BY <2>5, <2>6
<1> QED BY <1>3, <1>4

\* Later swings stand on later bars.
LEMMA IndicesAscend ==
    ASSUME NEW series, NEW swings \in Seq(Swing(series)), DOMAIN series \subseteq Nat,
           InOrder(swings), NEW i \in 1..Len(swings), NEW j \in 1..Len(swings), i < j
    PROVE  swings[i].index < swings[j].index
<1> DEFINE n == j - i
           G == {d \in 0..n : d # 0 => swings[i].index < swings[i + d].index}
<1>1. /\ n \in Nat /\ n # 0 /\ i + n = j /\ \A d \in 0..n : i + d \in 1..Len(swings)
      /\ \A k \in 1..Len(swings) : swings[k].index \in Nat
  <2>1. \A x \in Swing(series) : x.index \in Nat
    BY DEF Swing
  <2>2. \A k \in 1..Len(swings) : swings[k] \in Swing(series)
    OBVIOUS
  <2>3. n \in Nat /\ n # 0 /\ i + n = j /\ \A d \in 0..n : i + d \in 1..Len(swings)
    OBVIOUS
  <2> QED BY <2>1, <2>2, <2>3
<1> HIDE DEF n
<1>2. G \in SUBSET (0..n) /\ 0 \in G
  BY <1>1
<1>3. ASSUME NEW d \in 1..n, d - 1 \in G PROVE d \in G
  <2> DEFINE k == i + (d - 1)
  <2>1. k \in 1..(Len(swings) - 1) /\ k + 1 = i + d /\ d \in 0..n
        /\ k \in 1..Len(swings) /\ k + 1 \in 1..Len(swings)
    BY <1>1
  <2>2. k = i \/ swings[i].index < swings[k].index
    BY <1>1, <1>3
  <2> HIDE DEF k
  <2>3. swings[k].index < swings[k + 1].index
    BY <2>1 DEF InOrder
  <2>4. swings[i].index < swings[k + 1].index
    BY <1>1, <2>1, <2>2, <2>3
  <2> QED BY <2>1, <2>4
<1>4. \A d \in 0..n : d \in G
  <2> HIDE DEF G
  <2> QED BY <1>1, <1>2, <1>3, Induction
<1>5. n \in 0..n
  BY <1>1
<1> QED BY <1>1, <1>4, <1>5

\* The key of a later place ends on a later bar.
LEMMA KeysAscend ==
    ASSUME NEW s \in Setups, NEW series, NEW swings \in Seq(Swing(series)),
           DOMAIN series \subseteq Nat, InOrder(swings),
           NEW p \in Pattern(s, swings), NEW q \in Pattern(s, swings)
    PROVE  /\ Last(KeyAt(s, swings, p)) \in Nat
           /\ p < q => Last(KeyAt(s, swings, p)) < Last(KeyAt(s, swings, q))
<1> DEFINE m == KeySize(s)
           End(x) == x + m - 1
<1>1. /\ m \in Nat /\ m >= 1 /\ p \in Nat /\ q \in Nat
      /\ End(p) \in 1..Len(swings) /\ End(q) \in 1..Len(swings)
  BY PatternBounds DEF KeySize
<1>2. ASSUME NEW x \in Pattern(s, swings)
      PROVE  /\ Last(KeyAt(s, swings, x)) = swings[End(x)].index
             /\ swings[End(x)].index \in Nat
  <2>1. \A k \in 1..m : x + k - 1 \in 1..Len(swings)
    BY <1>1, PatternBounds
  <2>2. \A y \in Swing(series) : y.index \in Nat
    BY DEF Swing
  <2>3. \A k \in 1..Len(swings) : swings[k].index \in Nat
    BY <2>2
  <2>4. KeyAt(s, swings, x) \in [1..m -> Nat]
    BY <2>1, <2>3 DEF KeyAt
  <2>5. Len(KeyAt(s, swings, x)) = m
    BY <1>1, <2>4, IsASequence
  <2>6. KeyAt(s, swings, x)[m] = swings[End(x)].index
    BY <1>1 DEF KeyAt
  <2>7. m \in 1..m
    BY <1>1
  <2> QED BY <2>1, <2>3, <2>5, <2>6, <2>7 DEF Last
<1>3. p < q => swings[End(p)].index < swings[End(q)].index
  <2>1. p < q => End(p) < End(q)
    BY <1>1
  <2> HIDE DEF End
  <2> QED BY <1>1, <2>1, IndicesAscend
<1> QED BY <1>2, <1>3

-----------------------------------------------------------------------------
(* The candidate of a day.                                                    *)

LEMMA FirstTwo ==
    ASSUME NEW S, NEW t \in Seq(S), Len(t) = 3
    PROVE  /\ SubSeq(t, 1, 2) \in Seq(S) /\ Len(SubSeq(t, 1, 2)) = 2
           /\ \A k \in 1..2 : SubSeq(t, 1, 2)[k] = t[k]
<1>1. \A k \in 1..2 : t[k] \in S
  OBVIOUS
<1> QED BY <1>1, SubSeqProperties

\* A candidate stands at the newest place of its pattern.
LEMMA CandidatePlace ==
    ASSUME NEW s \in Setups, NEW series, NEW r, r.swings \in Seq(Swing(series)),
           CandidateOf(s, r) # NoCandidate
    PROVE  LET m == Max(Pattern(s, r.swings))
               c == CandidateOf(s, r)
           IN  /\ Pattern(s, r.swings) # {}
               /\ c.key = KeyAt(s, r.swings, m)
               /\ s = "SETUP_01" => c.floor = r.swings[m + 2].price
               /\ s # "SETUP_01" => c.floor = LastLow(r.swings).price /\ r.daily = "UPTREND"
<1> DEFINE w == r.swings
           P == Pattern(s, w)
           m == Max(P)
           c == CandidateOf(s, r)
<1>1. CASE s = "SETUP_01"
  <2> DEFINE three == UpwardThree(w)
  <2>1. Primary(r) = "WAVE_2_TO_3_CANDIDATE"
        /\ c = [key |-> Indices(SubSeq(three, 1, 2)), legs |-> three,
                floor |-> three[3].price, top |-> three[2].price]
    BY <1>1 DEF CandidateOf, Wave2Candidate
  <2>2. three # <<>>
    BY <2>1 DEF Primary
  <2>3. three = Latest(w, P, 3)
    BY <1>1 DEF UpwardThree, Pattern
  <2>4. P # {} /\ three = SubSeq(w, m, m + 3 - 1)
    BY <2>2, <2>3 DEF Latest
  <2>5. m \in P /\ m \in Nat /\ m >= 1 /\ m + 2 <= Len(w) /\ Len(w) \in Nat
    BY <2>4, NewestPattern, PatternBounds
  <2> HIDE DEF m, P
  <2>6. /\ Len(three) = 3 /\ three \in Seq(Swing(series))
        /\ \A k \in 1..3 : three[k] = w[m + k - 1]
    BY <2>4, <2>5
  <2> DEFINE S == Swing(series)
  <2> HIDE DEF three, S
  <2>7. /\ SubSeq(three, 1, 2) \in Seq(S) /\ Len(SubSeq(three, 1, 2)) = 2
        /\ \A k \in 1..2 : SubSeq(three, 1, 2)[k] = three[k]
    <3>1. three \in Seq(S) /\ Len(three) = 3
      BY <2>6 DEF S
    <3> QED BY <3>1, FirstTwo
  <2>8. DOMAIN SubSeq(three, 1, 2) = 1..2
    BY <2>7
  <2>9. Indices(SubSeq(three, 1, 2)) = [k \in 1..2 |-> w[m + k - 1].index]
    BY <2>6, <2>7, <2>8 DEF Indices
  <2>10. m + 3 - 1 = m + 2
    BY <2>5
  <2>11. three[3] = w[m + 2]
    BY <2>6, <2>10
  <2>12. c.key = KeyAt(s, w, m) /\ c.floor = w[m + 2].price
    BY <1>1, <2>1, <2>9, <2>11 DEF KeyAt, KeySize
  <2> HIDE DEF c
  <2> QED BY <1>1, <2>4, <2>12 DEF m, P, c
<1>2. CASE s # "SETUP_01"
  <2> DEFINE four == UpwardExpansion(w)
  <2>1. Primary(r) = "WAVE_3_CONTINUATION_CANDIDATE"
        /\ c = [key |-> Indices(four), legs |-> four,
                floor |-> LastLow(w).price, top |-> four[4].price]
    BY <1>2 DEF CandidateOf, ContinuationCandidate
  <2>2. IsContinuation(r)
    BY <2>1 DEF Primary
  <2>3. four = Latest(w, P, 4)
    BY <1>2 DEF UpwardExpansion, Pattern
  <2>4. P # {} /\ four = SubSeq(w, m, m + 4 - 1) /\ r.daily = "UPTREND"
    BY <2>2, <2>3 DEF Latest, IsContinuation
  <2>5. m \in P /\ m \in Nat /\ m >= 1 /\ m + 3 <= Len(w) /\ Len(w) \in Nat
    BY <1>2, <2>4, NewestPattern, PatternBounds
  <2> HIDE DEF m, P
  <2>6. /\ Len(four) = 4 /\ four \in Seq(Swing(series))
        /\ \A k \in 1..4 : four[k] = w[m + k - 1]
    BY <2>4, <2>5
  <2> HIDE DEF four
  <2>7. DOMAIN four = 1..4
    BY <2>6
  <2>8. Indices(four) = [k \in 1..4 |-> w[m + k - 1].index]
    BY <2>6, <2>7 DEF Indices
  <2> QED BY <1>2, <2>1, <2>4, <2>8 DEF KeyAt, KeySize, m, P
<1> QED BY <1>1, <1>2

\* A key is never empty.
LEMMA KeysAreFull ==
    ASSUME NEW s \in Setups, NEW w, NEW p
    PROVE  KeyAt(s, w, p) # <<>>
<1>1. DOMAIN KeyAt(s, w, p) = 1..KeySize(s) /\ 1 \in 1..KeySize(s)
  BY DEF KeyAt, KeySize
<1>2. DOMAIN <<>> = {}
  OBVIOUS
<1>3. DOMAIN KeyAt(s, w, p) # DOMAIN <<>>
  BY <1>1, <1>2
<1> QED BY <1>3

\* What a setup reads of one more day.
LEMMA DayAdvances ==
    ASSUME NEW before, NEW r, NEW i, NEW s \in Setups
    PROVE  Day(before, r, i)[s] = Advance(before[s], CandidateOf(s, r), r.close, i)
BY DEF Day, CandidateOf

-----------------------------------------------------------------------------
(* The latest low.                                                            *)

LEMMA PricesAreNumbers ==
    ASSUME NEW series \in Seq(Shapes), NEW w \in Seq(Swing(series)), NEW k \in 1..Len(w)
    PROVE  w[k].price \in Nat /\ w[k].index \in Nat
<1>1. \A j \in DOMAIN series : series[j].high \in Nat /\ series[j].low \in Nat
  <2>1. \A b \in Shapes : b.high \in Nat /\ b.low \in Nat
    BY SetupAssumption
  <2>2. \A j \in DOMAIN series : series[j] \in Shapes
    OBVIOUS
  <2> QED BY <2>1, <2>2
<1>2. DOMAIN series \subseteq Nat
  OBVIOUS
<1>3. w[k] \in Swing(series)
  OBVIOUS
<1> QED BY <1>1, <1>2, <1>3 DEF Swing

\* In an uptrend a further swing leaves the latest low no lower.
LEMMA LowsRise ==
    ASSUME NEW series \in Seq(Shapes), NEW a \in Seq(Swing(series)), NEW x \in Swing(series),
           OfKind(a, "LOW") # {}, Trend(Append(a, x)) = "UPTREND"
    PROVE  LastLow(Append(a, x)).price >= LastLow(a).price
<1> DEFINE n == Len(a)
           b == Append(a, x)
           A == OfKind(a, "LOW")
           L == OfKind(b, "LOW")
<1>1. /\ n \in Nat /\ b \in Seq(Swing(series)) /\ Len(b) = n + 1
      /\ \A k \in 1..n : b[k] = a[k]
      /\ b[n + 1] = x
  OBVIOUS
<1>2. A \subseteq 1..n /\ DOMAIN a = 1..n /\ DOMAIN b = 1..(n + 1)
  BY <1>1 DEF OfKind
<1>3. \A k \in 1..(n + 1) : b[k].price \in Nat
  BY <1>1, PricesAreNumbers
<1> HIDE DEF n, b
<1>4. A \subseteq L /\ L \subseteq A \cup {n + 1}
  <2>1. \A k \in 1..(n + 1) : k \in 1..n \/ k = n + 1
    BY <1>1
  <2>2. \A k \in 1..n : k \in 1..(n + 1)
    BY <1>1
  <2> QED BY <1>1, <1>2, <2>1, <2>2 DEF OfKind
<1>5. Max(A) \in A /\ Max(A) \in 1..n /\ Max(A) \in 1..(n + 1)
  BY <1>1, <1>2, MaxIn
<1>6. CASE n + 1 \notin L
  <2>1. L = A
    BY <1>4, <1>6
  <2>2. LastLow(b).price = LastLow(a).price
    BY <1>1, <1>5, <2>1 DEF LastLow, Newest
  <2>3. LastLow(b).price \in Nat
    BY <1>3, <1>5, <2>1 DEF LastLow, Newest
  <2> QED BY <2>2, <2>3 DEF b
<1>7. CASE n + 1 \in L
  <2>1. Rises(b, L)
    BY DEF Trend, b
  <2>2. L \subseteq 1..(n + 1) /\ n + 1 \in Nat
    BY <1>1, <1>2 DEF OfKind
  <2>3. Max(L) \in 1..(n + 1) /\ n + 1 <= Max(L)
    BY <1>7, <2>2, MaxIn
  <2>4. Max(L) = n + 1
    BY <1>1, <2>3
  <2>5. L \ {n + 1} = A
    <3>1. n + 1 \notin A
      BY <1>1, <1>2
    <3> QED BY <1>4, <3>1
  <2>6. b[n + 1].price > b[Max(A)].price
    BY <2>1, <2>4, <2>5 DEF Rises, Newest, Previous
  <2>7. LastLow(b).price = b[n + 1].price /\ LastLow(a).price = b[Max(A)].price
    BY <1>1, <1>5, <2>4 DEF LastLow, Newest
  <2>8. b[n + 1].price \in Nat /\ b[Max(A)].price \in Nat
    <3>1. n + 1 \in 1..(n + 1)
      BY <1>1
    <3> QED BY <1>3, <1>5, <3>1
  <2>9. LastLow(b).price >= LastLow(a).price
    BY <2>6, <2>7, <2>8
  <2> QED BY <2>9 DEF b
<1> QED BY <1>6, <1>7

\* Two days in a row that name one impulse put its end no lower.
LEMMA FloorsRise ==
    ASSUME NEW s \in Setups, NEW series \in Seq(Shapes), NEW q, NEW r,
           q.swings \in Seq(Swing(series)), r.swings \in Seq(Swing(series)),
           InOrder(r.swings), r.daily = Trend(r.swings),
           \/ r.swings = q.swings
           \/ \E x \in Swing(series) : r.swings = Append(q.swings, x),
           CandidateOf(s, q) # NoCandidate, CandidateOf(s, r) # NoCandidate,
           CandidateOf(s, q).key = CandidateOf(s, r).key
    PROVE  CandidateOf(s, r).floor >= CandidateOf(s, q).floor
<1> DEFINE a == q.swings
           b == r.swings
           m == Max(Pattern(s, a))
           l == Max(Pattern(s, b))
<1>0. /\ a \in Seq(Swing(series)) /\ b \in Seq(Swing(series)) /\ InOrder(b)
      /\ b = a \/ \E x \in Swing(series) : b = Append(a, x)
  OBVIOUS
<1>1. /\ Pattern(s, a) # {} /\ CandidateOf(s, q).key = KeyAt(s, a, m)
      /\ s = "SETUP_01" => CandidateOf(s, q).floor = a[m + 2].price
      /\ s # "SETUP_01" => CandidateOf(s, q).floor = LastLow(a).price
  BY CandidatePlace
<1>2. /\ Pattern(s, b) # {} /\ CandidateOf(s, r).key = KeyAt(s, b, l)
      /\ s = "SETUP_01" => CandidateOf(s, r).floor = b[l + 2].price
      /\ s # "SETUP_01" => CandidateOf(s, r).floor = LastLow(b).price /\ Trend(b) = "UPTREND"
  BY CandidatePlace
<1> HIDE DEF a, b, m, l
<1>3. m \in Pattern(s, a) /\ l \in Pattern(s, b)
  BY <1>0, <1>1, <1>2, NewestPattern DEF m, l
<1>4. AgreeUpTo(Len(a), a, b)
  BY <1>0 DEF AgreeUpTo
<1>5. DOMAIN series \subseteq Nat
  OBVIOUS
<1>6. m \in Pattern(s, b) /\ KeyAt(s, b, m) = KeyAt(s, a, m)
  BY <1>0, <1>3, <1>4, PatternsStay
<1>7. m \in Nat /\ l \in Nat /\ m >= 1 /\ m + 2 <= Len(a) /\ Len(a) \in Nat /\ m + 2 <= Len(b)
  BY <1>0, <1>3, <1>6, PatternBounds
<1>8. CASE s = "SETUP_01"
  <2>1. m = l
    <3>1. KeyAt(s, b, m) = KeyAt(s, b, l)
      BY <1>1, <1>2, <1>6
    <3>2. /\ Last(KeyAt(s, b, m)) \in Nat
          /\ m < l => Last(KeyAt(s, b, m)) < Last(KeyAt(s, b, l))
      BY <1>0, <1>3, <1>5, <1>6, KeysAscend
    <3>3. l < m => Last(KeyAt(s, b, l)) < Last(KeyAt(s, b, m))
      BY <1>0, <1>3, <1>5, <1>6, KeysAscend
    <3> QED BY <1>7, <3>1, <3>2, <3>3
  <2>2. a[m + 2] = b[m + 2] /\ m + 2 \in 1..Len(b)
    BY <1>0, <1>4, <1>7 DEF AgreeUpTo
  <2>3. b[m + 2].price \in Nat
    BY <1>0, <2>2, PricesAreNumbers
  <2> QED BY <1>1, <1>2, <1>8, <2>1, <2>2, <2>3
<1>9. CASE s # "SETUP_01"
  <2>1. OfKind(a, "LOW") # {}
    <3>1. m \in Places(a, <<"LOW", "HIGH", "LOW", "HIGH">>)
      BY <1>3, <1>9 DEF Pattern
    <3>2. a[m + 1 - 1].kind = "LOW"
      <4> DEFINE kinds == <<"LOW", "HIGH", "LOW", "HIGH">>
      <4>1. \A k \in 1..Len(kinds) : a[m + k - 1].kind = kinds[k]
        BY <3>1 DEF Places
      <4>2. 1 \in 1..Len(kinds) /\ kinds[1] = "LOW"
        OBVIOUS
      <4> QED BY <4>1, <4>2
    <3>3. m + 1 - 1 = m /\ m \in DOMAIN a
      BY <1>0, <1>7
    <3> QED BY <3>2, <3>3 DEF OfKind
  <2>2. LastLow(b).price >= LastLow(a).price
    <3>1. CASE b = a
      <4>1. OfKind(a, "LOW") \subseteq 1..Len(a)
        BY <1>0 DEF OfKind
      <4>2. Max(OfKind(a, "LOW")) \in 1..Len(a)
        BY <1>7, <2>1, <4>1, MaxIn
      <4>3. LastLow(a).price \in Nat
        BY <1>0, <4>2, PricesAreNumbers DEF LastLow, Newest
      <4> QED BY <3>1, <4>3
    <3>2. CASE b # a
      <4>1. PICK x \in Swing(series) : b = Append(a, x)
        BY <1>0, <3>2
      <4>2. Trend(Append(a, x)) = "UPTREND"
        BY <1>2, <1>9, <4>1
      <4>3. LastLow(Append(a, x)).price >= LastLow(a).price
        BY <1>0, <2>1, <4>2, LowsRise
      <4> QED BY <4>1, <4>3
    <3> QED BY <3>1, <3>2
  <2> QED BY <1>1, <1>2, <1>9, <2>2
<1> QED BY <1>8, <1>9

-----------------------------------------------------------------------------
(* The impulses of a history.                                                 *)

\* A lifecycle that was ever started is of an impulse that is still to be seen,
\* and the one of no number was never started.
Named(s, t, swings) ==
    /\ t.number = 0 => t.state = "NONE" /\ t.candidate.key = <<>>
    /\ t.number # 0 => \E p \in Pattern(s, swings) : t.candidate.key = KeyAt(s, swings, p)

\* One lifecycle is of one impulse, and the next one is of a later impulse.
Later(t, u) ==
    t.number # 0 => /\ t.number = u.number => u.candidate.key = t.candidate.key
                    /\ t.number < u.number => Last(t.candidate.key) < Last(u.candidate.key)

ImpulseInv ==
    /\ bars \in Seq(Shapes)
    /\ \A s \in Setups : \A i, j \in DOMAIN days :
          /\ Named(s, days[i][s], KnownSwings(bars))
          /\ i <= j => Later(days[i][s], days[j][s])

\* What is followed is the candidate of the last day.
OfToday(s, t, r) == t.state \in Live => t.candidate = CandidateOf(s, r) /\ t.candidate # NoCandidate

FollowedInv ==
    days # <<>> => \A s \in Setups : OfToday(s, days[Len(days)][s], ReadingOf(bars))

LEMMA HistoryGrows ==
    ASSUME NEW a \in Seq(Shapes), NEW b \in Shapes
    PROVE  LET h == Append(a, b)
           IN  /\ h \in Seq(Shapes)
               /\ KnownSwings(a) \in Seq(Swing(h)) /\ KnownSwings(h) \in Seq(Swing(h))
               /\ InOrder(KnownSwings(h))
               /\ \/ KnownSwings(h) = KnownSwings(a)
                  \/ \E x \in Swing(h) : KnownSwings(h) = Append(KnownSwings(a), x)
               /\ AgreeUpTo(Len(KnownSwings(a)), KnownSwings(a), KnownSwings(h))
<1> DEFINE h == Append(a, b)
           n == Len(a)
<1>1. h \in Seq(Shapes) /\ Len(h) = n + 1 /\ n \in Nat /\ \A k \in 1..n : h[k] = a[k]
  OBVIOUS
<1>2. DOMAIN a = 1..n /\ DOMAIN h = 1..(n + 1) /\ \A k \in 1..n : k \in 1..(n + 1)
  BY <1>1
<1> HIDE DEF h, n
<1>3. AgreeUpTo(Len(a), a, h) /\ Len(h) = Len(a) + 1
  BY <1>1 DEF AgreeUpTo, n
<1>4. Swing(a) \subseteq Swing(h)
  BY <1>1, <1>2 DEF Swing
<1>5. KnownSwings(a) \in Seq(Swing(a)) /\ KnownSwings(h) \in Seq(Swing(h)) /\ InOrder(KnownSwings(h))
  BY <1>1, KnownInOrder
<1>6. \/ KnownSwings(h) = KnownSwings(a)
      \/ \E x \in Swing(h) : KnownSwings(h) = Append(KnownSwings(a), x)
  BY <1>1, <1>3, KnownGrows
<1>7. KnownSwings(a) \in Seq(Swing(h))
  BY <1>4, <1>5
<1>8. AgreeUpTo(Len(KnownSwings(a)), KnownSwings(a), KnownSwings(h))
  BY <1>6, <1>7 DEF AgreeUpTo
<1> QED BY <1>1, <1>5, <1>6, <1>7, <1>8 DEF h

\* The key of an impulse ends on a bar.
LEMMA NamedEnds ==
    ASSUME NEW s \in Setups, NEW series, NEW swings \in Seq(Swing(series)),
           DOMAIN series \subseteq Nat, InOrder(swings),
           NEW t, Named(s, t, swings), t.number # 0
    PROVE  Last(t.candidate.key) \in Nat
<1>1. PICK p \in Pattern(s, swings) : t.candidate.key = KeyAt(s, swings, p)
  BY DEF Named
<1> QED BY <1>1, KeysAscend

\* A day keeps the impulse it follows or takes up a later one.
LEMMA AdvanceNames ==
    ASSUME NEW s \in Setups, NEW series, NEW r, r.swings \in Seq(Swing(series)),
           DOMAIN series \subseteq Nat, InOrder(r.swings),
           NEW t, t.number \in Nat, Named(s, t, r.swings), NEW close, NEW i
    PROVE  LET u == Advance(t, CandidateOf(s, r), close, i)
           IN  Named(s, u, r.swings) /\ Later(t, u)
<1> DEFINE w == r.swings
           c == CandidateOf(s, r)
           u == Advance(t, c, close, i)
           m == Max(Pattern(s, w))
<1>1. CASE c = NoCandidate
  <2>1. t.number = 0 => t.state \notin Live
    BY DEF Named, Live
  <2>2. u.number = t.number /\ u.candidate = t.candidate
    BY <1>1 DEF Advance, WithoutContext, Lifecycle
  <2>3. t.number = 0 => u = t
    BY <1>1, <2>1 DEF Advance, WithoutContext
  <2> HIDE DEF u
  <2> QED BY <2>2, <2>3 DEF Named, Later, u
<1>2. CASE c # NoCandidate
  <2>1. Pattern(s, w) # {} /\ c.key = KeyAt(s, w, m)
    BY <1>2, CandidatePlace
  <2>2. m \in Pattern(s, w) /\ \A p \in Pattern(s, w) : p <= m
    BY <2>1, NewestPattern
  <2>3. c.key # <<>>
    BY <2>1, KeysAreFull
  <2> HIDE DEF c, m
  <2>4. CASE c.key # t.candidate.key
    <3>1. u.number = t.number + 1 /\ u.candidate = c
      BY <1>2, <2>4 DEF Advance, Started, Lifecycle
    <3>2. Named(s, u, w)
      BY <2>1, <2>2, <3>1 DEF Named
    <3>3. ASSUME t.number # 0 PROVE Last(t.candidate.key) < Last(c.key)
      <4>1. PICK p \in Pattern(s, w) : t.candidate.key = KeyAt(s, w, p)
        BY <3>3 DEF Named
      <4>2. p # m /\ p <= m
        BY <2>1, <2>2, <2>4, <4>1
      <4>3. p \in Nat /\ m \in Nat
        BY <2>2, PatternBounds
      <4>4. p < m
        BY <4>2, <4>3
      <4>5. Last(KeyAt(s, w, p)) < Last(KeyAt(s, w, m))
        BY <2>2, <4>4, KeysAscend
      <4> QED BY <2>1, <4>1, <4>5
    <3> HIDE DEF u
    <3> QED BY <3>1, <3>2, <3>3 DEF Later, u, c
  <2>5. CASE c.key = t.candidate.key
    <3>1. t.number # 0
      BY <2>3, <2>5 DEF Named
    <3>2. u.number = t.number /\ u.candidate.key = t.candidate.key
      BY <1>2, <2>5 DEF Advance, Refreshed, Lifecycle
    <3>3. Named(s, u, w)
      BY <3>1, <3>2 DEF Named
    <3> HIDE DEF u
    <3> QED BY <3>1, <3>2, <3>3 DEF Later, u, c
  <2> QED BY <2>4, <2>5
<1> QED BY <1>1, <1>2

LEMMA LaterChain ==
    ASSUME NEW o, NEW t, NEW u,
           o.number \in Nat, t.number \in Nat, u.number \in Nat,
           o.number <= t.number, t.number <= u.number,
           Later(o, t), Later(t, u),
           o.number # 0 => Last(o.candidate.key) \in Nat,
           t.number # 0 => Last(t.candidate.key) \in Nat,
           u.number # 0 => Last(u.candidate.key) \in Nat
    PROVE  Later(o, u)
<1> SUFFICES ASSUME o.number # 0 PROVE /\ o.number = u.number => u.candidate.key = o.candidate.key
                                       /\ o.number < u.number => Last(o.candidate.key) < Last(u.candidate.key)
  BY DEF Later
<1>1. t.number # 0 /\ u.number # 0
  OBVIOUS
<1>2. CASE o.number = t.number
  BY <1>1, <1>2 DEF Later
<1>3. CASE o.number < t.number
  <2>1. Last(o.candidate.key) < Last(t.candidate.key)
    BY <1>3 DEF Later
  <2>2. Last(t.candidate.key) <= Last(u.candidate.key)
    BY <1>1 DEF Later
  <2> QED BY <1>1, <1>3, <2>1, <2>2
<1> QED BY <1>2, <1>3

EventInv == ImpulseInv /\ FollowedInv /\ InvalidationOnlyRises

LEMMA EventInit == PlanInit => EventInv
<1> SUFFICES ASSUME PlanInit PROVE EventInv
  OBVIOUS
<1>1. bars = <<>> /\ days = <<>> /\ <<>> \in Seq(Shapes) /\ Len(<<>>) = 0 /\ DOMAIN <<>> = {}
  BY DEF PlanInit, Init
<1>2. 1..(Len(days) - 1) = {}
  BY <1>1
<1> QED BY <1>1, <1>2 DEF EventInv, ImpulseInv, FollowedInv, InvalidationOnlyRises

LEMMA EventStep == PlanInv /\ EventInv /\ [PlanNext]_planVars => EventInv'
<1> SUFFICES ASSUME PlanInv, EventInv, [PlanNext]_planVars PROVE EventInv'
  OBVIOUS
<1>1. CASE UNCHANGED planVars
  <2>1. bars' = bars /\ days' = days
    BY <1>1 DEF planVars
  <2>2. ImpulseInv'
    BY <2>1 DEF EventInv, ImpulseInv
  <2>3. FollowedInv'
    BY <2>1 DEF EventInv, FollowedInv
  <2>4. InvalidationOnlyRises'
    BY <2>1 DEF EventInv, InvalidationOnlyRises
  <2> QED BY <2>2, <2>3, <2>4 DEF EventInv
<1>2. CASE PlanNext
  <2>1. PICK b \in Shapes : /\ bars' = Append(bars, b)
                            /\ days' = Evaluated(days, ReadingOf(bars'), Len(bars'))
    BY <1>2 DEF PlanNext, PlanSession, NextSession
  <2>2. PICK S : days \in Seq(S)
    BY DEF PlanInv, SameLength
  <2> DEFINE n == Len(days)
             r == ReadingOf(bars')
             q == ReadingOf(bars)
             new == Day(Before(days), r, Len(bars'))
  <2>3. /\ bars' \in Seq(Shapes) /\ DOMAIN bars' \subseteq Nat
        /\ KnownSwings(bars) \in Seq(Swing(bars')) /\ KnownSwings(bars') \in Seq(Swing(bars'))
        /\ InOrder(KnownSwings(bars'))
        /\ \/ KnownSwings(bars') = KnownSwings(bars)
           \/ \E x \in Swing(bars') : KnownSwings(bars') = Append(KnownSwings(bars), x)
        /\ AgreeUpTo(Len(KnownSwings(bars)), KnownSwings(bars), KnownSwings(bars'))
    <3>1. bars \in Seq(Shapes)
      BY DEF EventInv, ImpulseInv
    <3>2. bars' \in Seq(Shapes)
      BY <2>1, <3>1
    <3>3. DOMAIN bars' \subseteq Nat
      BY <3>2
    <3> QED BY <2>1, <3>1, <3>2, <3>3, HistoryGrows
  <2>4. /\ r.swings = KnownSwings(bars') /\ q.swings = KnownSwings(bars)
        /\ r.daily = Trend(KnownSwings(bars'))
    BY DEF ReadingOf, Reading, KnownSwings
  <2>5. days' = Append(days, new)
    BY <2>1 DEF Evaluated
  <2> DEFINE u(s) == new[s]
             t(s) == Before(days)[s]
  <2>6. \A s \in Setups : new[s] = Advance(t(s), CandidateOf(s, r), r.close, Len(bars'))
    BY DayAdvances
  <2> HIDE DEF r, q, new
  <2>7. /\ n \in Nat /\ Len(days') = n + 1 /\ days'[n + 1] = new
        /\ DOMAIN days = 1..n /\ DOMAIN days' = 1..(n + 1)
        /\ \A i \in 1..n : days'[i] = days[i]
    BY <2>2, <2>5, LongerSeq
  <2>8. n # 0 => n \in 1..n /\ Before(days) = days[n]
    BY <2>2, <2>7 DEF Before
  <2>9. n = 0 => Before(days) = [s \in Setups |-> NoLifecycle]
    BY <2>2 DEF Before
  <2> DEFINE w == KnownSwings(bars')
  <2> HIDE DEF n, w
  <2>10. ASSUME NEW s \in Setups, NEW i \in 1..n
         PROVE  Named(s, days[i][s], w) /\ days[i][s].number \in Nat
    <3>1. Named(s, days[i][s], KnownSwings(bars)) /\ days[i][s].number \in Nat
      BY <2>7 DEF EventInv, ImpulseInv, PlanInv, NumbersGrow
    <3>2. \A p \in Pattern(s, KnownSwings(bars)) :
            /\ p \in Pattern(s, w)
            /\ KeyAt(s, w, p) = KeyAt(s, KnownSwings(bars), p)
      BY <2>3, PatternsStay DEF w
    <3> QED BY <3>1, <3>2 DEF Named
  <2>11. ASSUME NEW s \in Setups PROVE t(s).number \in Nat /\ Named(s, t(s), w)
    <3>1. CASE n = 0
      <4>1. t(s) = NoLifecycle
        BY <2>9, <3>1
      <4> QED BY <4>1 DEF Named, NoLifecycle, Lifecycle, NoCandidate
    <3>2. CASE n # 0
      BY <2>8, <2>10, <3>2
    <3> QED BY <3>1, <3>2
  <2>12. ASSUME NEW s \in Setups
         PROVE  Named(s, u(s), w) /\ Later(t(s), u(s)) /\ u(s).number \in Nat
                /\ t(s).number <= u(s).number
    <3>1. Named(s, u(s), w) /\ Later(t(s), u(s))
      <4>1. r.swings \in Seq(Swing(bars')) /\ InOrder(r.swings) /\ r.swings = w
        BY <2>3, <2>4 DEF w
      <4> HIDE DEF t
      <4> QED BY <2>3, <2>6, <2>11, <4>1, AdvanceNames
    <3>2. u(s).number \in Nat /\ Grows(t(s), u(s))
      BY <2>6, <2>11, AdvanceGrows
    <3> QED BY <3>1, <3>2 DEF Grows
  <2>13. ImpulseInv'
    <3>1. ASSUME NEW s \in Setups, NEW i \in 1..(n + 1)
          PROVE  Named(s, days'[i][s], w) /\ days'[i][s].number \in Nat
      <4>1. CASE i = n + 1
        BY <2>7, <2>12, <4>1
      <4>2. CASE i \in 1..n
        BY <2>7, <2>10, <4>2
      <4> QED BY <2>7, <4>1, <4>2
    <3>2. ASSUME NEW s \in Setups, NEW i \in 1..(n + 1), NEW j \in 1..(n + 1), i <= j
          PROVE  Later(days'[i][s], days'[j][s])
      <4>1. CASE j \in 1..n
        <5>1. i \in 1..n
          BY <2>7, <3>2, <4>1
        <5> QED BY <2>7, <3>2, <4>1, <5>1 DEF EventInv, ImpulseInv
      <4>2. CASE i = n + 1 /\ j = n + 1
        <5>1. days'[i][s].number \in Nat
          BY <3>1
        <5> QED BY <4>2, <5>1 DEF Later
      <4>3. CASE i \in 1..n /\ j = n + 1
        <5>1. n \in 1..n /\ t(s) = days[n][s] /\ i <= n
          BY <2>7, <2>8, <4>3
        <5>2. Later(days[i][s], t(s))
          BY <2>7, <4>3, <5>1 DEF EventInv, ImpulseInv
        <5>3. days[i][s].number <= t(s).number
          BY <2>7, <4>3, <5>1 DEF PlanInv, NumbersGrow, Grows
        <5>4. Later(t(s), u(s)) /\ t(s).number <= u(s).number /\ u(s).number \in Nat
              /\ t(s).number \in Nat /\ days[i][s].number \in Nat
          BY <2>10, <2>11, <2>12, <4>3
        <5>5. /\ days[i][s].number # 0 => Last(days[i][s].candidate.key) \in Nat
              /\ t(s).number # 0 => Last(t(s).candidate.key) \in Nat
              /\ u(s).number # 0 => Last(u(s).candidate.key) \in Nat
          <6>1. Named(s, days[i][s], w) /\ Named(s, t(s), w) /\ Named(s, u(s), w)
            BY <2>10, <2>11, <2>12, <4>3
          <6>2. w \in Seq(Swing(bars')) /\ InOrder(w)
            BY <2>3 DEF w
          <6> HIDE DEF t, u
          <6> QED BY <2>3, <6>1, <6>2, NamedEnds
        <5> HIDE DEF t, u
        <5>6. Later(days[i][s], u(s))
          BY <5>2, <5>3, <5>4, <5>5, LaterChain
        <5> QED BY <2>7, <4>3, <5>6 DEF u
      <4> QED BY <2>7, <3>2, <4>1, <4>2, <4>3
    <3> QED BY <2>3, <2>7, <3>1, <3>2 DEF ImpulseInv, w
  <2>14. ASSUME NEW s \in Setups, u(s).state \in Live
         PROVE  u(s).candidate = CandidateOf(s, r) /\ CandidateOf(s, r) # NoCandidate
    <3> DEFINE c == CandidateOf(s, r)
    <3>1. u(s) = Advance(t(s), c, r.close, Len(bars'))
      BY <2>6
    <3> HIDE DEF c, t, u
    <3>2. c # NoCandidate
      BY <2>14, <3>1, NothingLive
    <3>3. CASE c.key # t(s).candidate.key
      BY <3>1, <3>2, <3>3 DEF Advance, Started, Lifecycle, c
    <3>4. CASE c.key = t(s).candidate.key
      <4>1. t(s).state \notin Terminal
        BY <2>14, <3>1, <3>2, <3>4 DEF Advance, Live, Terminal
      <4> QED BY <3>1, <3>2, <3>4, <4>1 DEF Advance, Refreshed, Lifecycle, c
    <3> QED BY <3>3, <3>4
  <2>15. FollowedInv'
    <3>1. \A s \in Setups : OfToday(s, days'[n + 1][s], r)
      BY <2>7, <2>14 DEF OfToday
    <3> QED BY <2>7, <3>1 DEF FollowedInv, r
  <2>16. InvalidationOnlyRises'
    <3> SUFFICES ASSUME NEW s \in Setups, NEW i \in 1..n,
                        days'[i][s].state \in Live, days'[i + 1][s].state \in Live,
                        days'[i + 1][s].candidate.key = days'[i][s].candidate.key
                 PROVE  days'[i + 1][s].candidate.floor >= days'[i][s].candidate.floor
      <4>1. 1..(Len(days') - 1) = 1..n
        BY <2>7
      <4> QED BY <4>1 DEF InvalidationOnlyRises
    <3>1. CASE i # n
      <4>1. i \in 1..(Len(days) - 1) /\ i + 1 \in 1..n
        BY <2>7, <3>1 DEF n
      <4>2. days'[i] = days[i] /\ days'[i + 1] = days[i + 1]
        BY <2>7, <4>1
      <4> QED BY <4>1, <4>2 DEF EventInv, InvalidationOnlyRises
    <3>2. CASE i = n
      <4>1. days'[i][s] = days[n][s] /\ days'[i + 1][s] = u(s) /\ days # <<>>
        BY <2>7, <3>2 DEF n
      <4>2. OfToday(s, days[n][s], q)
        BY <4>1 DEF EventInv, FollowedInv, q, n
      <4>3. /\ days[n][s].candidate = CandidateOf(s, q) /\ CandidateOf(s, q) # NoCandidate
            /\ u(s).candidate = CandidateOf(s, r) /\ CandidateOf(s, r) # NoCandidate
        BY <2>14, <4>1, <4>2 DEF OfToday
      <4>4. CandidateOf(s, q).key = CandidateOf(s, r).key
        BY <4>1, <4>3
      <4>5. CandidateOf(s, r).floor >= CandidateOf(s, q).floor
        BY <2>3, <2>4, <4>3, <4>4, FloorsRise
      <4> QED BY <4>1, <4>3, <4>5
    <3> QED BY <3>1, <3>2
  <2> QED BY <2>13, <2>15, <2>16 DEF EventInv
<1> QED BY <1>1, <1>2

LEMMA EventsAreOrdered == PlanInv /\ EventInv => EventsMoveForward
<1> SUFFICES ASSUME PlanInv, EventInv, NEW s \in Setups, NEW i \in Events(s), NEW j \in Events(s), i < j
             PROVE  Last(days[i][s].candidate.key) < Last(days[j][s].candidate.key)
  BY DEF EventsMoveForward
<1>1. i \in DOMAIN days /\ j \in DOMAIN days /\ i <= j /\ i # j
  <2>1. PICK S : days \in Seq(S)
    BY DEF PlanInv, SameLength
  <2> QED BY <2>1 DEF Events
<1>2. days[i][s].state \in Terminal /\ days[i][s].since = i /\ days[j][s].since = j
  BY DEF Events
<1>3. /\ days[i][s].number \in Nat /\ days[j][s].number \in Nat
      /\ Grows(days[i][s], days[j][s])
  BY <1>1 DEF PlanInv, NumbersGrow
<1>4. days[i][s].number < days[j][s].number
  <2>1. days[i][s].number # days[j][s].number
    BY <1>1, <1>2, <1>3 DEF Grows
  <2> QED BY <1>3, <2>1 DEF Grows
<1>5. /\ Named(s, days[i][s], KnownSwings(bars)) /\ Later(days[i][s], days[j][s])
  BY <1>1 DEF EventInv, ImpulseInv
<1>6. days[i][s].number # 0
  BY <1>2, <1>5 DEF Named, Terminal
<1> QED BY <1>4, <1>5, <1>6 DEF Later

\* An impulse is reported once, and the next event of a setup is of a later
\* impulse, for any prices, calendar and lookback ("not backfilled or repeated").
THEOREM EventsAscend == PlanSpec => []EventsMoveForward
<1>1. PlanSpec => [](PlanInv /\ EventInv)
  BY PlanInitHolds, PlanStepHolds, EventInit, EventStep, PTL DEF PlanSpec
<1> QED BY <1>1, EventsAreOrdered, PTL

\* While an impulse is followed, the close that would invalidate it never moves
\* down, though for SETUP_02 the latest confirmed low that defines it changes.
THEOREM InvalidationRises == PlanSpec => []InvalidationOnlyRises
<1>1. PlanSpec => [](PlanInv /\ EventInv)
  BY PlanInitHolds, PlanStepHolds, EventInit, EventStep, PTL DEF PlanSpec
<1>2. EventInv => InvalidationOnlyRises
  BY DEF EventInv
<1> QED BY <1>1, <1>2, PTL

-----------------------------------------------------------------------------
(* The average true range is a number.                                        *)

LEMMA LargestOfThree ==
    ASSUME NEW a \in Nat, NEW b \in Nat, NEW c \in Nat
    PROVE  Max({a, b, c}) \in Nat
<1>1. \E x \in {a, b, c} : \A y \in {a, b, c} : x >= y
  OBVIOUS
<1>2. Max({a, b, c}) \in {a, b, c}
  BY <1>1, Zenon DEF Max
<1> QED BY <1>2

LEMMA AveragedIsNatural ==
    ASSUME NEW average \in Nat, NEW range \in Nat, NEW i \in Nat
    PROVE  Averaged(average, range, i) \in Nat
<1>1. ASSUME NEW x \in Nat PROVE x \div AtrPeriod \in Nat
  BY PlanAssumption
<1>2. AtrPeriod - 1 \in Nat
  BY PlanAssumption
<1>3. average + range \in Nat
  OBVIOUS
<1>4. average * (AtrPeriod - 1) \in Nat
  BY <1>2
<1>5. average * (AtrPeriod - 1) + range \in Nat
  BY <1>4
<1> QED BY <1>1, <1>3, <1>5 DEF Averaged

LEMMA AtrIsNatural ==
    ASSUME NEW h \in Seq(Shapes)
    PROVE  Atr(h) \in Nat
<1> DEFINE n == Len(h)
           Step(t, i) == IF i <= 1 THEN 0 ELSE Averaged(t, TrueRange(h, i), i)
           turn == [i \in 1..n |-> [t \in Nat |-> Step(t, i)]]
           Follows(f) == f = [i \in 0..n |-> IF i <= 1 THEN 0
                                             ELSE Averaged(f[i - 1], TrueRange(h, i), i)]
<1>1. n \in Nat /\ \A b \in Shapes : b.high \in Nat /\ b.low \in Nat /\ b.close \in Nat /\ b.low <= b.high
  <2>1. \A b \in Shapes : b.high \in Nat /\ b.low \in Nat /\ b.close \in Nat
    BY SetupAssumption
  <2>2. \A b \in Shapes : b.low <= b.close /\ b.close <= b.high
    BY SetupAssumption
  <2> QED BY <2>1, <2>2
<1>2. ASSUME NEW i \in 1..n, i > 1 PROVE TrueRange(h, i) \in Nat
  <2>1. h[i] \in Shapes /\ h[i - 1] \in Shapes
    BY <1>2
  <2>2. h[i].high - h[i].low \in Nat
    BY <1>1, <2>1
  <2>3. Distance(h[i].high, h[i - 1].close) \in Nat /\ Distance(h[i].low, h[i - 1].close) \in Nat
    BY <1>1, <2>1 DEF Distance
  <2> QED BY <2>2, <2>3, LargestOfThree DEF TrueRange
<1>3. ASSUME NEW i \in 1..n, NEW t \in Nat PROVE Step(t, i) \in Nat
  <2>1. CASE i <= 1
    BY <2>1
  <2>2. CASE ~ i <= 1
    <3>1. TrueRange(h, i) \in Nat /\ i \in Nat
      BY <1>1, <1>2, <2>2
    <3> QED BY <2>2, <3>1, AveragedIsNatural
  <2> QED BY <2>1, <2>2
<1> HIDE DEF n, Step
<1>4. turn \in [1..n -> [Nat -> Nat]] /\ \A i \in 1..n : \A t \in Nat : turn[i][t] = Step(t, i)
  BY <1>3
<1> HIDE DEF turn
<1>5. PICK f \in [0..n -> Nat] : f[0] = 0 /\ \A i \in 1..n : f[i] = turn[i][f[i - 1]]
  <2>1. \E f \in [0..n -> Nat] : IsRun(f, n, 0, turn)
    BY <1>1, <1>4, LoopRuns
  <2> QED BY <2>1 DEF IsRun
<1>6. Follows(f)
  <2>1. \A i \in 1..n : f[i - 1] \in Nat
    BY <1>1
  <2>2. \A i \in 1..n : f[i] = Step(f[i - 1], i)
    BY <1>4, <1>5, <2>1
  <2>3. \A i \in 0..n : f[i] = IF i <= 1 THEN 0 ELSE Averaged(f[i - 1], TrueRange(h, i), i)
    BY <1>1, <1>5, <2>2 DEF Step
  <2> QED BY <2>3
<1> DEFINE g == Averages(h)
<1>7. Follows(g)
  BY <1>6 DEF Averages, n
<1> HIDE DEF g
<1>8. g[0] = 0 /\ \A i \in 1..n : g[i] = Step(g[i - 1], i)
  BY <1>1, <1>7 DEF Step
<1> DEFINE G == {i \in 0..n : g[i] \in Nat}
<1>9. G \in SUBSET (0..n) /\ 0 \in G
  BY <1>1, <1>8
<1>10. ASSUME NEW m \in 1..n, m - 1 \in G PROVE m \in G
  <2>1. g[m - 1] \in Nat /\ m \in 0..n /\ g[m] = Step(g[m - 1], m)
    BY <1>1, <1>8, <1>10
  <2>2. Step(g[m - 1], m) \in Nat
    BY <1>3, <2>1
  <2> QED BY <2>1, <2>2
<1>11. \A m \in 0..n : m \in G
  <2> HIDE DEF G
  <2> QED BY <1>1, <1>9, <1>10, Induction
<1> QED BY <1>1, <1>11 DEF Atr, g, n

-----------------------------------------------------------------------------
(* The legs of a candidate.                                                   *)

LEMMA KnownAreKnown ==
    ASSUME NEW B, NEW series \in Seq(B), NEW k \in 1..Len(KnownSwings(series))
    PROVE  KnownBy(KnownSwings(series)[k], Len(series))
<1> DEFINE n == Len(series)
           s == FindSwings(series)
<1>1. n \in Nat /\ n \in 0..n
  OBVIOUS
<1>2. s \in Swings(series, n)
  BY <1>1, SwingsRun DEF FindSwings
<1> HIDE DEF s
<1>3. KnownSwings(series) = SubSeq(s, 1, Len(s) - 1)
  BY <1>1, <1>2, AllButLastKnown DEF KnownSwings, s
<1>4. s \in Seq(Swing(series)) /\ \A j \in 1..(Len(s) - 1) : KnownBy(s[j], n)
  BY <1>2 DEF Swings
<1>5. \A j \in 1..Len(SubSeq(s, 1, Len(s) - 1)) :
          j \in 1..(Len(s) - 1) /\ SubSeq(s, 1, Len(s) - 1)[j] = s[j]
  BY <1>4
<1> QED BY <1>3, <1>4, <1>5

LegsOf(s) == IF s = "SETUP_01" THEN 3 ELSE 4

\* A candidate is made of the swings of its pattern.
LEMMA CandidateLegs ==
    ASSUME NEW s \in Setups, NEW series, NEW r, r.swings \in Seq(Swing(series)),
           CandidateOf(s, r) # NoCandidate
    PROVE  LET c == CandidateOf(s, r)
               m == Max(Pattern(s, r.swings))
           IN  /\ DOMAIN c.legs = 1..LegsOf(s) /\ c.legs # <<>>
               /\ \A k \in 1..LegsOf(s) : c.legs[k] = r.swings[m + k - 1]
               /\ s = "SETUP_01" => /\ c.legs[1].price < c.legs[2].price
                                    /\ c.legs[1].price < c.legs[3].price
                                    /\ c.legs[3].price < c.legs[2].price
                                    /\ c.top = c.legs[2].price /\ c.floor = c.legs[3].price
               /\ s # "SETUP_01" => /\ c.top = c.legs[4].price
                                    /\ r.close > c.floor
<1> DEFINE w == r.swings
           P == Pattern(s, w)
           m == Max(P)
           c == CandidateOf(s, r)
<1>0. P # {}
  BY CandidatePlace
<1>1. CASE s = "SETUP_01"
  <2> DEFINE three == UpwardThree(w)
  <2>1. /\ Primary(r) = "WAVE_2_TO_3_CANDIDATE" /\ three[3].price < three[2].price
        /\ c = [key |-> Indices(SubSeq(three, 1, 2)), legs |-> three,
                floor |-> three[3].price, top |-> three[2].price]
    BY <1>1 DEF CandidateOf, Wave2Candidate
  <2>2. IsWave2(three, r.close)
    BY <2>1 DEF Primary
  <2>3. three = Latest(w, P, 3)
    BY <1>1 DEF UpwardThree, Pattern
  <2>4. three = SubSeq(w, m, m + 3 - 1)
    BY <1>0, <2>3 DEF Latest
  <2>5. m \in P /\ m \in Nat /\ m >= 1 /\ m + 2 <= Len(w) /\ Len(w) \in Nat
    BY <1>0, NewestPattern, PatternBounds
  <2> HIDE DEF m, P
  <2>6. /\ Len(three) = 3 /\ three \in Seq(Swing(series))
        /\ \A k \in 1..3 : three[k] = w[m + k - 1]
    BY <2>4, <2>5
  <2> HIDE DEF three
  <2>7. DOMAIN three = 1..3 /\ three # <<>>
    <3>1. DOMAIN three = 1..3
      BY <2>6
    <3>2. Len(three) # Len(<<>>)
      BY <2>6
    <3> QED BY <3>1, <3>2
  <2>8. three[2].price > three[1].price /\ three[3].price > three[1].price
    BY <2>2 DEF IsWave2
  <2>9. 1..LegsOf(s) = 1..3 /\ c.legs = three
    BY <1>1, <2>1 DEF LegsOf
  <2>10. /\ \A k \in 1..LegsOf(s) : c.legs[k] = w[m + k - 1]
         /\ DOMAIN c.legs = 1..LegsOf(s) /\ c.legs # <<>>
         /\ c.legs[1].price < c.legs[2].price /\ c.legs[1].price < c.legs[3].price
         /\ c.legs[3].price < c.legs[2].price
         /\ c.top = c.legs[2].price /\ c.floor = c.legs[3].price
    BY <2>1, <2>6, <2>7, <2>8, <2>9
  <2> HIDE DEF c
  <2> QED BY <1>1, <2>10 DEF m, P, c
<1>2. CASE s # "SETUP_01"
  <2> DEFINE four == UpwardExpansion(w)
  <2>1. /\ Primary(r) = "WAVE_3_CONTINUATION_CANDIDATE" /\ r.close > LastLow(w).price
        /\ c = [key |-> Indices(four), legs |-> four,
                floor |-> LastLow(w).price, top |-> four[4].price]
    BY <1>2 DEF CandidateOf, ContinuationCandidate
  <2>3. four = Latest(w, P, 4)
    BY <1>2 DEF UpwardExpansion, Pattern
  <2>4. four = SubSeq(w, m, m + 4 - 1)
    BY <1>0, <2>3 DEF Latest
  <2>5. m \in P /\ m \in Nat /\ m >= 1 /\ m + 3 <= Len(w) /\ Len(w) \in Nat
    BY <1>0, <1>2, NewestPattern, PatternBounds
  <2> HIDE DEF m, P
  <2>6. /\ Len(four) = 4 /\ four \in Seq(Swing(series))
        /\ \A k \in 1..4 : four[k] = w[m + k - 1]
    BY <2>4, <2>5
  <2> HIDE DEF four
  <2>7. DOMAIN four = 1..4 /\ four # <<>>
    <3>1. DOMAIN four = 1..4
      BY <2>6
    <3>2. Len(four) # Len(<<>>)
      BY <2>6
    <3> QED BY <3>1, <3>2
  <2>8. 1..LegsOf(s) = 1..4
    BY <1>2 DEF LegsOf
  <2>9. c.legs = four /\ c.top = four[4].price /\ r.close > c.floor
    BY <2>1
  <2> HIDE DEF c
  <2>10. \A k \in 1..LegsOf(s) : c.legs[k] = w[m + k - 1]
    BY <2>6, <2>8, <2>9
  <2>11. DOMAIN c.legs = 1..LegsOf(s) /\ c.legs # <<>>
    BY <2>7, <2>8, <2>9
  <2>12. c.top = c.legs[4].price
    BY <2>9
  <2> QED BY <1>2, <2>9, <2>10, <2>11, <2>12 DEF m, P, c
<1> QED BY <1>1, <1>2
-----------------------------------------------------------------------------
(* What is confirmed has a plan, or a reason of the market not to have one.   *)

\* A day on which a lifecycle is newly confirmed confirms the candidate of the
\* day, by the close of the day.
LEMMA AdvanceEvents ==
    ASSUME NEW t, NEW c, NEW close, NEW i \in Nat, t.since \in Nat, t.since < i
    PROVE  LET u == Advance(t, c, close, i)
           IN  /\ u.since \in Nat /\ u.since <= i
               /\ u.state = "CONFIRMED" /\ u.since = i
                    => /\ c # NoCandidate /\ u.candidate = c
                       /\ StateFor(c, close) = "CONFIRMED"
<1>1. CASE c = NoCandidate
  BY <1>1 DEF Advance, WithoutContext, Lifecycle
<1>2. CASE c # NoCandidate /\ c.key # t.candidate.key
  BY <1>2 DEF Advance, Started, Lifecycle
<1>3. CASE c # NoCandidate /\ c.key = t.candidate.key /\ t.state \in Terminal
  BY <1>3 DEF Advance
<1>4. CASE c # NoCandidate /\ c.key = t.candidate.key /\ t.state \notin Terminal
  BY <1>4 DEF Advance, Refreshed, Lifecycle
<1> QED BY <1>1, <1>2, <1>3, <1>4

LEMMA ConfirmedAbove ==
    ASSUME NEW c, NEW close, StateFor(c, close) = "CONFIRMED"
    PROVE  close > c.top /\ ~ close <= c.floor
BY DEF StateFor

LEMMA DecidedByGate ==
    ASSUME NEW s, NEW day, NEW h, NEW t, day.state = "CONFIRMED", day.since = t
    PROVE  Decision(s, day, h, t).gate = Gate(s, day.candidate, SubSeq(h, 1, t))
<1> DEFINE gate == Gate(s, day.candidate, SubSeq(h, 1, t))
           plan == Plan(s, day.candidate, SubSeq(h, 1, t))
<1>1. Decision(s, day, h, t) = IF gate # "ENTRY_ALLOWED" THEN [gate |-> gate]
                               ELSE [gate |-> gate, plan |-> plan]
  BY Zenon DEF Decision
<1> HIDE DEF gate, plan
<1> QED BY <1>1 DEF gate

\* The swings of SETUP_02's impulse are an expansion the evaluator takes.
LEMMA ExpansionIsSound ==
    ASSUME NEW h \in Seq(Shapes), NEW r, r.swings = KnownSwings(h),
           CandidateOf("SETUP_02", r) # NoCandidate
    PROVE  LET c == CandidateOf("SETUP_02", r)
           IN  /\ c.legs # <<>> /\ KnownOn(c.legs, Len(h))
               /\ SoundLegs("SETUP_02", c.legs) /\ SoundLevels("SETUP_02", c)
               /\ c.legs[1].price \in Nat /\ c.legs[2].price \in Nat
               /\ c.legs[1].price < c.legs[3].price
<1> DEFINE w == KnownSwings(h)
           P == Pattern("SETUP_02", w)
           m == Max(P)
           c == CandidateOf("SETUP_02", r)
           v == c.legs
<1>1. w \in Seq(Swing(h)) /\ InOrder(w) /\ DOMAIN h \subseteq Nat
  BY KnownInOrder
<1>2. /\ DOMAIN v = 1..4 /\ v # <<>> /\ c.top = v[4].price
      /\ \A k \in 1..4 : v[k] = w[m + k - 1]
  <2>1. r.swings \in Seq(Swing(h)) /\ "SETUP_02" \in Setups /\ "SETUP_02" # "SETUP_01"
    BY <1>1 DEF Setups
  <2>2. LegsOf("SETUP_02") = 4
    BY DEF LegsOf
  <2> DEFINE e == CandidateOf("SETUP_02", r)
             l == Max(Pattern("SETUP_02", r.swings))
  <2>3. /\ DOMAIN e.legs = 1..LegsOf("SETUP_02") /\ e.legs # <<>>
        /\ \A k \in 1..LegsOf("SETUP_02") : e.legs[k] = r.swings[l + k - 1]
        /\ e.top = e.legs[4].price
    BY <2>1, CandidateLegs
  <2>4. l = m /\ r.swings = w
    OBVIOUS
  <2> HIDE DEF e, l, m, w
  <2> QED BY <2>2, <2>3, <2>4 DEF e
<1>3. m \in P /\ m \in Nat /\ m >= 1 /\ m + 3 <= Len(w) /\ Len(w) \in Nat
  <2>1. "SETUP_02" \in Setups /\ "SETUP_02" # "SETUP_01" /\ r.swings \in Seq(Swing(h))
    BY <1>1 DEF Setups
  <2>2. P # {}
    BY <2>1, CandidatePlace
  <2> QED BY <1>1, <2>1, <2>2, NewestPattern, PatternBounds
<1>4. /\ \A k \in 1..4 : w[m + k - 1].kind = <<"LOW", "HIGH", "LOW", "HIGH">>[k]
      /\ w[m + 3].price > w[m + 1].price /\ w[m + 2].price > w[m].price
  <2> HIDE DEF m
  <2> QED BY <1>3 DEF P, Pattern, Places
<1> HIDE DEF m, P, c, w
<1>5. \A k \in 1..4 : m + k - 1 \in 1..Len(w)
  BY <1>3
<1>6. \A k \in 1..4 : v[k].price \in Nat /\ v[k].index \in Nat /\ KnownBy(v[k], Len(h))
  <2> SUFFICES ASSUME NEW k \in 1..4
               PROVE  v[k].price \in Nat /\ v[k].index \in Nat /\ KnownBy(v[k], Len(h))
    OBVIOUS
  <2> DEFINE j == m + k - 1
  <2>1. j \in 1..Len(w) /\ v[k] = w[j]
    BY <1>2, <1>5
  <2> HIDE DEF j
  <2>2. KnownBy(w[j], Len(h))
    BY <2>1, KnownAreKnown DEF w
  <2>3. w[j].price \in Nat /\ w[j].index \in Nat
    BY <1>1, <2>1, PricesAreNumbers
  <2> QED BY <2>1, <2>2, <2>3
<1>7. KnownOn(v, Len(h))
  BY <1>2, <1>6 DEF KnownOn, KnownBy
<1>8. v[1] = w[m] /\ v[2] = w[m + 1] /\ v[3] = w[m + 2] /\ v[4] = w[m + 3]
  <2>1. m + 1 - 1 = m /\ m + 2 - 1 = m + 1 /\ m + 3 - 1 = m + 2 /\ m + 4 - 1 = m + 3
    BY <1>3
  <2>2. v[1] = w[m + 1 - 1] /\ v[2] = w[m + 2 - 1] /\ v[3] = w[m + 3 - 1] /\ v[4] = w[m + 4 - 1]
    BY <1>2
  <2> QED BY <2>1, <2>2
<1>9. [k \in 1..4 |-> v[k].kind] = <<"LOW", "HIGH", "LOW", "HIGH">>
  <2>1. \A k \in 1..4 : v[k].kind = <<"LOW", "HIGH", "LOW", "HIGH">>[k]
    BY <1>2, <1>4
  <2>2. <<"LOW", "HIGH", "LOW", "HIGH">> = [k \in 1..4 |-> <<"LOW", "HIGH", "LOW", "HIGH">>[k]]
    OBVIOUS
  <2> QED BY <2>1, <2>2
<1>10. \A k \in 1..3 : v[k].index < v[k + 1].index
  <2>1. m \in 1..(Len(w) - 1) /\ m + 1 \in 1..(Len(w) - 1) /\ m + 2 \in 1..(Len(w) - 1)
    BY <1>3
  <2>2. \A k \in 1..(Len(w) - 1) : w[k].index < w[k + 1].index
    BY <1>1 DEF InOrder
  <2>3. m + 1 + 1 = m + 2 /\ m + 2 + 1 = m + 3
    BY <1>3
  <2>4. w[m].index < w[m + 1].index
    BY <2>1, <2>2
  <2>5. w[m + 1].index < w[m + 2].index
    BY <2>1, <2>2, <2>3
  <2>6. w[m + 2].index < w[m + 3].index
    BY <2>1, <2>2, <2>3
  <2> QED BY <1>8, <2>4, <2>5, <2>6
<1>11. \A k \in 1..2 : v[k].price < v[k + 2].price
  <2>1. v[1].price < v[3].price /\ v[2].price < v[4].price
    BY <1>4, <1>6, <1>8
  <2> QED BY <2>1
<1>12. SoundLegs("SETUP_02", v) /\ SoundLevels("SETUP_02", c)
  BY <1>2, <1>9, <1>10, <1>11 DEF SoundLegs, SoundLevels
<1>13. v[1].price < v[3].price
  BY <1>11
<1> QED BY <1>2, <1>6, <1>7, <1>12, <1>13 DEF c, v

\* The candidate of a day that confirms it is sound, and its plan reasonable but
\* for an expansion whose first high is below its first low.
LEMMA EventIsSound ==
    ASSUME NEW s \in Setups, NEW h \in Seq(Shapes), h # <<>>,
           CandidateOf(s, ReadingOf(h)) # NoCandidate, IsReadable(ReadingOf(h)),
           StateFor(CandidateOf(s, ReadingOf(h)), ReadingOf(h).close) = "CONFIRMED"
    PROVE  LET c == CandidateOf(s, ReadingOf(h))
           IN  /\ IsSound(s, c, h)
               /\ \/ IsReasonable(s, c, Plan(s, c, h))
                  \/ s = "SETUP_02" /\ c.legs[2].price < c.legs[1].price
<1> DEFINE r == ReadingOf(h)
           c == CandidateOf(s, r)
           p == Plan(s, c, h)
<1>1. r.swings = KnownSwings(h) /\ r.close = h[Len(h)].close
  BY DEF ReadingOf, Reading, KnownSwings
<1>2. h[Len(h)] \in Shapes /\ Last(h) = h[Len(h)] /\ Len(h) \in Nat
  BY DEF Last
<1>3. r.close \in Nat /\ Last(h).close = r.close
  BY <1>1, <1>2, SetupAssumption
<1>4. r.swings \in Seq(Swing(h)) /\ KnownSwings(h) \in Seq(Swing(h))
  BY <1>1, KnownInOrder
<1>5. r.close > c.top /\ ~ r.close <= c.floor
  BY ConfirmedAbove
<1>6. Atr(h) \div 2 \in Nat
  BY AtrIsNatural
<1>7. p.entry = r.close /\ p.stop = c.floor - Atr(h) \div 2
  BY <1>3 DEF Plan
<1> HIDE DEF r, p
<1>8. CASE s = "SETUP_01"
  <2>1. /\ c.legs # <<>>
        /\ c.legs[1].price < c.legs[2].price /\ c.legs[1].price < c.legs[3].price
        /\ c.legs[3].price < c.legs[2].price
        /\ c.top = c.legs[2].price /\ c.floor = c.legs[3].price
    <3>1. CandidateOf(s, r) # NoCandidate
      BY DEF r
    <3> QED BY <1>4, <1>8, <3>1, CandidateLegs
  <2>2. c.floor \in Nat
    <3>1. c.floor = r.swings[Max(Pattern(s, r.swings)) + 2].price /\ Pattern(s, r.swings) # {}
      <4>1. CandidateOf(s, r) # NoCandidate
        BY DEF r
      <4> QED BY <1>4, <1>8, <4>1, CandidatePlace
    <3> DEFINE m == Max(Pattern(s, r.swings))
    <3>2. m \in Pattern(s, r.swings)
      BY <1>4, <3>1, NewestPattern
    <3>3. m + 2 \in 1..Len(r.swings)
      <4> HIDE DEF m
      <4>1. m \in Nat /\ m >= 1 /\ m + 2 <= Len(r.swings) /\ Len(r.swings) \in Nat
        BY <1>4, <3>2, PatternBounds
      <4> QED BY <4>1
    <3> DEFINE k == m + 2
    <3> HIDE DEF k
    <3>4. r.swings[k].price \in Nat
      BY <1>4, <3>3, PricesAreNumbers DEF k
    <3> QED BY <3>1, <3>4 DEF k
  <2> HIDE DEF c
  <2>3. p.stop < p.entry
    BY <1>3, <1>5, <1>6, <1>7, <2>2
  <2>4. IsSound(s, c, h)
    BY <1>3, <1>5, <1>8, <2>1 DEF IsSound, SoundLegs, SoundLevels
  <2>5. IsReasonable(s, c, p)
    BY <2>1, <2>3 DEF IsReasonable
  <2> QED BY <2>4, <2>5 DEF c, r, p
<1>9. CASE s # "SETUP_01"
  <2>0. s = "SETUP_02"
    BY <1>9 DEF Setups
  <2>1. CandidateOf("SETUP_02", r) # NoCandidate
    BY <2>0 DEF r
  <2>2. /\ c.legs # <<>> /\ KnownOn(c.legs, Len(h))
        /\ SoundLegs(s, c.legs) /\ SoundLevels(s, c)
        /\ c.legs[1].price \in Nat /\ c.legs[2].price \in Nat
        /\ c.legs[1].price < c.legs[3].price
    BY <1>1, <2>0, <2>1, ExpansionIsSound
  <2>3. IsSound(s, c, h)
    <3> HIDE DEF c
    <3> QED BY <1>3, <1>5, <2>0, <2>2 DEF IsSound
  <2>4. c.legs[1].price # c.legs[2].price
    <3>1. c = ContinuationCandidate(r)
      BY <1>9 DEF CandidateOf
    <3>2. IsReadable(r)
      BY DEF r
    <3> HIDE DEF c
    <3> QED BY <2>2, <3>1, <3>2 DEF IsReadable
  <2>5. c.floor \in Nat
    <3>1. c.floor = LastLow(r.swings).price
      BY <1>4, <1>9, <2>0, <2>1, CandidatePlace
    <3>2. \A k \in OfKind(r.swings, "LOW") : k \in 1..Len(r.swings)
      BY <1>4 DEF OfKind
    <3>3. OfKind(r.swings, "LOW") # {}
      <4> DEFINE m == Max(Pattern(s, r.swings))
      <4>1. Pattern(s, r.swings) # {}
        BY <1>4, <2>0, <2>1, CandidatePlace
      <4>2. m \in Pattern(s, r.swings)
        BY <1>4, <4>1, NewestPattern
      <4> HIDE DEF m
      <4>3. m \in 1..Len(r.swings) /\ r.swings[m].kind = "LOW"
        <5>1. m \in Nat /\ m >= 1 /\ m + 2 <= Len(r.swings) /\ Len(r.swings) \in Nat
          BY <1>4, <4>2, PatternBounds
        <5>2. r.swings[m + 1 - 1].kind = "LOW"
          BY <1>9, <4>2 DEF Pattern, Places
        <5> QED BY <5>1, <5>2
      <4> QED BY <1>4, <4>3 DEF OfKind
    <3>4. Newest(OfKind(r.swings, "LOW")) \in 1..Len(r.swings)
      <4>1. Len(r.swings) \in Nat /\ OfKind(r.swings, "LOW") \subseteq 1..Len(r.swings)
        BY <1>4, <3>2
      <4> QED BY <3>3, <3>2, <4>1, MaxIn DEF Newest
    <3> DEFINE k == Newest(OfKind(r.swings, "LOW"))
    <3> HIDE DEF k
    <3>5. r.swings[k].price \in Nat
      BY <1>4, <3>4, PricesAreNumbers DEF k
    <3> QED BY <3>1, <3>5 DEF LastLow, k
  <2> HIDE DEF c
  <2>6. p.stop < p.entry
    BY <1>3, <1>5, <1>6, <1>7, <2>5
  <2>7. c.legs[1].price < c.legs[2].price => IsReasonable(s, c, p)
    BY <2>0, <2>2, <2>6 DEF IsReasonable
  <2> QED BY <2>0, <2>2, <2>3, <2>4, <2>7 DEF c, r, p
<1> QED BY <1>8, <1>9

\* A lifecycle has its state since a session that was.
SinceInv ==
    \A i \in DOMAIN days : \A s \in Setups : days[i][s].since \in Nat /\ days[i][s].since <= i

SoundInv == SinceInv /\ EventsHavePlans

LEMMA SoundInit == PlanInit => SoundInv
<1> SUFFICES ASSUME PlanInit PROVE SoundInv
  OBVIOUS
<1>1. days = <<>> /\ plans = <<>> /\ DOMAIN <<>> = {}
  BY DEF PlanInit, Init
<1> QED BY <1>1 DEF SoundInv, SinceInv, EventsHavePlans

LEMMA SoundStep == PlanInv /\ EventInv /\ SoundInv /\ [PlanNext]_planVars => SoundInv'
<1> SUFFICES ASSUME PlanInv, EventInv, SoundInv, [PlanNext]_planVars PROVE SoundInv'
  OBVIOUS
<1>1. CASE UNCHANGED planVars
  BY <1>1 DEF planVars, SoundInv, SinceInv, EventsHavePlans
<1>2. CASE PlanNext
  <2>1. PICK b \in Shapes : /\ bars' = Append(bars, b)
                            /\ IsReadable(ReadingOf(bars'))
                            /\ days' = Evaluated(days, ReadingOf(bars'), Len(bars'))
    BY <1>2 DEF PlanNext, PlanSession, NextSession
  <2>2. PICK S : days \in Seq(S) /\ plans \in Seq(S)
    BY DEF PlanInv, SameLength
  <2> DEFINE n == Len(days)
             r == ReadingOf(bars')
             new == Day(Before(days), r, Len(bars'))
             plan == Decisions(Last(days'), bars', Len(bars'))
  <2>3. bars' \in Seq(Shapes) /\ Len(bars') = n + 1 /\ bars' # <<>> /\ n \in Nat /\ Len(plans) = n
    <3>1. bars \in Seq(Shapes) /\ Len(bars) = n /\ Len(plans) = n
      BY DEF EventInv, ImpulseInv, PlanInv, SameLength
    <3>2. n \in Nat
      BY <2>2
    <3>3. bars' \in Seq(Shapes) /\ Len(bars') = n + 1
      BY <2>1, <3>1
    <3>4. bars' # <<>>
      BY <3>2, <3>3
    <3> QED BY <3>1, <3>2, <3>3, <3>4
  <2>4. days' = Append(days, new) /\ plans' = Append(plans, plan)
    BY <1>2, <2>1 DEF Evaluated, PlanNext, PlanSession
  <2> DEFINE t(s) == Before(days)[s]
  <2>5. \A s \in Setups : new[s] = Advance(t(s), CandidateOf(s, r), r.close, Len(bars'))
    BY DayAdvances
  <2> HIDE DEF r, new, plan
  <2>6. /\ days'[n + 1] = new /\ Len(days') = n + 1
        /\ DOMAIN days = 1..n /\ DOMAIN days' = 1..(n + 1)
        /\ \A i \in 1..n : days'[i] = days[i]
    BY <2>2, <2>4, LongerSeq
  <2>7. /\ plans'[n + 1] = plan
        /\ DOMAIN plans = 1..n /\ DOMAIN plans' = 1..(n + 1)
        /\ \A i \in 1..n : plans'[i] = plans[i]
    BY <2>2, <2>3, <2>4, LongerSeq
  <2>8. ASSUME NEW s \in Setups PROVE t(s).since \in Nat /\ t(s).since < n + 1
    <3>1. CASE n = 0
      <4>1. days = <<>>
        BY <2>2, <3>1, EmptySeq
      <4> QED BY <3>1, <4>1 DEF Before, NoLifecycle, Lifecycle
    <3>2. CASE n # 0
      <4>1. n \in 1..n /\ Before(days) = days[n]
        BY <2>2, <2>3, <3>2 DEF Before
      <4>2. days[n][s].since \in Nat /\ days[n][s].since <= n
        BY <2>6, <4>1 DEF SoundInv, SinceInv
      <4> QED BY <2>3, <4>1, <4>2
    <3> QED BY <3>1, <3>2
  <2>9. ASSUME NEW s \in Setups
        PROVE  /\ new[s].since \in Nat /\ new[s].since <= n + 1
               /\ new[s].state = "CONFIRMED" /\ new[s].since = n + 1
                    => /\ CandidateOf(s, r) # NoCandidate
                       /\ new[s].candidate = CandidateOf(s, r)
                       /\ StateFor(CandidateOf(s, r), r.close) = "CONFIRMED"
    <3> HIDE DEF t
    <3>1. n + 1 \in Nat
      BY <2>3
    <3> QED BY <2>3, <2>5, <2>8, <3>1, AdvanceEvents
  <2> HIDE DEF t, n
  <2>10. SinceInv'
    <3> SUFFICES ASSUME NEW i \in 1..(n + 1), NEW s \in Setups
                 PROVE  days'[i][s].since \in Nat /\ days'[i][s].since <= i
      BY <2>6 DEF SinceInv
    <3>1. CASE i \in 1..n
      BY <2>6, <3>1 DEF SoundInv, SinceInv
    <3>2. CASE i = n + 1
      BY <2>6, <2>9, <3>2
    <3> QED BY <2>3, <3>1, <3>2
  <2>11. ASSUME NEW s \in Setups
         PROVE  LET legs == new[s].candidate.legs
                IN  /\ plan[s].gate # "INVALID_STRUCTURE"
                    /\ plan[s].gate = "UNREASONABLE_TARGET"
                         => s = "SETUP_02" /\ legs[2].price < legs[1].price
    <3>1. Last(days') = new
      BY <2>6 DEF Last
    <3>2. SubSeq(bars', 1, n + 1) = bars'
      BY <2>3
    <3>3. plan[s] = Decision(s, new[s], bars', n + 1)
      BY <2>3, <3>1 DEF plan, Decisions
    <3> DEFINE c == new[s].candidate
    <3>4. CASE new[s].state # "CONFIRMED" \/ new[s].since # n + 1
      BY <3>3, <3>4 DEF Decision, NoDecision
    <3>5. CASE new[s].state = "CONFIRMED" /\ new[s].since = n + 1
      <4>1. plan[s].gate = Gate(s, c, bars')
        <5>1. \A today, last : today.state = "CONFIRMED" /\ today.since = last
                 => Decision(s, today, bars', last).gate
                      = Gate(s, today.candidate, SubSeq(bars', 1, last))
          BY DecidedByGate
        <5> DEFINE today == new[s]
                   last == n + 1
        <5> HIDE DEF today, last
        <5>2. today.state = "CONFIRMED" /\ today.since = last
          BY <3>5 DEF today, last
        <5>3. plan[s] = Decision(s, today, bars', last) /\ SubSeq(bars', 1, last) = bars'
          BY <3>2, <3>3 DEF today, last
        <5>4. plan[s].gate = Gate(s, today.candidate, bars')
          BY <5>1, <5>2, <5>3, Zenon
        <5> QED BY <5>4 DEF today
      <4>2. /\ IsSound(s, c, bars')
            /\ \/ IsReasonable(s, c, Plan(s, c, bars'))
               \/ s = "SETUP_02" /\ c.legs[2].price < c.legs[1].price
        <5>1. /\ c = CandidateOf(s, ReadingOf(bars')) /\ CandidateOf(s, ReadingOf(bars')) # NoCandidate
              /\ StateFor(CandidateOf(s, ReadingOf(bars')), ReadingOf(bars').close) = "CONFIRMED"
          BY <2>9, <3>5 DEF r
        <5> HIDE DEF c
        <5> QED BY <2>1, <2>3, <5>1, EventIsSound
      <4> HIDE DEF c
      <4>3. Gate(s, c, bars') # "INVALID_STRUCTURE"
        BY <4>2, Zenon DEF Gate
      <4>4. Gate(s, c, bars') = "UNREASONABLE_TARGET" => ~ IsReasonable(s, c, Plan(s, c, bars'))
        BY Zenon DEF Gate
      <4> QED BY <4>1, <4>2, <4>3, <4>4 DEF c
    <3> QED BY <3>4, <3>5
  <2>12. EventsHavePlans'
    <3> SUFFICES ASSUME NEW i \in 1..(n + 1), NEW s \in Setups
                 PROVE  LET legs == days'[i][s].candidate.legs
                        IN  /\ plans'[i][s].gate # "INVALID_STRUCTURE"
                            /\ plans'[i][s].gate = "UNREASONABLE_TARGET"
                                 => s = "SETUP_02" /\ legs[2].price < legs[1].price
      BY <2>7 DEF EventsHavePlans
    <3>1. CASE i \in 1..n
      BY <2>6, <2>7, <3>1 DEF SoundInv, EventsHavePlans
    <3>2. CASE i = n + 1
      BY <2>6, <2>7, <2>11, <3>2
    <3> QED BY <2>3, <3>1, <3>2
  <2> QED BY <2>10, <2>12 DEF SoundInv
<1> QED BY <1>1, <1>2

\* What the lifecycle confirms, the evaluator of the day never takes for an
\* invalid structure, and never for unreasonable targets but in an expansion whose
\* first high is below its first low: the two files read one geometry
\* (setup01_decision.py, setup02_decision.py against setup01.py, setup02.py).
THEOREM EventsAreSound == PlanSpec => []EventsHavePlans
<1>1. PlanInit => PlanInv /\ EventInv /\ SoundInv
  BY PlanInitHolds, EventInit, SoundInit
<1>2. PlanInv /\ EventInv /\ SoundInv /\ [PlanNext]_planVars => (PlanInv /\ EventInv /\ SoundInv)'
  BY PlanStepHolds, EventStep, SoundStep
<1>3. SoundInv => EventsHavePlans
  BY DEF SoundInv
<1> QED BY <1>1, <1>2, <1>3, PTL DEF PlanSpec
=============================================================================
