----------------------- MODULE OpportunityLedgerProofs -----------------------
(* The opportunity ledger implements the observation log, its summaries are   *)
(* completion markers, and its rows sum up just what was observed, for any    *)
(* events, sessions, prices and faults.                                       *)
EXTENDS OpportunityLedger, FiniteSetTheorems, WellFoundedInduction, TLAPS

Record(r) ==
    r = [pc |-> r.pc, asOf |-> r.asOf, report |-> r.report, anchored |-> r.anchored,
         inputs |-> r.inputs, births |-> r.births, follows |-> r.follows,
         loadError |-> r.loadError]

HasRow(rows, e, s) == \E f \in rows : f.event = e /\ f.session = s
IsBorn(rows, e) == \E b \in rows : b.event = e

\* A run has its fields and a session that is over, and confirms its events.
RunOK ==
    /\ Record(run)
    /\ today \in Sessions
    /\ run.pc # "idle" => /\ run.asOf \in Sessions /\ run.asOf <= today
                          /\ \A e \in run.report : e \in Events /\ Confirmed[e] = run.asOf

\* There is one writer: the rows it has read are the rows of the sheets.
OneWriter ==
    run.pc \in {"births", "continuation", "follows", "summary"} =>
        run.births = births /\ run.follows = follows

\* An event is born once.
BirthsOK ==
    /\ \A b \in births : b.event \in Events
    /\ \A b \in births, c \in births : b.event = c.event => b = c

\* Every row is of a birth and at its place, with all earlier ones before it.
RowsOK ==
    /\ \A f \in follows : /\ IsBorn(births, f.event)
                          /\ f.session \in Sessions
                          /\ Confirmed[f.event] < f.session
                          /\ f.session <= Confirmed[f.event] + Tracking
                          /\ f.index = f.session - Confirmed[f.event]
    /\ \A f \in follows, g \in follows :
          f.event = g.event /\ f.session = g.session => f = g
    /\ \A f \in follows, s \in Sessions :
          Confirmed[f.event] < s /\ s < f.session => HasRow(follows, f.event, s)

\* Every birth has its rows up to a session.
UpTo(s) ==
    \A b \in births, t \in Sessions :
        Confirmed[b.event] < t /\ t <= s /\ t <= Confirmed[b.event] + Tracking
            => HasRow(follows, b.event, t)

\* The newest session a summary may be of.
Horizon == IF run.pc = "idle" THEN today ELSE run.asOf

\* The run has done what precedes its next call, and no summary is ahead of it.
Progress ==
    /\ \A s \in Sessions : summary[s] # NoSummary => s <= Horizon
    /\ DOMAIN summary = Sessions
    /\ run.pc \in {"continuation", "follows", "summary"} =>
           \A e \in run.report : IsBorn(births, e)
    /\ run.pc = "summary" => UpTo(run.asOf)

Inv == RunOK /\ OneWriter /\ BirthsOK /\ RowsOK /\ Progress /\ SummaryMeansRecorded

birthOf == [e \in Events |-> {b \in births : b.event = e}]
logOf == [e \in Events |-> [k \in 1..Tracking |-> {f \in follows : f.event = e /\ f.index = k}]]

LEMMA Numbers ==
    /\ \A e \in Events : Confirmed[e] \in Nat
    /\ \A s \in Sessions : s \in Nat
    /\ Tracking \in Nat /\ LastSession \in Nat \ {0}
<1>1. /\ Confirmed \in [Events -> Sessions] /\ Tracking \in Nat \ {0}
      /\ LastSession \in Nat \ {0}
  BY OpportunityAssumption, Zenon
<1>2. \A s \in Sessions : s \in Nat
  BY <1>1 DEF Sessions
<1> QED BY <1>1, <1>2

-----------------------------------------------------------------------------
(* Records: a run with some fields replaced.                                  *)

LEMMA IdleRecord ==
    /\ Record(Idle) /\ Idle.pc = "idle"
  BY DEF Record, Idle

LEMMA LoadedRecord ==
    ASSUME NEW r, NEW p, NEW B, NEW F, Record(r)
    PROVE  [r EXCEPT !.pc = p, !.births = B, !.follows = F] =
               [pc |-> p, asOf |-> r.asOf, report |-> r.report, anchored |-> r.anchored,
                inputs |-> r.inputs, births |-> B, follows |-> F, loadError |-> r.loadError]
<1> DEFINE x == [r EXCEPT !.pc = p]
           y == [x EXCEPT !.births = B]
<1>1. x = [pc |-> p, asOf |-> r.asOf, report |-> r.report, anchored |-> r.anchored,
           inputs |-> r.inputs, births |-> r.births, follows |-> r.follows,
           loadError |-> r.loadError]
  BY DEF Record
<1>2. y = [pc |-> p, asOf |-> r.asOf, report |-> r.report, anchored |-> r.anchored,
           inputs |-> r.inputs, births |-> B, follows |-> r.follows, loadError |-> r.loadError]
  <2> HIDE DEF x
  <2> QED BY <1>1
<1>3. [r EXCEPT !.pc = p, !.births = B, !.follows = F] = [y EXCEPT !.follows = F]
  OBVIOUS
<1> HIDE DEF y
<1> QED BY <1>2, <1>3

LEMMA ErrorRecord ==
    ASSUME NEW r, NEW p, NEW l, Record(r)
    PROVE  [r EXCEPT !.pc = p, !.loadError = l] =
               [pc |-> p, asOf |-> r.asOf, report |-> r.report, anchored |-> r.anchored,
                inputs |-> r.inputs, births |-> r.births, follows |-> r.follows,
                loadError |-> l]
<1> DEFINE x == [r EXCEPT !.pc = p]
<1>1. x = [pc |-> p, asOf |-> r.asOf, report |-> r.report, anchored |-> r.anchored,
           inputs |-> r.inputs, births |-> r.births, follows |-> r.follows,
           loadError |-> r.loadError]
  BY DEF Record
<1>2. [r EXCEPT !.pc = p, !.loadError = l] = [x EXCEPT !.loadError = l]
  OBVIOUS
<1> HIDE DEF x
<1> QED BY <1>1, <1>2

LEMMA BornRecord ==
    ASSUME NEW r, NEW p, NEW B, Record(r)
    PROVE  [r EXCEPT !.pc = p, !.births = B] =
               [pc |-> p, asOf |-> r.asOf, report |-> r.report, anchored |-> r.anchored,
                inputs |-> r.inputs, births |-> B, follows |-> r.follows,
                loadError |-> r.loadError]
<1> DEFINE x == [r EXCEPT !.pc = p]
<1>1. x = [pc |-> p, asOf |-> r.asOf, report |-> r.report, anchored |-> r.anchored,
           inputs |-> r.inputs, births |-> r.births, follows |-> r.follows,
           loadError |-> r.loadError]
  BY DEF Record
<1>2. [r EXCEPT !.pc = p, !.births = B] = [x EXCEPT !.births = B]
  OBVIOUS
<1> HIDE DEF x
<1> QED BY <1>1, <1>2

LEMMA FollowedRecord ==
    ASSUME NEW r, NEW p, NEW F, Record(r)
    PROVE  [r EXCEPT !.pc = p, !.follows = F] =
               [pc |-> p, asOf |-> r.asOf, report |-> r.report, anchored |-> r.anchored,
                inputs |-> r.inputs, births |-> r.births, follows |-> F,
                loadError |-> r.loadError]
<1> DEFINE x == [r EXCEPT !.pc = p]
<1>1. x = [pc |-> p, asOf |-> r.asOf, report |-> r.report, anchored |-> r.anchored,
           inputs |-> r.inputs, births |-> r.births, follows |-> r.follows,
           loadError |-> r.loadError]
  BY DEF Record
<1>2. [r EXCEPT !.pc = p, !.follows = F] = [x EXCEPT !.follows = F]
  OBVIOUS
<1> HIDE DEF x
<1> QED BY <1>1, <1>2

-----------------------------------------------------------------------------
(* What the abstract log sees.                                                *)

LEMMA LogAt ==
    ASSUME NEW e \in Events
    PROVE  /\ birthOf[e] = {b \in births : b.event = e}
           /\ birthOf'[e] = {b \in births' : b.event = e}
           /\ \A k \in 1..Tracking :
                 /\ logOf[e][k] = {f \in follows : f.event = e /\ f.index = k}
                 /\ logOf'[e][k] = {f \in follows' : f.event = e /\ f.index = k}
  BY DEF birthOf, logOf

LEMMA QuietLog ==
    /\ births' = births => birthOf' = birthOf
    /\ follows' = follows => logOf' = logOf
  BY DEF birthOf, logOf

-----------------------------------------------------------------------------
(* The births.                                                                *)

LEMMA NewBirthsAre ==
    ASSUME Inv, run.pc = "births"
    PROVE  /\ \A b \in NewBirths : /\ b.event \in run.report /\ b.event \in Events
                                   /\ Confirmed[b.event] = run.asOf
                                   /\ ~ IsBorn(births, b.event)
           /\ \A b \in NewBirths, c \in NewBirths : b.event = c.event => b = c
           /\ \A e \in run.report : IsBorn(births \cup NewBirths, e)
<1>1. run.births = births /\ \A e \in run.report : e \in Events /\ Confirmed[e] = run.asOf
  BY DEF Inv, OneWriter, RunOK
<1> DEFINE Row(e) == [event |-> e, anchored |-> e \in run.anchored]
           Unborn == {x \in run.report : ~ \E b \in births : b.event = x}
<1>2. NewBirths = {Row(e) : e \in Unborn}
  BY <1>1 DEF NewBirths
<1>3. \A e : Row(e).event = e
  OBVIOUS
<1> HIDE DEF Row
<1>4. \A b \in NewBirths : b.event \in Unborn /\ b = Row(b.event)
  BY <1>2, <1>3
<1>5. \A e \in run.report : IsBorn(births \cup NewBirths, e)
  BY <1>2, <1>3 DEF IsBorn
<1> QED BY <1>1, <1>4, <1>5 DEF IsBorn

\* New births leave the rows and the summaries in order.
LEMMA BirthsGrow ==
    ASSUME Inv, run.pc = "births", births' = births \cup NewBirths,
           follows' = follows, summary' = summary
    PROVE  /\ BirthsOK' /\ RowsOK' /\ SummaryMeansRecorded'
           /\ Log!Birth
           /\ \A e \in run.report : IsBorn(births', e)
<1>1. BirthsOK'
  BY NewBirthsAre DEF Inv, BirthsOK, IsBorn
<1>2. RowsOK'
  BY DEF Inv, RowsOK, IsBorn, HasRow
<1>3. SummaryMeansRecorded'
  <2>1. ASSUME NEW s \in Sessions, summary[s] # NoSummary, NEW b \in NewBirths
        PROVE  s <= Confirmed[b.event]
    BY <2>1, NewBirthsAre DEF Inv, Progress, Horizon
  <2>2. \A b \in NewBirths : Confirmed[b.event] \in Nat
    BY NewBirthsAre, Numbers
  <2>3. ASSUME NEW s \in Sessions, summary[s] # NoSummary, NEW b \in births', NEW t \in Sessions,
               Confirmed[b.event] < t, t <= s, t <= Confirmed[b.event] + Tracking
        PROVE  b \in births
    BY <2>1, <2>2, <2>3, Numbers
  <2> QED BY <2>3 DEF Inv, SummaryMeansRecorded
<1>4. Log!Birth
  <2>1. ASSUME NEW e \in Events
        PROVE  birthOf'[e] = birthOf[e] \/ (birthOf[e] = {} /\ Log!IsOne(birthOf'[e]))
    <3>1. CASE IsBorn(births, e)
      <4>1. \A b \in NewBirths : b.event # e
        BY <3>1, NewBirthsAre
      <4>2. {b \in births' : b.event = e} = {b \in births : b.event = e}
        BY <4>1
      <4> QED BY <4>2, LogAt
    <3>2. CASE ~ IsBorn(births, e)
      <4>1. birthOf[e] = {} /\ birthOf'[e] = {b \in NewBirths : b.event = e}
        BY <3>2, LogAt DEF IsBorn
      <4>2. \A b \in birthOf'[e], c \in birthOf'[e] : b = c
        BY <4>1, NewBirthsAre
      <4> QED BY <4>1, <4>2 DEF Log!IsOne
    <3> QED BY <3>1, <3>2
  <2> QED BY <2>1, QuietLog DEF Log!Birth, birthOf, logOf
<1> QED BY <1>1, <1>2, <1>3, <1>4, NewBirthsAre

-----------------------------------------------------------------------------
(* The follow-ups.                                                            *)

\* The rows of one append: one for each due session of each birth.
LEMMA PendingAre ==
    ASSUME NEW usable
    PROVE  /\ \A f \in Pending(usable) : \E b \in run.births : \E s \in Due(b) :
                 /\ f.event = b.event /\ f.session = s /\ f.index = s - Confirmed[b.event]
                 /\ f.status = Status(b, s, usable) /\ f = Followup(b, s, usable)
           /\ \A b \in run.births : \A s \in Due(b) : HasRow(Pending(usable), b.event, s)
<1>1. ASSUME NEW b, NEW s
      PROVE  LET f == Followup(b, s, usable)
             IN  /\ f.event = b.event /\ f.session = s /\ f.index = s - Confirmed[b.event]
                 /\ f.status = Status(b, s, usable)
  BY DEF Followup
<1>2. \A f \in Pending(usable) : \E b \in run.births : \E s \in Due(b) : f = Followup(b, s, usable)
  BY DEF Pending
<1>3. \A b \in run.births : \A s \in Due(b) : Followup(b, s, usable) \in Pending(usable)
  BY DEF Pending
<1> QED BY <1>1, <1>2, <1>3 DEF HasRow

LEMMA DueAre ==
    ASSUME Inv, run.pc = "follows", NEW b \in births
    PROVE  /\ b.event \in Events /\ Confirmed[b.event] \in Nat
           /\ \A s \in Due(b) : /\ s \in Sessions /\ s \in Nat
                               /\ Confirmed[b.event] < s /\ s <= run.asOf
                               /\ s <= Confirmed[b.event] + Tracking
                               /\ ~ HasRow(follows, b.event, s)
  BY Numbers DEF Inv, BirthsOK, OneWriter, Due, ObservationSessions, HasRow

\* After the append no session of a birth is without its row.
LEMMA AppendedUpTo ==
    ASSUME Inv, run.pc = "follows", NEW usable, NEW rows, rows = Pending(usable),
           NEW b \in births, NEW t \in Sessions,
           Confirmed[b.event] < t, t <= run.asOf, t <= Confirmed[b.event] + Tracking
    PROVE  HasRow(follows \cup rows, b.event, t)
<1>1. run.births = births /\ run.follows = follows
  BY DEF Inv, OneWriter
<1>2. /\ b.event \in Events /\ Confirmed[b.event] \in Nat /\ t \in Nat /\ Tracking \in Nat
      /\ run.asOf \in Nat
  BY Numbers DEF Inv, BirthsOK, RunOK
<1>3. CASE SymbolOf[b.event] \in Active
  <2>1. t \in ObservationSessions(b.event)
    BY <1>2 DEF ObservationSessions
  <2>2. HasRow(follows, b.event, t) \/ t \in Due(b)
    BY <1>1, <1>3, <2>1 DEF Due, HasRow
  <2> QED BY <1>1, <2>2, PendingAre DEF HasRow
<1>4. CASE SymbolOf[b.event] \notin Active
  <2>1. SymbolOf[b.event] \in Symbols
    BY <1>2, OpportunityAssumption, Zenon
  <2>2. Confirmed[b.event] < run.asOf
    BY <1>2
  <2>3. Finished(b.event)
    BY <1>1, <1>4, <2>1, <2>2 DEF Active
  <2>4. PICK f \in follows : f.event = b.event /\ f.index = Tracking
    BY <1>1, <2>3 DEF Finished
  <2>5. f.session \in Nat /\ f.session = Confirmed[b.event] + Tracking
    <3>1. f.session \in Sessions /\ f.index = f.session - Confirmed[f.event]
      BY DEF Inv, RowsOK
    <3>2. Tracking = f.session - Confirmed[b.event]
      BY <2>4, <3>1
    <3>3. f.session \in Nat
      BY <3>1, Numbers
    <3> QED BY <1>2, <3>2, <3>3
  <2>6. HasRow(follows, b.event, t)
    <3>1. CASE t = f.session
      BY <2>4, <3>1 DEF HasRow
    <3>2. CASE t < f.session
      BY <2>4, <3>2 DEF Inv, RowsOK
    <3> QED BY <1>2, <2>5, <3>1, <3>2
  <2> QED BY <2>6 DEF HasRow
<1> QED BY <1>3, <1>4

LEMMA FollowsGrow ==
    ASSUME Inv, run.pc = "follows", NEW usable, NEW rows, rows = Pending(usable),
           follows' = follows \cup rows, births' = births, summary' = summary
    PROVE  RowsOK' /\ SummaryMeansRecorded' /\ Log!Observe
<1>0. run.births = births /\ run.follows = follows
  BY DEF Inv, OneWriter
<1>1. ASSUME NEW f \in rows
      PROVE  \E b \in births : \E s \in Due(b) :
                 /\ f.event = b.event /\ f.session = s /\ f.index = s - Confirmed[b.event]
                 /\ f.status = Status(b, s, usable) /\ f = Followup(b, s, usable)
  BY <1>0, PendingAre
<1>2. ASSUME NEW f \in rows
      PROVE  /\ IsBorn(births, f.event) /\ f.event \in Events
             /\ f.session \in Sessions /\ f.session \in Nat /\ Confirmed[f.event] \in Nat
             /\ Confirmed[f.event] < f.session /\ f.session <= run.asOf
             /\ f.session <= Confirmed[f.event] + Tracking
             /\ f.index = f.session - Confirmed[f.event]
             /\ ~ HasRow(follows, f.event, f.session)
             /\ f.session < run.asOf => f.status = "MISSED_OBSERVATION_SESSION"
  BY <1>1, DueAre DEF IsBorn, Status
<1>3. ASSUME NEW f \in rows, NEW g \in rows, f.event = g.event, f.session = g.session
      PROVE  f = g
  BY <1>1, <1>3 DEF Inv, BirthsOK
<1>4. RowsOK'
  <2>1. \A f \in follows' : /\ IsBorn(births', f.event)
                            /\ f.session \in Sessions
                            /\ Confirmed[f.event] < f.session
                            /\ f.session <= Confirmed[f.event] + Tracking
                            /\ f.index = f.session - Confirmed[f.event]
    BY <1>2 DEF Inv, RowsOK
  <2>2. \A f \in follows', g \in follows' :
           f.event = g.event /\ f.session = g.session => f = g
    BY <1>2, <1>3 DEF Inv, RowsOK, HasRow
  <2>3. ASSUME NEW f \in follows', NEW s \in Sessions, Confirmed[f.event] < s, s < f.session
        PROVE  HasRow(follows', f.event, s)
    <3>1. CASE f \in follows
      BY <2>3, <3>1 DEF Inv, RowsOK, HasRow
    <3>2. CASE f \in rows
      <4>1. PICK b \in births : b.event = f.event
        BY <3>2, <1>2 DEF IsBorn
      <4>2. s <= run.asOf /\ s <= Confirmed[b.event] + Tracking
        BY <3>2, <4>1, <1>2, <2>3, Numbers DEF Inv, RunOK
      <4> QED BY <4>1, <4>2, <2>3, AppendedUpTo
    <3> QED BY <3>1, <3>2
  <2> QED BY <2>1, <2>2, <2>3 DEF RowsOK
<1>5. SummaryMeansRecorded'
  BY DEF Inv, SummaryMeansRecorded
<1>6. Log!Observe
  <2> DEFINE At(e, k) == {f \in follows : f.event = e /\ f.index = k}
             Now(e, k) == {f \in follows' : f.event = e /\ f.index = k}
  <2>1. ASSUME NEW f \in follows' PROVE f.session = Confirmed[f.event] + f.index
    BY <1>4, Numbers DEF RowsOK, IsBorn, Inv, BirthsOK
  <2>2. ASSUME NEW e \in Events, NEW k \in 1..Tracking
        PROVE  Now(e, k) = At(e, k) \/ (At(e, k) = {} /\ Log!IsOne(Now(e, k)))
    <3>1. \A f \in Now(e, k), g \in Now(e, k) : f = g
      BY <1>4, <2>1 DEF RowsOK
    <3>2. At(e, k) \subseteq Now(e, k)
      OBVIOUS
    <3> HIDE DEF At, Now
    <3> QED BY <3>1, <3>2 DEF Log!IsOne
  <2>3. ASSUME NEW e \in Events, NEW k \in 1..Tracking, At(e, k) = {}, Now(e, k) # {}
        PROVE  /\ birthOf[e] # {}
               /\ k > 1 => Now(e, k - 1) # {}
    <3>1. PICK f \in Now(e, k) : TRUE
      BY <2>3
    <3>2. f \in follows' /\ f.event = e /\ f.index = k /\ f.session = Confirmed[e] + k
      BY <3>1, <2>1
    <3>3. birthOf[e] # {}
      BY <3>2, <1>4, LogAt DEF RowsOK, IsBorn
    <3>4. ASSUME k > 1 PROVE Now(e, k - 1) # {}
      <4>1. k - 1 \in Nat /\ Confirmed[e] \in Nat /\ f.session \in Sessions
        BY <3>2, <3>4, <1>4, Numbers DEF RowsOK
      <4> DEFINE s == Confirmed[e] + (k - 1)
      <4>0. s \in Nat /\ Confirmed[e] < s /\ s < f.session /\ f.session \in Nat
        BY <3>2, <4>1, <3>4, Numbers
      <4>2. s \in Sessions
        BY <4>0, <4>1, Numbers DEF Sessions
      <4> HIDE DEF s
      <4>3. HasRow(follows', e, s)
        BY <3>2, <4>0, <4>2, <1>4 DEF RowsOK
      <4> USE DEF s
      <4>4. PICK g \in follows' : g.event = e /\ g.session = Confirmed[e] + (k - 1)
        BY <4>3 DEF HasRow
      <4>5. g.index = k - 1
        BY <4>1, <4>4, <1>4 DEF RowsOK
      <4> QED BY <4>4, <4>5
    <3> QED BY <3>3, <3>4
  <2>4. ASSUME NEW e \in Events, NEW k \in 1..Tracking, At(e, k) = {}, k < Tracking,
               Now(e, k + 1) # {}, NEW f \in Now(e, k)
        PROVE  f.status = "MISSED_OBSERVATION_SESSION"
    <3>1. PICK g \in Now(e, k + 1) : TRUE
      BY <2>4
    <3>2. /\ f \in rows /\ f.session = Confirmed[e] + k
          /\ g.event = e /\ g.session = Confirmed[e] + (k + 1)
      BY <2>1, <2>4, <3>1
    <3>3. /\ Confirmed[e] \in Nat /\ k \in Nat /\ f.session \in Sessions
          /\ f.event = e /\ ~ HasRow(follows, e, f.session)
      BY <2>4, <3>2, <1>2, Numbers
    <3>4. g \notin follows
      <4>1. Confirmed[g.event] < f.session /\ f.session < g.session
        BY <3>2, <3>3, <2>4
      <4> QED BY <3>2, <3>3, <4>1 DEF Inv, RowsOK
    <3>5. f.session < run.asOf
      <4>1. g \in rows /\ g.session <= run.asOf /\ run.asOf \in Nat
        BY <3>1, <3>4, <1>2, Numbers DEF Inv, RunOK
      <4> QED BY <3>2, <3>3, <4>1
    <3> QED BY <3>2, <3>5, <1>2
  <2>5. \A e \in Events, k \in 1..Tracking : logOf[e][k] = At(e, k) /\ logOf'[e][k] = Now(e, k)
    BY LogAt
  <2>6. \A k \in 1..Tracking : /\ k > 1 => k - 1 \in 1..Tracking
                               /\ k < Tracking => k + 1 \in 1..Tracking
    BY Numbers
  <2> HIDE DEF At, Now
  <2>7. \A e \in Events, k \in 1..Tracking :
          /\ logOf'[e][k] = logOf[e][k]
                \/ (logOf[e][k] = {} /\ logOf'[e][k] # {} /\ Log!IsOne(logOf'[e][k]))
          /\ logOf[e][k] = {} /\ logOf'[e][k] # {} => birthOf[e] # {}
          /\ logOf[e][k] = {} /\ logOf'[e][k] # {} /\ k > 1 => logOf'[e][k - 1] # {}
          /\ logOf[e][k] = {} /\ logOf'[e][k] # {} /\ k < Tracking /\ logOf'[e][k + 1] # {}
                => \A x \in logOf'[e][k] : x.status = "MISSED_OBSERVATION_SESSION"
    <3> SUFFICES ASSUME NEW e \in Events, NEW k \in 1..Tracking
        PROVE  /\ Now(e, k) = At(e, k)
                     \/ (At(e, k) = {} /\ Now(e, k) # {} /\ Log!IsOne(Now(e, k)))
               /\ At(e, k) = {} /\ Now(e, k) # {} => birthOf[e] # {}
               /\ At(e, k) = {} /\ Now(e, k) # {} /\ k > 1 => Now(e, k - 1) # {}
               /\ At(e, k) = {} /\ Now(e, k) # {} /\ k < Tracking /\ Now(e, k + 1) # {}
                     => \A x \in Now(e, k) : x.status = "MISSED_OBSERVATION_SESSION"
      BY <2>5, <2>6
    <3> QED BY <2>2, <2>3, <2>4
  <2>8. birthOf' = birthOf
    BY QuietLog
  <2>9. Log!Observe <=>
          /\ \A e \in Events, k \in 1..Tracking :
               LET new == logOf[e][k] = {} /\ logOf'[e][k] # {}
               IN  /\ logOf'[e][k] = logOf[e][k] \/ (new /\ Log!IsOne(logOf'[e][k]))
                   /\ new => /\ birthOf[e] # {}
                             /\ k > 1 => logOf'[e][k - 1] # {}
                   /\ new /\ k < Tracking /\ logOf'[e][k + 1] # {}
                         => \A x \in logOf'[e][k] : x.status = "MISSED_OBSERVATION_SESSION"
          /\ birthOf' = birthOf
    BY Zenon DEF Log!Observe, Log!New, birthOf, logOf
  <2> QED BY <2>7, <2>8, <2>9
<1> QED BY <1>4, <1>5, <1>6

-----------------------------------------------------------------------------
(* The steps.                                                                 *)

\* A step that touches no sheet, and leaves the run where it may be.
LEMMA QuietStep ==
    ASSUME Inv, UNCHANGED sheets, today' \in Sessions, today <= today',
           \/ run' = Idle
           \/ run' = run
           \/ /\ Record(run') /\ run'.pc \notin {"idle", "summary"} /\ run.pc # "idle"
              /\ run'.asOf = run.asOf /\ run'.report = run.report
              /\ run'.births = births /\ run'.follows = follows
              /\ run'.pc \in {"continuation", "follows"} =>
                    run.pc \in {"continuation", "follows", "summary"}
           \/ /\ Record(run') /\ run'.pc = "load" /\ run.pc = "idle" /\ run'.asOf = today
              /\ \A e \in run'.report : e \in Events /\ Confirmed[e] = today
    PROVE  Inv' /\ birthOf' = birthOf /\ logOf' = logOf
<1>1. births' = births /\ follows' = follows /\ summary' = summary
  BY DEF sheets
<1>2. BirthsOK' /\ RowsOK' /\ SummaryMeansRecorded'
  BY <1>1 DEF Inv, BirthsOK, RowsOK, IsBorn, HasRow, SummaryMeansRecorded
<1>3. birthOf' = birthOf /\ logOf' = logOf
  BY <1>1, QuietLog
<1>4. today \in Nat /\ today' \in Nat /\ (run.pc # "idle" => run.asOf \in Nat /\ run.asOf <= today)
  BY Numbers DEF Inv, RunOK
<1>5. RunOK'
  BY <1>4, IdleRecord DEF Inv, RunOK
<1>6. OneWriter'
  BY <1>1, IdleRecord DEF Inv, OneWriter
<1>7. Horizon \in Nat /\ Horizon' \in Nat /\ Horizon <= Horizon'
  BY <1>4, IdleRecord DEF Horizon
<1>8. Progress'
  <2>1. \A s \in Sessions : summary'[s] # NoSummary => s <= Horizon'
    BY <1>1, <1>7, Numbers DEF Inv, Progress
  <2>2. run'.pc \in {"continuation", "follows", "summary"} =>
           \A e \in run'.report : IsBorn(births', e)
    BY <1>1, IdleRecord DEF Inv, Progress
  <2>3. run'.pc = "summary" => UpTo(run.asOf)' /\ run'.asOf = run.asOf
    BY <1>1, IdleRecord DEF Inv, Progress, UpTo, HasRow
  <2> QED BY <1>1, <2>1, <2>2, <2>3 DEF Inv, Progress, UpTo
<1> QED BY <1>2, <1>3, <1>5, <1>6, <1>8 DEF Inv

LEMMA AppendBirthsHolds ==
    ASSUME Inv, AppendBirths PROVE Inv' /\ (Log!Birth \/ (birthOf' = birthOf /\ logOf' = logOf))
<1>0. /\ run.pc = "births" /\ follows' = follows /\ summary' = summary /\ today' = today
      /\ run.births = births /\ run.follows = follows /\ Record(run)
      /\ run.asOf \in Nat /\ today \in Nat /\ run.asOf <= today
  BY Numbers DEF AppendBirths, Inv, OneWriter, RunOK
<1>1. CASE run' = Idle /\ births' = births
  BY <1>0, <1>1, QuietStep DEF sheets, Inv, RunOK
<1>2. CASE births' = births \cup NewBirths
  <2>1. CASE run' = Idle
    <3>1. RunOK' /\ OneWriter'
      BY <1>0, <2>1, IdleRecord DEF Inv, RunOK, OneWriter
    <3>2. Progress'
      BY <1>0, <2>1, IdleRecord, Numbers DEF Inv, Progress, Horizon
    <3> QED BY <1>0, <1>2, <3>1, <3>2, BirthsGrow DEF Inv
  <2>2. CASE run' = [run EXCEPT !.pc = "continuation", !.births = @ \cup NewBirths]
    <3>1. run' = [pc |-> "continuation", asOf |-> run.asOf, report |-> run.report,
                  anchored |-> run.anchored, inputs |-> run.inputs, births |-> births',
                  follows |-> run.follows, loadError |-> run.loadError]
      BY <1>0, <1>2, <2>2, BornRecord, Zenon
    <3>2. RunOK' /\ OneWriter'
      BY <1>0, <3>1 DEF Inv, RunOK, OneWriter, Record
    <3>3. \A e \in run.report : IsBorn(births', e)
      BY <1>0, <1>2, BirthsGrow
    <3>4. Progress'
      BY <1>0, <3>1, <3>3 DEF Inv, Progress, Horizon, IsBorn
    <3> QED BY <1>0, <1>2, <3>2, <3>4, BirthsGrow DEF Inv
  <2> QED BY <2>1, <2>2 DEF AppendBirths
<1> QED BY <1>1, <1>2 DEF AppendBirths

LEMMA AppendFollowupsHolds ==
    ASSUME Inv, AppendFollowups
    PROVE  Inv' /\ (Log!Observe \/ (birthOf' = birthOf /\ logOf' = logOf))
<1>0. /\ run.pc = "follows" /\ births' = births /\ summary' = summary /\ today' = today
      /\ run.births = births /\ run.follows = follows /\ Record(run)
      /\ run.asOf \in Nat /\ today \in Nat /\ run.asOf <= today
  BY Numbers DEF AppendFollowups, Inv, OneWriter, RunOK
<1>1. PICK usable : LET rows == Pending(usable)
          IN  \/ /\ follows' = follows \cup rows
                 /\ run' = [run EXCEPT !.pc = "summary", !.follows = @ \cup rows]
              \/ follows' \in {follows, follows \cup rows} /\ run' = Idle
  BY Zenon DEF AppendFollowups
<1> DEFINE rows == Pending(usable)
<1>2. CASE run' = Idle /\ follows' = follows
  BY <1>0, <1>2, QuietStep DEF sheets, Inv, RunOK
<1>3. CASE follows' = follows \cup rows
  <2> HIDE DEF rows
  <2>g. RowsOK' /\ SummaryMeansRecorded' /\ Log!Observe
    BY <1>0, <1>3, FollowsGrow DEF rows
  <2>b. BirthsOK'
    BY <1>0 DEF Inv, BirthsOK
  <2>1. CASE run' = Idle
    <3>1. RunOK' /\ OneWriter'
      BY <1>0, <2>1, IdleRecord DEF Inv, RunOK, OneWriter
    <3>2. Progress'
      BY <1>0, <2>1, IdleRecord, Numbers DEF Inv, Progress, Horizon
    <3> QED BY <2>g, <2>b, <3>1, <3>2 DEF Inv
  <2>2. CASE run' = [run EXCEPT !.pc = "summary", !.follows = @ \cup rows]
    <3>1. run' = [pc |-> "summary", asOf |-> run.asOf, report |-> run.report,
                  anchored |-> run.anchored, inputs |-> run.inputs, births |-> run.births,
                  follows |-> follows', loadError |-> run.loadError]
      BY <1>0, <1>3, <2>2, FollowedRecord, Zenon
    <3>2. RunOK' /\ OneWriter'
      BY <1>0, <3>1 DEF Inv, RunOK, OneWriter, Record
    <3>3. UpTo(run.asOf)'
      BY <1>0, <1>3, <3>1, AppendedUpTo DEF UpTo, rows
    <3>4. Progress'
      BY <1>0, <3>1, <3>3 DEF Inv, Progress, Horizon, IsBorn, UpTo
    <3> QED BY <2>g, <2>b, <3>2, <3>4 DEF Inv
  <2> QED BY <1>1, <2>1, <2>2 DEF rows
<1> QED BY <1>1, <1>2, <1>3

LEMMA UpsertSummaryHolds ==
    ASSUME Inv, UpsertSummary PROVE Inv' /\ birthOf' = birthOf /\ logOf' = logOf
<1>0. /\ run.pc = "summary" /\ births' = births /\ follows' = follows /\ today' = today
      /\ run' = Idle /\ run.asOf \in Sessions
      /\ run.asOf \in Nat /\ today \in Nat /\ run.asOf <= today
  BY Numbers DEF UpsertSummary, Inv, RunOK
<1>1. CASE summary' = summary
  BY <1>0, <1>1, QuietStep DEF sheets, Inv, RunOK
<1>2. CASE summary' = [summary EXCEPT ![run.asOf] = run.report]
  <2>1. /\ DOMAIN summary' = Sessions
        /\ summary'[run.asOf] = run.report
        /\ \A s \in Sessions : s # run.asOf => summary'[s] = summary[s]
    BY <1>0, <1>2 DEF Inv, Progress
  <2>2. RunOK' /\ OneWriter' /\ BirthsOK' /\ RowsOK'
    BY <1>0, IdleRecord DEF Inv, RunOK, OneWriter, BirthsOK, RowsOK, IsBorn, HasRow
  <2>3. Progress'
    BY <1>0, <2>1, IdleRecord, Numbers DEF Inv, Progress, Horizon
  <2>4. SummaryMeansRecorded'
    BY <1>0, <2>1 DEF Inv, SummaryMeansRecorded, Progress, IsBorn, UpTo, HasRow
  <2> QED BY <1>0, <2>2, <2>3, <2>4, QuietLog DEF Inv
<1> QED BY <1>1, <1>2 DEF UpsertSummary

LEMMA StepHolds ==
    Inv /\ [Next]_vars => Inv' /\ (Log!Next \/ (birthOf' = birthOf /\ logOf' = logOf))
<1> SUFFICES ASSUME Inv, [Next]_vars
             PROVE  Inv' /\ (Log!Next \/ (birthOf' = birthOf /\ logOf' = logOf))
  OBVIOUS
<1>0. today \in Sessions /\ today \in Nat /\ Record(run)
  BY Numbers DEF Inv, RunOK
<1>1. CASE Start
  <2>1. PICK R \in SUBSET {e \in Events : Confirmed[e] = today} :
             \E A \in SUBSET R, I \in SUBSET Symbols :
                run' = [pc |-> "load", asOf |-> today, report |-> R, anchored |-> A, inputs |-> I,
                        births |-> {}, follows |-> {}, loadError |-> FALSE]
    BY <1>1 DEF Start
  <2>2. /\ Record(run') /\ run'.pc = "load" /\ run'.asOf = today
        /\ \A e \in run'.report : e \in Events /\ Confirmed[e] = today
    BY <2>1 DEF Record
  <2>3. run.pc = "idle" /\ today' = today /\ UNCHANGED sheets
    BY <1>1 DEF Start
  <2> QED BY <1>0, <2>2, <2>3, QuietStep
<1>2. CASE Load
  <2>1. /\ run.pc = "load" /\ today' = today /\ UNCHANGED sheets
        /\ run' = [pc |-> "births", asOf |-> run.asOf, report |-> run.report,
                   anchored |-> run.anchored, inputs |-> run.inputs, births |-> births,
                   follows |-> follows, loadError |-> run.loadError]
    BY <1>0, <1>2, LoadedRecord, Zenon DEF Load
  <2>2. Record(run')
    BY <2>1 DEF Record
  <2> QED BY <1>0, <2>1, <2>2, QuietStep
<1>3. CASE AppendBirths
  BY <1>3, AppendBirthsHolds DEF Log!Next
<1>4. CASE LoadContinuation
  <2>1. PICK l : run' = [run EXCEPT !.pc = "follows", !.loadError = l]
    BY <1>4, Zenon DEF LoadContinuation
  <2>2. run' = [pc |-> "follows", asOf |-> run.asOf, report |-> run.report,
                anchored |-> run.anchored, inputs |-> run.inputs, births |-> run.births,
                follows |-> run.follows, loadError |-> l]
    BY <1>0, <2>1, ErrorRecord, Zenon
  <2>3. Record(run')
    BY <2>2 DEF Record
  <2>4. run.pc = "continuation" /\ today' = today /\ UNCHANGED sheets
    BY <1>4 DEF LoadContinuation
  <2>5. run.births = births /\ run.follows = follows
    BY <2>4 DEF Inv, OneWriter
  <2> QED BY <1>0, <2>2, <2>3, <2>4, <2>5, QuietStep
<1>5. CASE AppendFollowups
  BY <1>5, AppendFollowupsHolds DEF Log!Next
<1>6. CASE UpsertSummary
  BY <1>6, UpsertSummaryHolds
<1>7. CASE Die
  BY <1>0, <1>7, QuietStep DEF Die
<1>8. CASE NextSession
  <2>1. today' \in Sessions /\ today <= today'
    BY <1>0, <1>8, Numbers DEF NextSession, Sessions
  <2> QED BY <1>8, <2>1, QuietStep DEF NextSession, sheets
<1>9. CASE UNCHANGED vars
  BY <1>0, <1>9, QuietStep DEF vars, sheets
<1> QED BY <1>1, <1>2, <1>3, <1>4, <1>5, <1>6, <1>7, <1>8, <1>9 DEF Next

LEMMA InitHolds == Init => Inv /\ Log!Init
<1> SUFFICES ASSUME Init PROVE Inv /\ Log!Init
  OBVIOUS
<1>1. 1 \in Sessions
  BY Numbers DEF Sessions
<1>2. RunOK /\ OneWriter /\ BirthsOK /\ RowsOK
  BY <1>1, IdleRecord DEF Init, RunOK, OneWriter, BirthsOK, RowsOK
<1>3. Progress /\ SummaryMeansRecorded
  BY IdleRecord DEF Init, Progress, SummaryMeansRecorded
<1>4. Log!Init
  BY DEF Init, Log!Init
<1> QED BY <1>2, <1>3, <1>4 DEF Inv

\* The worksheets are one log per event, for any events, sessions, prices and
\* faults of one writer: born once, one row a session, in order, and nothing
\* observed by hindsight (persist_daily_opportunities).
THEOREM LedgerImplementsLog == Spec => ImplementsObservationLog
<1>1. Inv /\ [Next]_vars =>
          [Log!Next]_<<[e \in Events |-> {b \in births : b.event = e}],
                       [e \in Events |-> [k \in 1..Tracking |->
                             {f \in follows : f.event = e /\ f.index = k}]]>>
  BY StepHolds DEF birthOf, logOf
<1> QED BY InitHolds, StepHolds, <1>1, PTL DEF Spec, ImplementsObservationLog, Log!Spec

\* A session with a summary row is complete, for any events, sessions, prices
\* and faults of one writer (persist_daily_opportunities).
THEOREM SummariesAreMarkers == Spec => []SummaryMeansRecorded
<1>1. Inv => SummaryMeansRecorded
  BY DEF Inv
<1> QED BY InitHolds, StepHolds, <1>1, PTL DEF Spec

-----------------------------------------------------------------------------
(* What a row says of the sessions before it.  The invariant states that a    *)
(* row sums up the observed sessions, with the extreme and the first touch    *)
(* described rather than chosen: no row appended later is of a session before *)
(* it, so what it sums up never changes, and a new row takes over what the    *)
(* row before it summed up.                                                   *)

\* The market has one bar of every symbol for every session so far.
BarsOK ==
    /\ bars \in [Symbols -> Seq(Bars)]
    /\ \A s \in Symbols : Len(bars[s]) = today

PeakOf(e, seen, m) ==
    IF seen = {} THEN m = 0
    ELSE (\E s \in seen : m = High(e, s)) /\ (\A s \in seen : High(e, s) <= m)

EarliestOf(hits, m) ==
    IF hits = {} THEN m = 0 ELSE m \in hits /\ \A s \in hits : m <= s

SumsUp(f, seen) ==
    /\ f.complete <=> f.status = "DATA_OK" /\ seen = Confirmed[f.event] + 1 .. f.session
    /\ PeakOf(f.event, seen, f.best)
    /\ \A l \in DOMAIN Levels : EarliestOf(TouchedBy(f.event, l, seen), f.first[l])

SumInv ==
    /\ BarsOK
    /\ \A f \in follows : f.session <= today /\ SumsUp(f, Observed(f.event, f.session))

LEMMA BarTyped ==
    ASSUME BarsOK, today \in Nat, NEW e \in Events, NEW s \in Sessions, s <= today
    PROVE  /\ High(e, s) \in Nat \ {0} /\ bars[SymbolOf[e]][s].low \in Nat
           /\ High(e, s) = bars[SymbolOf[e]][s].high
<1>1. s \in Nat /\ 1 <= s
  BY Numbers DEF Sessions
<1>2. SymbolOf[e] \in Symbols
  BY OpportunityAssumption, Zenon
<1>3. bars[SymbolOf[e]] \in Seq(Bars) /\ Len(bars[SymbolOf[e]]) = today
  BY <1>2 DEF BarsOK
<1>4. bars[SymbolOf[e]][s] \in Bars
  <2> DEFINE q == bars[SymbolOf[e]]
  <2>1. q \in Seq(Bars) /\ s \in 1..Len(q)
    BY <1>1, <1>3
  <2> HIDE DEF q
  <2>2. q[s] \in Bars
    BY <2>1
  <2> QED BY <2>2 DEF q
<1>5. Bars \subseteq [high : Nat \ {0}, low : Nat]
  BY OpportunityAssumption, Zenon
<1> QED BY <1>4, <1>5 DEF High

\* A chosen maximum or minimum is the one that is described.
LEMMA PeakIsMax ==
    ASSUME NEW e, NEW seen, \A s \in seen : High(e, s) \in Nat, NEW m, PeakOf(e, seen, m)
    PROVE  m = IF seen = {} THEN 0 ELSE Max({High(e, s) : s \in seen})
<1>1. CASE seen = {}
  BY <1>1 DEF PeakOf
<1>2. CASE seen # {}
  <2> DEFINE H == {High(e, s) : s \in seen}
  <2>1. m \in H /\ (\A y \in H : y \in Nat /\ y <= m)
    BY <1>2 DEF PeakOf
  <2> HIDE DEF H
  <2>2. \A x \in H : (\A y \in H : x >= y) => x = m
    BY <2>1
  <2>3. m = Max(H)
    BY <2>1, <2>2 DEF Max
  <2> QED BY <1>2, <2>3 DEF H
<1> QED BY <1>1, <1>2

LEMMA EarliestIsMin ==
    ASSUME NEW hits, \A s \in hits : s \in Nat, NEW m, EarliestOf(hits, m)
    PROVE  m = IF hits = {} THEN 0 ELSE Min(hits)
<1>1. CASE hits = {}
  BY <1>1 DEF EarliestOf
<1>2. CASE hits # {}
  <2>1. m \in hits /\ \A y \in hits : m <= y
    BY <1>2 DEF EarliestOf
  <2>2. \A x \in hits : (\A y \in hits : x <= y) => x = m
    BY <2>1
  <2>3. m = Min(hits)
    BY <2>1, <2>2 DEF Min
  <2> QED BY <1>2, <2>3
<1> QED BY <1>1, <1>2

LEMMA SumInvIsTheProperty ==
    ASSUME Inv, SumInv
    PROVE  RowsSumUpWhatWasSeen
<1> SUFFICES ASSUME NEW f \in follows
    PROVE  LET seen == Observed(f.event, f.session)
           IN  /\ f.complete <=> f.status = "DATA_OK" /\ seen = Confirmed[f.event] + 1 .. f.session
               /\ f.best = IF seen = {} THEN 0 ELSE Max({High(f.event, s) : s \in seen})
               /\ \A l \in DOMAIN Levels :
                     LET hits == TouchedBy(f.event, l, seen)
                     IN  f.first[l] = IF hits = {} THEN 0 ELSE Min(hits)
  BY Zenon DEF RowsSumUpWhatWasSeen
<1> DEFINE seen == Observed(f.event, f.session)
<1>1. f.event \in Events /\ today \in Nat /\ BarsOK
  BY Numbers DEF Inv, RowsOK, BirthsOK, IsBorn, RunOK, SumInv
<1>2. \A s \in seen : s \in Sessions /\ s <= today /\ s \in Nat
  BY Numbers DEF Observed, Inv, RowsOK, SumInv
<1>3. SumsUp(f, seen)
  BY DEF SumInv
<1> HIDE DEF seen
<1>4. \A s \in seen : High(f.event, s) \in Nat
  BY <1>1, <1>2, BarTyped
<1>5. f.best = IF seen = {} THEN 0 ELSE Max({High(f.event, s) : s \in seen})
  BY <1>3, <1>4, PeakIsMax DEF SumsUp
<1>6. ASSUME NEW l \in DOMAIN Levels
      PROVE  f.first[l] = IF TouchedBy(f.event, l, seen) = {} THEN 0 ELSE Min(TouchedBy(f.event, l, seen))
  <2>1. \A s \in TouchedBy(f.event, l, seen) : s \in Nat
    BY <1>2 DEF TouchedBy
  <2> QED BY <1>3, <2>1, EarliestIsMin DEF SumsUp
<1>7. f.complete <=> f.status = "DATA_OK" /\ seen = Confirmed[f.event] + 1 .. f.session
  BY <1>3 DEF SumsUp
<1> QED BY <1>5, <1>6, <1>7 DEF seen

\* Neither the extreme nor the touches of past sessions change with new bars.
LEMMA SumStays ==
    ASSUME BarsOK, BarsOK', today \in Nat, today' \in Nat, today <= today',
           \A e \in Events, s \in Sessions : s <= today => bars'[SymbolOf[e]][s] = bars[SymbolOf[e]][s],
           NEW f, f.event \in Events, NEW seen, \A s \in seen : s \in Sessions /\ s <= today,
           SumsUp(f, seen)
    PROVE  SumsUp(f, seen)'
<1>1. \A s \in seen : High(f.event, s)' = High(f.event, s)
  BY DEF High
<1>2. PeakOf(f.event, seen, f.best)'
  BY <1>1 DEF SumsUp, PeakOf
<1>3. ASSUME NEW l PROVE TouchedBy(f.event, l, seen)' = TouchedBy(f.event, l, seen)
  BY DEF TouchedBy
<1>4. ASSUME NEW l \in DOMAIN Levels PROVE EarliestOf(TouchedBy(f.event, l, seen), f.first[l])'
  BY <1>3 DEF SumsUp, EarliestOf
<1> QED BY <1>2, <1>4 DEF SumsUp

-----------------------------------------------------------------------------
(* A new row.                                                                 *)

\* The rows before a session are as many as its past sessions just when every
\* past session has one.
LEMMA FullCount ==
    ASSUME Inv, NEW e, IsBorn(births, e), NEW s \in Sessions, Confirmed[e] < s
    PROVE  LET P == {f \in follows : f.event = e /\ f.session < s}
           IN  Cardinality(P) = s - Confirmed[e] - 1
               <=> \A t \in Confirmed[e] + 1 .. s - 1 : HasRow(follows, e, t)
<1> DEFINE P == {f \in follows : f.event = e /\ f.session < s}
           c == Confirmed[e]
           T == c + 1 .. s - 1
           At == [f \in P |-> f.session]
<1>1. e \in Events /\ c \in Nat /\ s \in Nat /\ c < s
  BY Numbers DEF Inv, BirthsOK, IsBorn
<1>2. \A f \in P : f.session \in Nat /\ c < f.session /\ f.session < s
  BY Numbers DEF Inv, RowsOK
<1>3. \A f \in P, g \in P : f.session = g.session => f = g
  BY DEF Inv, RowsOK
<1>4. \A t : t \in T => (HasRow(follows, e, t) <=> \E f \in P : f.session = t)
  BY <1>1 DEF HasRow
<1>5. At \in Injection(P, T)
  <2>1. At \in [P -> T]
    BY <1>1, <1>2
  <2> HIDE DEF P, T
  <2> QED BY <1>3, <2>1 DEF Injection, IsInjective
<1>6. IsFiniteSet(T) /\ Cardinality(T) = s - c - 1
  <2>1. c + 1 \in Int /\ s - 1 \in Int /\ s - c - 1 = (IF c + 1 > s - 1 THEN 0 ELSE (s - 1) - (c + 1) + 1)
    BY <1>1
  <2>2. IsFiniteSet(c + 1 .. s - 1)
        /\ Cardinality(c + 1 .. s - 1) = IF c + 1 > s - 1 THEN 0 ELSE (s - 1) - (c + 1) + 1
    <3> HIDE DEF c
    <3> QED BY <2>1, FS_Interval
  <2> HIDE DEF c
  <2> QED BY <2>1, <2>2
<1> HIDE DEF T, P
<1>7. At \in Surjection(P, T) <=> \A t \in T : \E f \in P : f.session = t
  <2>1. At \in [P -> T] /\ \A f \in P : At[f] = f.session
    BY <1>5 DEF Injection
  <2> HIDE DEF At
  <2>2. DOMAIN At = P
    BY <2>1
  <2>3. At \in Surjection(P, T) <=> \A t \in T : \E f \in P : At[f] = t
    BY <2>1, <2>2, Zenon DEF Surjection
  <2> QED BY <2>1, <2>3
<1>8. Cardinality(P) = Cardinality(T) <=> At \in Surjection(P, T)
  BY <1>5, <1>6, FS_Injection
<1> QED BY <1>4, <1>6, <1>7, <1>8 DEF T, P

\* A set of sessions up to one has a last.
LEMMA LastOf ==
    ASSUME NEW T, T \subseteq Nat, T # {}, NEW n \in Nat, \A t \in T : t <= n
    PROVE  \E m \in T : \A t \in T : t <= m
<1> DEFINE Above(m) == {t \in T : m < t}
           Aboves == {Above(m) : m \in T}
<1>1. Aboves \subseteq FiniteSubsetsOf(Nat) /\ Aboves # {}
  <2>1. ASSUME NEW m \in T PROVE IsFiniteSet(Above(m)) /\ Above(m) \subseteq Nat
    BY FS_BoundedSetOfNaturals
  <2> QED BY <2>1 DEF FiniteSubsetsOf
<1>2. PICK A \in Aboves : \A B \in Aboves : ~(<<B, A>> \in StrictSubsetOrdering(Nat))
  <2> HIDE DEF Aboves
  <2> QED BY <1>1, FS_StrictSubsetOrderingWellFounded, WFMin
<1>3. PICK m \in T : A = Above(m)
  OBVIOUS
<1>4. ASSUME NEW t \in T, m < t PROVE FALSE
  <2>0. m \in Nat /\ \A x \in T : x \in Nat
    OBVIOUS
  <2>1. Above(t) \subseteq Above(m) /\ t \in Above(m) /\ t \notin Above(t)
    <3>1. \A x \in T : t < x => m < x
      BY <1>4, <2>0
    <3>2. ~(t < t)
      BY <2>0
    <3> QED BY <1>4, <3>1, <3>2
  <2>2. <<Above(t), A>> \in StrictSubsetOrdering(Nat)
    BY <2>1, <1>3 DEF StrictSubsetOrdering
  <2> QED BY <2>2, <1>2
<1> QED BY <1>4

LEMMA LatestRow ==
    ASSUME Inv, NEW e, NEW s \in Sessions, Previous(e, s) # {}, run.follows = follows
    PROVE  LET g == Latest(Previous(e, s))
           IN  /\ g \in follows /\ g.event = e /\ g.session < s
               /\ \A f \in Previous(e, s) : f.session <= g.session
<1> DEFINE P == Previous(e, s)
           T == {f.session : f \in P}
<1>1. \A f \in P : f \in follows /\ f.event = e /\ f.session < s /\ f.session \in Nat
  BY Numbers DEF Previous, Inv, RowsOK
<1>2. s \in Nat /\ P # {}
  BY Numbers
<1> HIDE DEF P
<1>3. T \subseteq Nat /\ T # {} /\ \A t \in T : t <= s
  BY <1>1, <1>2
<1>4. PICK m \in T : \A t \in T : t <= m
  <2> HIDE DEF T
  <2> QED BY <1>2, <1>3, LastOf
<1>5. \E f \in P : \A g \in P : g.session <= f.session
  BY <1>4
<1>6. Latest(P) \in P /\ \A g \in P : g.session <= Latest(P).session
  BY <1>5 DEF Latest
<1> QED BY <1>1, <1>6 DEF P

\* What a new row starts from.
Prior(e, s) ==
    IF Previous(e, s) = {} THEN [best |-> 0, first |-> NoTouch] ELSE Latest(Previous(e, s))

LEMMA FollowupFields ==
    ASSUME NEW b, NEW s, NEW usable
    PROVE  LET f == Followup(b, s, usable)
               e == b.event
               ok == f.status = "DATA_OK"
               bar == bars[SymbolOf[e]][s]
           IN  /\ f.event = e /\ f.session = s
               /\ f.complete = Complete(e, s, Previous(e, s), ok)
               /\ f.best = IF ok /\ bar.high > Prior(e, s).best THEN bar.high ELSE Prior(e, s).best
               /\ f.first = IF ok THEN FirstTouch(Prior(e, s).first, Touches(bar), s) ELSE Prior(e, s).first
  BY DEF Followup, Prior

LEMMA PriorSums ==
    ASSUME Inv, SumInv, run.follows = follows, NEW e \in Events, NEW s \in Sessions,
           ~HasRow(follows, e, s)
    PROVE  /\ \A t \in Observed(e, s) : t \in Sessions /\ t \in Nat /\ t < s /\ t <= today
                                        /\ Confirmed[e] < t
           /\ PeakOf(e, Observed(e, s), Prior(e, s).best)
           /\ \A l \in DOMAIN Levels : EarliestOf(TouchedBy(e, l, Observed(e, s)), Prior(e, s).first[l])
<1>0. s \in Nat /\ \A f \in follows : f.session \in Nat /\ f.session \in Sessions
  BY Numbers DEF Inv, RowsOK
<1>1. \A f \in follows : f.event = e /\ f.session <= s => f \in Previous(e, s)
  BY <1>0 DEF HasRow, Previous
<1>2. \A f \in Previous(e, s) : f \in follows /\ f.event = e /\ f.session < s
  BY DEF Previous
<1>3. \A t \in Observed(e, s) : t \in Sessions /\ t \in Nat /\ t < s /\ t <= today /\ Confirmed[e] < t
  <2> SUFFICES ASSUME NEW t \in Observed(e, s)
               PROVE  t \in Sessions /\ t \in Nat /\ t < s /\ t <= today /\ Confirmed[e] < t
    OBVIOUS
  <2>1. PICK f \in follows : f.event = e /\ f.session <= s /\ t = f.session
    BY DEF Observed
  <2>2. f.session < s
    BY <1>1, <1>2, <2>1
  <2>3. f.session <= today /\ Confirmed[f.event] < f.session
    BY DEF SumInv, Inv, RowsOK
  <2> QED BY <1>0, <2>1, <2>2, <2>3
<1>4. CASE Previous(e, s) = {}
  <2>1. Observed(e, s) = {}
    BY <1>1, <1>4 DEF Observed
  <2>2. Prior(e, s) = [best |-> 0, first |-> [l \in DOMAIN Levels |-> 0]]
    BY <1>4 DEF Prior, NoTouch
  <2>3. \A l : TouchedBy(e, l, Observed(e, s)) = {}
    BY <2>1 DEF TouchedBy
  <2> QED BY <2>1, <2>2, <2>3 DEF PeakOf, EarliestOf
<1>5. CASE Previous(e, s) # {}
  <2> DEFINE g == Latest(Previous(e, s))
  <2>1. /\ g \in follows /\ g.event = e /\ g.session < s
        /\ \A f \in Previous(e, s) : f.session <= g.session
    BY <1>5, LatestRow
  <2>2. Prior(e, s) = g
    BY <1>5 DEF Prior
  <2> HIDE DEF g
  <2>3. Observed(e, g.session) = Observed(e, s)
    <3>1. ASSUME NEW f \in follows, f.event = e PROVE f.session <= s <=> f.session <= g.session
      BY <1>0, <1>1, <2>1, <3>1
    <3> QED BY <3>1 DEF Observed
  <2>4. SumsUp(g, Observed(e, s))
    BY <2>1, <2>3 DEF SumInv
  <2> QED BY <1>3, <2>1, <2>2, <2>4 DEF SumsUp
<1> QED BY <1>3, <1>4, <1>5

LEMMA NewRowComplete ==
    ASSUME Inv, run.follows = follows, NEW e \in Events, IsBorn(births, e), NEW s \in Sessions,
           Confirmed[e] < s, ~HasRow(follows, e, s)
    PROVE  Complete(e, s, Previous(e, s), TRUE) <=> Observed(e, s) \cup {s} = Confirmed[e] + 1 .. s
<1> DEFINE c == Confirmed[e]
           P == Previous(e, s)
           O == Observed(e, s)
<1>0. c \in Nat /\ s \in Nat /\ \A f \in follows : f.session \in Nat /\ f.session \in Sessions
  BY Numbers DEF Inv, RowsOK
<1>1. P = {f \in follows : f.event = e /\ f.session < s} /\ \A f \in P : c < f.session
  BY DEF Previous, Inv, RowsOK
<1>2. Complete(e, s, P, TRUE) <=> /\ Cardinality(P) = s - c - 1
                                  /\ \A f \in P : f.status = "DATA_OK"
  BY DEF Complete
<1>3. Cardinality(P) = s - c - 1 <=> \A t \in c + 1 .. s - 1 : HasRow(follows, e, t)
  BY <1>1, FullCount
<1>4. \A t : t \in O <=> \E f \in P : f.session = t /\ f.status = "DATA_OK"
  BY <1>0, <1>1 DEF Observed, HasRow
<1>5. \A f \in P, h \in P : f.session = h.session => f = h
  BY <1>1 DEF Inv, RowsOK
<1>6. \A t \in c + 1 .. s - 1 : HasRow(follows, e, t) <=> \E f \in P : f.session = t
  BY <1>0, <1>1 DEF HasRow
<1>7. \A f \in P : f.session \in c + 1 .. s - 1
  BY <1>0, <1>1
<1> HIDE DEF c, P, O
<1>8. O \cup {s} = c + 1 .. s <=> \A t \in c + 1 .. s - 1 : t \in O
  <2>1. \A t \in O : t \in c + 1 .. s - 1
    BY <1>4, <1>7
  <2>2. \A t : t \in c + 1 .. s <=> t \in c + 1 .. s - 1 \/ t = s
    <3>1. c < s
      BY DEF c
    <3> QED BY <1>0, <3>1
  <2>3. s \notin c + 1 .. s - 1
    BY <1>0
  <2> QED BY <2>1, <2>2, <2>3
<1>9. Complete(e, s, P, TRUE) <=> O \cup {s} = c + 1 .. s
  <2>1. ASSUME Complete(e, s, P, TRUE), NEW t \in c + 1 .. s - 1 PROVE t \in O
    BY <1>2, <1>3, <1>4, <1>6, <2>1
  <2>2. ASSUME \A t \in c + 1 .. s - 1 : t \in O PROVE Complete(e, s, P, TRUE)
    <3>1. \A f \in P : f.status = "DATA_OK"
      BY <1>4, <1>5, <1>7, <2>2
    <3> QED BY <1>2, <1>3, <1>4, <1>6, <2>2, <3>1
  <2> QED BY <1>8, <2>1, <2>2
<1> QED BY <1>9 DEF c, P, O

LEMMA NewRowSums ==
    ASSUME Inv, SumInv, run.pc = "follows", NEW usable, NEW b \in births, NEW s \in Due(b),
           NEW f, f = Followup(b, s, usable)
    PROVE  LET seen == Observed(b.event, s) \cup (IF f.status = "DATA_OK" THEN {s} ELSE {})
           IN  SumsUp(f, seen) /\ s <= today
<1> DEFINE e == b.event
           O == Observed(e, s)
           bar == bars[SymbolOf[e]][s]
           p == Prior(e, s)
           ok == f.status = "DATA_OK"
           seen == O \cup (IF ok THEN {s} ELSE {})
<1>1. /\ e \in Events /\ Confirmed[e] \in Nat /\ s \in Sessions /\ s \in Nat /\ Confirmed[e] < s
      /\ s <= run.asOf /\ ~HasRow(follows, e, s) /\ IsBorn(births, e)
  BY DueAre DEF IsBorn
<1>2. run.follows = follows /\ run.asOf \in Nat /\ run.asOf <= today /\ today \in Nat /\ BarsOK
  BY Numbers DEF Inv, OneWriter, RunOK, SumInv
<1>3. s <= today
  BY <1>1, <1>2
<1>4. /\ f.event = e /\ f.session = s
      /\ f.complete = Complete(e, s, Previous(e, s), ok)
      /\ f.best = IF ok /\ bar.high > p.best THEN bar.high ELSE p.best
      /\ f.first = IF ok THEN FirstTouch(p.first, Touches(bar), s) ELSE p.first
  BY FollowupFields
<1>5. /\ \A t \in O : t \in Sessions /\ t \in Nat /\ t < s /\ t <= today /\ Confirmed[e] < t
      /\ PeakOf(e, O, p.best)
      /\ \A l \in DOMAIN Levels : EarliestOf(TouchedBy(e, l, O), p.first[l])
  BY <1>1, <1>2, PriorSums
<1>6. High(e, s) \in Nat \ {0} /\ bar.high = High(e, s) /\ \A t \in O : High(e, t) \in Nat
  BY <1>1, <1>2, <1>3, <1>5, BarTyped
<1>7. f.complete <=> f.status = "DATA_OK" /\ seen = Confirmed[f.event] + 1 .. f.session
  <2>1. CASE ~ok
    BY <1>4, <2>1 DEF Complete
  <2>2. CASE ok
    <3>1. f.complete <=> Complete(e, s, Previous(e, s), TRUE)
      BY <1>4, <2>2 DEF Complete
    <3> QED BY <1>1, <1>2, <1>4, <2>2, <3>1, NewRowComplete
  <2> QED BY <2>1, <2>2
<1>8. PeakOf(f.event, seen, f.best)
  <2>1. CASE ~ok
    BY <1>4, <1>5, <2>1
  <2>2. CASE ok
    <3>1. seen = O \cup {s} /\ f.best = (IF High(e, s) > p.best THEN High(e, s) ELSE p.best)
      BY <1>4, <1>6, <2>2
    <3> HIDE DEF O, p, seen, e
    <3>2. CASE O = {}
      BY <1>4, <1>5, <1>6, <3>1, <3>2 DEF PeakOf
    <3>3. CASE O # {}
      BY <1>4, <1>5, <1>6, <3>1, <3>3 DEF PeakOf
    <3> QED BY <3>2, <3>3
  <2> QED BY <2>1, <2>2
<1>9. ASSUME NEW l \in DOMAIN Levels PROVE EarliestOf(TouchedBy(f.event, l, seen), f.first[l])
  <2> DEFINE hits == TouchedBy(e, l, O)
  <2>1. hits \subseteq O
    BY DEF TouchedBy
  <2>2. CASE ~ok
    BY <1>4, <1>5, <2>2
  <2>3. CASE ok
    <3>1. TouchedBy(e, l, seen) = hits \cup (IF Touches(bar)[l] THEN {s} ELSE {})
      BY <2>3 DEF TouchedBy
    <3>2. f.first[l] = IF Touches(bar)[l] /\ p.first[l] = 0 THEN s ELSE p.first[l]
      BY <1>4, <2>3 DEF FirstTouch
    <3>3. EarliestOf(hits, p.first[l])
      BY <1>5
    <3>4. s \in Nat /\ \A t \in hits : t \in Nat /\ t # 0 /\ t < s
      BY <1>1, <1>5, <2>1 DEF Sessions
    <3> HIDE DEF hits, p, bar, O, seen, e
    <3>5. CASE hits = {}
      BY <1>4, <3>1, <3>2, <3>3, <3>4, <3>5 DEF EarliestOf
    <3>6. CASE hits # {}
      BY <1>4, <3>1, <3>2, <3>3, <3>4, <3>6 DEF EarliestOf
    <3> QED BY <3>5, <3>6
  <2> QED BY <2>2, <2>3
<1> QED BY <1>3, <1>7, <1>8, <1>9 DEF SumsUp

-----------------------------------------------------------------------------
(* The steps.                                                                 *)

LEMMA SumOfBars ==
    ASSUME UNCHANGED bars
    PROVE  \A f, seen : SumsUp(f, seen) => SumsUp(f, seen)'
<1> SUFFICES ASSUME NEW f, NEW seen, SumsUp(f, seen) PROVE SumsUp(f, seen)'
  OBVIOUS
<1>1. \A e, s : High(e, s)' = High(e, s)
  BY DEF High
<1>2. \A e, l : TouchedBy(e, l, seen)' = TouchedBy(e, l, seen)
  BY DEF TouchedBy
<1>3. PeakOf(f.event, seen, f.best)'
  BY <1>1 DEF SumsUp, PeakOf
<1>4. ASSUME NEW l \in DOMAIN Levels PROVE EarliestOf(TouchedBy(f.event, l, seen), f.first[l])'
  BY <1>2 DEF SumsUp, EarliestOf
<1> QED BY <1>3, <1>4 DEF SumsUp

LEMMA SumInvQuiet ==
    ASSUME Inv, SumInv, UNCHANGED <<today, bars, follows>>
    PROVE  SumInv'
<1>1. BarsOK'
  BY DEF SumInv, BarsOK
<1>2. \A e, s : Observed(e, s)' = Observed(e, s)
  BY DEF Observed
<1>3. \A f, seen : SumsUp(f, seen) => SumsUp(f, seen)'
  BY SumOfBars
<1> QED BY <1>1, <1>2, <1>3 DEF SumInv

LEMMA SumInvNextSession ==
    ASSUME Inv, SumInv, NextSession
    PROVE  SumInv'
<1>0. today \in Nat /\ today' = today + 1 /\ follows' = follows
  BY Numbers DEF Inv, RunOK, NextSession, sheets
<1>1. PICK new \in [Symbols -> Bars] : bars' = [s \in Symbols |-> Append(bars[s], new[s])]
  BY DEF NextSession
<1>2. ASSUME NEW s \in Symbols
      PROVE  /\ bars'[s] \in Seq(Bars) /\ Len(bars'[s]) = today'
             /\ \A t \in Sessions : t <= today => bars'[s][t] = bars[s][t]
  <2>1. bars[s] \in Seq(Bars) /\ Len(bars[s]) = today /\ bars'[s] = Append(bars[s], new[s]) /\ new[s] \in Bars
    BY <1>1 DEF SumInv, BarsOK
  <2>2. \A t \in Sessions : t \in Nat /\ 1 <= t
    BY Numbers DEF Sessions
  <2> DEFINE q == bars[s]
             n == new[s]
  <2>3. q \in Seq(Bars) /\ n \in Bars /\ Len(q) = today
    BY <2>1
  <2> HIDE DEF q, n
  <2>4. Append(q, n) \in Seq(Bars) /\ Len(Append(q, n)) = today + 1
        /\ \A t \in 1..today : Append(q, n)[t] = q[t]
    BY <1>0, <2>3
  <2> QED BY <1>0, <2>1, <2>2, <2>4 DEF q, n
<1>3. BarsOK'
  BY <1>1, <1>2 DEF BarsOK
<1>4. \A e, s : Observed(e, s)' = Observed(e, s)
  BY <1>0 DEF Observed
<1>5. \A e \in Events, s \in Sessions : s <= today => bars'[SymbolOf[e]][s] = bars[SymbolOf[e]][s]
  <2>1. \A e \in Events : SymbolOf[e] \in Symbols
    BY OpportunityAssumption, Zenon
  <2> QED BY <1>2, <2>1
<1>6. ASSUME NEW f \in follows
      PROVE  f.session <= today' /\ SumsUp(f, Observed(f.event, f.session))'
  <2>0. PICK seen : seen = Observed(f.event, f.session)
    OBVIOUS
  <2>1. f.event \in Events /\ f.session \in Nat /\ f.session <= today /\ SumsUp(f, seen)
    BY <2>0, Numbers DEF Inv, RowsOK, BirthsOK, IsBorn, SumInv
  <2>2. \A s \in seen : s \in Sessions /\ s <= today
    BY <2>0 DEF Observed, Inv, RowsOK, SumInv
  <2>3. Observed(f.event, f.session)' = seen
    BY <1>4, <2>0
  <2>4. BarsOK /\ today' \in Nat /\ today <= today'
    BY <1>0 DEF SumInv
  <2>5. SumsUp(f, seen)'
    BY <1>0, <1>3, <1>5, <2>1, <2>2, <2>4, SumStays
  <2> QED BY <1>0, <2>1, <2>3, <2>5
<1> QED BY <1>0, <1>3, <1>6 DEF SumInv

LEMMA SumInvAppend ==
    ASSUME Inv, SumInv, run.pc = "follows", NEW usable, NEW rows, rows = Pending(usable),
           follows' = follows \cup rows, today' = today, bars' = bars
    PROVE  SumInv'
<1>0. run.births = births /\ run.follows = follows /\ run.asOf \in Nat /\ run.asOf <= today /\ today \in Nat
  BY Numbers DEF Inv, OneWriter, RunOK
<1>1. \A x, seen : SumsUp(x, seen) => SumsUp(x, seen)'
  BY SumOfBars
<1>2. BarsOK'
  BY DEF SumInv, BarsOK
<1>3. ASSUME NEW f \in rows
      PROVE  \E b \in births : \E s \in Due(b) : f.event = b.event /\ f.session = s /\ f = Followup(b, s, usable)
                                                /\ f.status = Status(b, s, usable)
  BY <1>0, PendingAre
\* A new row is behind all rows its event has.
<1>4. ASSUME NEW f \in rows, NEW g \in follows, g.event = f.event
      PROVE  g.session < f.session
  <2>1. /\ f.session \in Sessions /\ f.session \in Nat /\ Confirmed[f.event] < f.session
        /\ ~HasRow(follows, f.event, f.session)
    BY <1>3, DueAre
  <2>2. g.session \in Nat /\ g.session # f.session
    BY <1>4, <2>1, Numbers DEF HasRow, Inv, RowsOK
  <2>3. ~(f.session < g.session)
    BY <1>4, <2>1 DEF Inv, RowsOK
  <2> QED BY <2>1, <2>2, <2>3
\* Only the newest of the new rows of an event is an observation.
<1>5. ASSUME NEW f \in rows, NEW g \in rows, g.event = f.event, g.session <= f.session, g.status = "DATA_OK"
      PROVE  g.session = f.session /\ f.status = "DATA_OK"
  <2>1. /\ f.session \in Nat /\ f.session <= run.asOf
        /\ g.session \in Nat /\ g.session <= run.asOf
        /\ g.session < run.asOf => g.status = "MISSED_OBSERVATION_SESSION"
    BY <1>3, DueAre DEF Status
  <2>2. g.session = f.session
    BY <1>0, <1>5, <2>1
  <2>3. f = g
    BY <1>3, <1>5, <2>2 DEF Inv, BirthsOK
  <2> QED BY <1>5, <2>2, <2>3
<1>6. ASSUME NEW f \in follows
      PROVE  Observed(f.event, f.session)' = Observed(f.event, f.session)
  <2>1. \A g \in rows : g.event = f.event => ~(g.session <= f.session)
    <3> SUFFICES ASSUME NEW g \in rows, g.event = f.event PROVE ~(g.session <= f.session)
      OBVIOUS
    <3>1. f.session < g.session
      BY <1>4
    <3>2. f.session \in Nat /\ g.session \in Nat
      BY <1>3, DueAre, Numbers DEF Inv, RowsOK
    <3> QED BY <3>1, <3>2
  <2> QED BY <2>1 DEF Observed
<1>7. ASSUME NEW f \in rows
      PROVE  Observed(f.event, f.session)' =
               Observed(f.event, f.session) \cup (IF f.status = "DATA_OK" THEN {f.session} ELSE {})
  <2>1. f.session <= f.session
    BY <1>3, DueAre
  <2>2. \A g \in rows : g.event = f.event /\ g.session <= f.session /\ g.status = "DATA_OK"
                        => g.session = f.session /\ f.status = "DATA_OK"
    BY <1>5
  <2> QED BY <2>1, <2>2 DEF Observed
<1>8. ASSUME NEW f \in follows' PROVE f.session <= today /\ SumsUp(f, Observed(f.event, f.session)')
  <2>1. CASE f \in follows
    BY <1>6, <2>1 DEF SumInv
  <2>2. CASE f \in rows
    <3>1. PICK b \in births : \E s \in Due(b) : f.event = b.event /\ f.session = s /\ f = Followup(b, s, usable)
      BY <1>3, <2>2
    <3>2. f.session \in Due(b) /\ f.event = b.event /\ f = Followup(b, f.session, usable)
      BY <3>1
    <3>3. /\ SumsUp(f, Observed(b.event, f.session) \cup (IF f.status = "DATA_OK" THEN {f.session} ELSE {}))
          /\ f.session <= today
      BY <3>2, NewRowSums
    <3> QED BY <1>7, <2>2, <3>2, <3>3
  <2> QED BY <2>1, <2>2
<1>9. \A f \in follows' : SumsUp(f, Observed(f.event, f.session))'
  BY <1>1, <1>8
<1> QED BY <1>2, <1>8, <1>9 DEF SumInv

LEMMA SumHolds == Inv /\ SumInv /\ [Next]_vars => SumInv'
<1> SUFFICES ASSUME Inv, SumInv, [Next]_vars PROVE SumInv'
  OBVIOUS
<1>1. CASE NextSession
  BY <1>1, SumInvNextSession
<1>2. CASE AppendFollowups
  <2>1. PICK usable : \/ follows' = follows \cup Pending(usable)
                      \/ follows' \in {follows, follows \cup Pending(usable)}
    BY <1>2, Zenon DEF AppendFollowups
  <2>2. run.pc = "follows" /\ today' = today /\ bars' = bars
    BY <1>2 DEF AppendFollowups
  <2>3. follows' = follows \/ follows' = follows \cup Pending(usable)
    BY <2>1
  <2> QED BY <2>2, <2>3, SumInvQuiet, SumInvAppend
<1>3. CASE UNCHANGED <<today, bars, follows>>
  BY <1>3, SumInvQuiet
<1> QED BY <1>1, <1>2, <1>3
        DEF Next, Start, Load, AppendBirths, LoadContinuation, UpsertSummary, Die, vars, sheets

LEMMA SumInit == Init => SumInv
<1> SUFFICES ASSUME Init PROVE SumInv
  OBVIOUS
<1>1. bars \in [Symbols -> {<<b>> : b \in Bars}] /\ today = 1 /\ follows = {}
  BY DEF Init
<1>2. \A b \in Bars : <<b>> \in Seq(Bars) /\ Len(<<b>>) = 1
  OBVIOUS
<1>3. BarsOK
  BY <1>1, <1>2 DEF BarsOK
<1> QED BY <1>1, <1>3 DEF SumInv

\* Every row sums up exactly the sessions that were observed, for any bars,
\* missed runs, faults and restarts (followup).
THEOREM RowsAreTrueSums == Spec => []RowsSumUpWhatWasSeen
<1>1. Init => Inv /\ SumInv
  BY InitHolds, SumInit
<1>2. Inv /\ SumInv /\ [Next]_vars => Inv' /\ SumInv'
  BY StepHolds, SumHolds
<1>3. Inv /\ SumInv => RowsSumUpWhatWasSeen
  BY SumInvIsTheProperty
<1> QED BY <1>1, <1>2, <1>3, PTL DEF Spec

=============================================================================
