--------------------------- MODULE SetupLifecycle ---------------------------
(* The lifecycles of SETUP_01 and SETUP_02 of one symbol (trading/setup01.py, *)
(* trading/setup02.py and their replays).  Nothing of a lifecycle is stored:  *)
(* every session evaluates the whole history again, with the swings of the    *)
(* whole series filtered by their confirmation (the cached replay).  "days"   *)
(* is what each day could know, evaluated from its own prefix alone (the      *)
(* uncached path the code keeps for an audit).                                *)
EXTENDS WaveScenario

CONSTANTS
    Shapes,         \* the bars a session may bring
    Pasts,          \* the histories a symbol may have when it is first followed
    FreeSessions    \* bound on the sessions after such a past

VARIABLES
    bars,           \* the price history
    days            \* per session the two lifecycles as that session saw them

vars == <<bars, days>>

Setups == {"SETUP_01", "SETUP_02"}
Live == {"WATCH", "ARMED"}
Terminal == {"CONFIRMED", "FAILED"}

ASSUME SetupAssumption ==
    /\ Shapes \subseteq [high : Nat, low : Nat, close : Nat]
    /\ \A b \in Shapes : b.low <= b.close /\ b.close <= b.high
    /\ Pasts \subseteq Seq(Shapes)
    /\ FreeSessions \in Nat
    /\ \A p \in Pasts : Len(p) + FreeSessions <= Len(WeekOf)

-----------------------------------------------------------------------------
(* One day of a lifecycle.                                                    *)

\* A lifecycle is its candidate, its state and since when it has it, and its
\* number; a symbol without one has the number 0.
Lifecycle(c, state, since, number) ==
    [candidate |-> c, state |-> state, since |-> since, number |-> number]

NoLifecycle == Lifecycle(NoCandidate, "NONE", 0, 0)

\* _state_for_candidate, with the recovery threshold half way up.
StateFor(c, close) ==
    IF close <= c.floor THEN "FAILED"
    ELSE IF close > c.top THEN "CONFIRMED"
    ELSE IF 2 * close >= c.floor + c.top THEN "ARMED"
    ELSE "WATCH"

Started(t, c, close, i) == Lifecycle(c, StateFor(c, close), i, t.number + 1)

Refreshed(t, c, close, i) ==
    LET state == StateFor(c, close)
    IN  Lifecycle(c, state, IF state = t.state THEN t.since ELSE i, t.number)

WithoutContext(t, i) ==
    IF t.state \in Live THEN Lifecycle(t.candidate, "FAILED", i, t.number) ELSE t

\* Mutant: an ended lifecycle follows the price on.
AdvanceEnded(t, c, close, i) ==
    IF c = NoCandidate THEN WithoutContext(t, i)
    ELSE IF c.key # t.candidate.key THEN Started(t, c, close, i)
    ELSE Refreshed(t, c, close, i)

\* evaluate_setup01_history and evaluate_setup02_history: a live lifecycle ends
\* when its context does, another impulse begins another lifecycle, and one that
\* has ended stays as it is.
Advance(t, c, close, i) ==
    IF c = NoCandidate THEN WithoutContext(t, i)
    ELSE IF c.key # t.candidate.key THEN Started(t, c, close, i)
    ELSE IF t.state \in Terminal THEN t
    ELSE Refreshed(t, c, close, i)

\* Both setups read the same scenario.
Day(before, r, i) ==
    [s \in Setups |->
        Advance(before[s],
                IF s = "SETUP_01" THEN Wave2Candidate(r) ELSE ContinuationCandidate(r),
                r.close, i)]

Before(seen) ==
    IF seen = <<>> THEN [s \in Setups |-> NoLifecycle] ELSE seen[Len(seen)]

\* The evaluation of a history that ends with the day.
ReadingOf(history) ==
    LET weeks == WeeklyBars(history)
    IN  Reading(Confirmed(FindSwings(history), Len(history)),
                Confirmed(FindSwings(weeks), Len(weeks)),
                history[Len(history)].close)

\* The evaluation of one more day.
Evaluated(seen, r, i) == Append(seen, Day(Before(seen), r, i))

\* What day i of a history reads from the swings of all of it.
ReadingIn(history, daily, weekly, i) ==
    Reading(Confirmed(daily, i), Confirmed(weekly, WeeksKnown(Len(history), i)),
            history[i].close)

\* The evaluation of every day of a history at once.
Replayed(history, daily, weekly) ==
    LET seen[i \in 0..Len(history)] ==
            IF i = 0 THEN <<>>
            ELSE Evaluated(seen[i - 1], ReadingIn(history, daily, weekly, i), i)
    IN  seen

Replay(history) ==
    Replayed(history, FindSwings(history), FindSwings(WeeklyBars(history)))[Len(history)]

-----------------------------------------------------------------------------
(* The sessions of one symbol.                                                *)

\* One of the pasts, or what may follow it.
IsHistory(h) ==
    \E p \in Pasts : \/ IsPrefix(h, p)
                     \/ IsPrefix(p, h) /\ Len(h) <= Len(p) + FreeSessions

Init == bars = <<>> /\ days = <<>>

\* A day that cannot be read ends the lifecycles of its symbol: the evaluation
\* raises, and so does that of every later session, which replays that day.
NextSession ==
    \E b \in Shapes :
        LET history == Append(bars, b)
            reading == ReadingOf(history)
        IN  /\ IsHistory(history)
            /\ IsReadable(reading)
            /\ bars' = history
            /\ days' = Evaluated(days, reading, Len(history))

Next == NextSession

Spec == Init /\ [][Next]_vars

-----------------------------------------------------------------------------
(* Properties.                                                                *)

\* The sessions on which a setup reports a new terminal event.
Events(s) == {i \in DOMAIN days : days[i][s].state \in Terminal /\ days[i][s].since = i}

\* An impulse is reported once, as confirmed or as failed, and the next event of
\* its setup is of a later impulse ("not backfilled or repeated").
EventsMoveForward ==
    \A s \in Setups : \A i, j \in Events(s) :
        i < j => Last(days[i][s].candidate.key) < Last(days[j][s].candidate.key)

\* While an impulse is followed, the close that would invalidate it never moves
\* down, though the latest confirmed low that defines it changes.
InvalidationOnlyRises ==
    \A s \in Setups : \A i \in 1..(Len(days) - 1) :
        LET t == days[i][s]
            u == days[i + 1][s]
        IN  t.state \in Live /\ u.state \in Live /\ u.candidate.key = t.candidate.key
              => u.candidate.floor >= t.candidate.floor
=============================================================================
