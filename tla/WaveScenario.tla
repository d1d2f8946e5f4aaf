---------------------------- MODULE WaveScenario ----------------------------
(* The wave scenario of a day (trading/wave.py): the one structural reading   *)
(* of the confirmed daily and weekly swings that the setups may use.  Swings  *)
(* are sequences of confirmed turning points, the oldest first; Fibonacci     *)
(* regions, evidence texts and the alternate scenario decide nothing and are  *)
(* left out.  A session is its number; what the exchange's calendar says of   *)
(* it is the week it falls into and whether it is its Friday.                 *)
EXTENDS SwingEngine

CONSTANTS
    WeekOf,         \* the week of a session; weeks without one have no number
    Fridays         \* the sessions of a Friday, when a week counts as complete

\* The weeks follow one another, and a Friday is the last session of its own.
ASSUME CalendarAssumption ==
    /\ WeekOf \in Seq(Nat)
    /\ WeekOf # <<>> => WeekOf[1] = 1
    /\ \A i \in 1..(Len(WeekOf) - 1) :
          /\ WeekOf[i + 1] \in {WeekOf[i], WeekOf[i] + 1}
          /\ i \in Fridays => WeekOf[i + 1] # WeekOf[i]

-----------------------------------------------------------------------------
(* The trend that confirmed swings show.                                      *)

OfKind(swings, kind) == {i \in DOMAIN swings : swings[i].kind = kind}

\* The newest two of some swings, given by their places.
Newest(places) == Max(places)
Previous(places) == Max(places \ {Newest(places)})

Rises(swings, places) == swings[Newest(places)].price > swings[Previous(places)].price
Falls(swings, places) == swings[Newest(places)].price < swings[Previous(places)].price

\* Mutant: a higher high is an uptrend, whatever the lows do.
TrendOfHighs(swings) ==
    LET highs == OfKind(swings, "HIGH")
        lows == OfKind(swings, "LOW")
    IN  IF Cardinality(highs) < 2 \/ Cardinality(lows) < 2 THEN "UNKNOWN"
        ELSE IF Rises(swings, highs) THEN "UPTREND"
        ELSE IF Falls(swings, highs) /\ Falls(swings, lows) THEN "DOWNTREND"
        ELSE "RANGE"

Trend(swings) ==
    LET highs == OfKind(swings, "HIGH")
        lows == OfKind(swings, "LOW")
    IN  IF Cardinality(highs) < 2 \/ Cardinality(lows) < 2 THEN "UNKNOWN"
        ELSE IF Rises(swings, highs) /\ Rises(swings, lows) THEN "UPTREND"
        ELSE IF Falls(swings, highs) /\ Falls(swings, lows) THEN "DOWNTREND"
        ELSE IF Falls(swings, highs) /\ Rises(swings, lows) THEN "RANGE"
        ELSE "TRANSITION"

-----------------------------------------------------------------------------
(* The completed weeks.                                                       *)

\* aggregate_completed_weekly_quotes: the weeks before the last session's, and
\* its own from Friday on.
CompletedWeeks(n) == IF n \in Fridays THEN WeekOf[n] ELSE WeekOf[n] - 1

SessionsOf(week, n) == {i \in 1..n : WeekOf[i] = week}

WeeklyBars(bars) ==
    LET n == Len(bars)
    IN  [w \in 1..CompletedWeeks(n) |->
            [high |-> Max({bars[i].high : i \in SessionsOf(w, n)}),
             low |-> Min({bars[i].low : i \in SessionsOf(w, n)})]]

\* Mutant: a week whose last session was before Friday is read as complete on it.
WeeksEndedBy(total, i) ==
    Cardinality({w \in 1..CompletedWeeks(total) : Max(SessionsOf(w, total)) <= i})

\* How many of the weeks of the whole series were completed on session i: those
\* whose last session is not after it, but not its own week before Friday.
WeeksKnown(total, i) ==
    LET ended == {w \in 1..CompletedWeeks(total) : Max(SessionsOf(w, total)) <= i}
    IN  Cardinality(ended \ (IF i \in Fridays THEN {} ELSE {WeekOf[i]}))

-----------------------------------------------------------------------------
(* The patterns, each the latest of its kind.                                 *)

Latest(swings, starts, size) ==
    IF starts = {} THEN <<>>
    ELSE SubSeq(swings, Max(starts), Max(starts) + size - 1)

Places(swings, kinds) ==
    {i \in 1..(Len(swings) - Len(kinds) + 1) :
        \A k \in 1..Len(kinds) : swings[i + k - 1].kind = kinds[k]}

UpwardThree(swings) == Latest(swings, Places(swings, <<"LOW", "HIGH", "LOW">>), 3)

Abc(swings) == Latest(swings, Places(swings, <<"LOW", "HIGH", "LOW", "HIGH", "LOW">>), 5)

UpwardExpansion(swings) ==
    Latest(swings,
           {i \in Places(swings, <<"LOW", "HIGH", "LOW", "HIGH">>) :
                /\ swings[i + 3].price > swings[i + 1].price
                /\ swings[i + 2].price > swings[i].price},
           4)

IsAbc(legs) ==
    /\ legs # <<>>
    /\ legs[2].price > legs[1].price        \* an impulse from the origin
    /\ legs[4].price < legs[2].price        \* the B high is lower
    /\ legs[5].price < legs[3].price        \* the C low is lower
    /\ legs[5].price > legs[1].price        \* and above the origin

\* A retracement that held the origin, as the close of the day still does.
IsWave2(legs, close) ==
    /\ legs[2].price > legs[1].price
    /\ legs[3].price > legs[1].price
    /\ close > legs[1].price

-----------------------------------------------------------------------------
(* The primary scenario, and what a setup may take from it.                   *)

\* The reading of a day: its swings, the two trends and the close.
Reading(daily, weekly, close) ==
    [swings |-> daily, daily |-> Trend(daily), weekly |-> Trend(weekly), close |-> close]

DownContext(r) ==
    \/ r.weekly = "DOWNTREND"
    \/ /\ r.daily = "DOWNTREND" /\ r.weekly # "UPTREND"
       /\ ~ IsAbc(Abc(r.swings)) /\ UpwardThree(r.swings) = <<>>

IsContinuation(r) ==
    UpwardExpansion(r.swings) # <<>> /\ r.weekly = "UPTREND" /\ r.daily = "UPTREND"

\* evaluate_wave_scenario's order; every remaining scenario is "UNKNOWN".
Primary(r) ==
    LET three == UpwardThree(r.swings)
        abc == Abc(r.swings)
    IN  IF DownContext(r) THEN "DOWNTREND_OR_INVALID_FOR_LONG"
        ELSE IF IsAbc(abc)
          THEN IF r.close > abc[1].price THEN "ABC_CORRECTION_CANDIDATE" ELSE "UNKNOWN"
        ELSE IF IsContinuation(r) THEN "WAVE_3_CONTINUATION_CANDIDATE"
        ELSE IF three # <<>> /\ IsWave2(three, r.close) THEN "WAVE_2_TO_3_CANDIDATE"
        ELSE "UNKNOWN"

LastLow(swings) == swings[Newest(OfKind(swings, "LOW"))]

Indices(legs) == [k \in DOMAIN legs |-> legs[k].index]

\* What identifies the impulse, its swings, the price below which a close ends
\* it, and the price above which a close confirms it.
NoCandidate == [key |-> <<>>, legs |-> <<>>, floor |-> 0, top |-> 0]

\* SETUP_01: Wave 1 from its origin to its peak, and the Wave 2 low.
Wave2Candidate(r) ==
    LET three == UpwardThree(r.swings)
    IN  IF /\ Primary(r) = "WAVE_2_TO_3_CANDIDATE" /\ r.weekly # "DOWNTREND"
           /\ three[3].price < three[2].price
        THEN [key |-> Indices(SubSeq(three, 1, 2)), legs |-> three,
              floor |-> three[3].price, top |-> three[2].price]
        ELSE NoCandidate

\* Mutant: confirmed above the first high of the expansion.
ContinuationOverFirstHigh(r) ==
    LET four == UpwardExpansion(r.swings)
    IN  IF Primary(r) = "WAVE_3_CONTINUATION_CANDIDATE" /\ r.close > LastLow(r.swings).price
        THEN [key |-> Indices(four), legs |-> four,
              floor |-> LastLow(r.swings).price, top |-> four[2].price]
        ELSE NoCandidate

\* SETUP_02: the four swings of the expansion, and the latest higher low.
ContinuationCandidate(r) ==
    LET four == UpwardExpansion(r.swings)
    IN  IF Primary(r) = "WAVE_3_CONTINUATION_CANDIDATE" /\ r.close > LastLow(r.swings).price
        THEN [key |-> Indices(four), legs |-> four,
              floor |-> LastLow(r.swings).price, top |-> four[4].price]
        ELSE NoCandidate

\* The Fibonacci levels of the first leg are for the record only, but there are
\* none for a leg that ends at the price it began at: fibonacci_levels raises.
IsReadable(r) ==
    LET legs == ContinuationCandidate(r).legs
    IN  legs # <<>> => legs[1].price # legs[2].price
=============================================================================
