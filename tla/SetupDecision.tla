--------------------------- MODULE SetupDecision ---------------------------
(* The plan of a day (trading/setup01_decision.py, setup02_decision.py): what *)
(* a setup that is confirmed on day T may buy on T+1, at which price, against *)
(* which stop and for which targets.  The evaluator is given the event and    *)
(* the whole price history and may read it up to T only.  Targets and shares  *)
(* are in thousandths; an average range is rounded down to a tick.            *)
EXTENDS SetupLifecycle

CONSTANTS
    AtrPeriod,      \* sessions of the average true range (ATR14)
    Extensions,     \* the extension ratios, in thousandths
    MinUpside,      \* the least gross upside of the nearest target, in thousandths
    MinReward       \* the least reward of the nearest target per unit of risk

VARIABLE plans      \* per session what each setup's event of that session leads to

planVars == <<bars, days, plans>>

ASSUME PlanAssumption ==
    /\ AtrPeriod \in Nat \ {0}
    /\ Extensions \subseteq Nat
    /\ MinUpside \in Nat
    /\ MinReward \in Nat \ {0}

HighAsymmetry == 5      \* beyond it the targets themselves are questioned

-----------------------------------------------------------------------------
(* The average true range (trading/indicators.py).                            *)

Distance(a, b) == IF a < b THEN b - a ELSE a - b

TrueRange(prefix, i) ==
    Max({prefix[i].high - prefix[i].low,
         Distance(prefix[i].high, prefix[i - 1].close),
         Distance(prefix[i].low, prefix[i - 1].close)})

\* Wilder's average: the first ranges are summed up to their mean, and every
\* later one moves it by one part.
Averaged(average, range, i) ==
    IF i <= AtrPeriod THEN average + range
    ELSE IF i = AtrPeriod + 1 THEN (average + range) \div AtrPeriod
    ELSE (average * (AtrPeriod - 1) + range) \div AtrPeriod

Averages(prefix) ==
    LET average[i \in 0..Len(prefix)] ==
            IF i <= 1 THEN 0 ELSE Averaged(average[i - 1], TrueRange(prefix, i), i)
    IN  average

Atr(prefix) == Averages(prefix)[Len(prefix)]

HasAtr(prefix) == Len(prefix) > AtrPeriod /\ Atr(prefix) > 0

-----------------------------------------------------------------------------
(* Geometry and targets.                                                      *)

\* SETUP_01 wants the Wave 2 low between the origin and the peak; SETUP_02 four
\* swings in their order with the later high and low above the earlier.
SoundLegs(s, legs) ==
    IF s = "SETUP_01"
    THEN legs[1].price < legs[3].price /\ legs[3].price < legs[2].price
    ELSE /\ [k \in 1..4 |-> legs[k].kind] = <<"LOW", "HIGH", "LOW", "HIGH">>
         /\ \A k \in 1..3 : legs[k].index < legs[k + 1].index
         /\ \A k \in 1..2 : legs[k].price < legs[k + 2].price

\* The levels of the candidate are those of the swings it names.
SoundLevels(s, c) ==
    IF s = "SETUP_01" THEN c.top = c.legs[2].price /\ c.floor = c.legs[3].price
    ELSE c.top = c.legs[4].price

KnownOn(legs, day) ==
    \A k \in DOMAIN legs : legs[k].confirmed # NotYet /\ legs[k].confirmed <= day

IsSound(s, c, prefix) ==
    /\ c.legs # <<>>
    /\ s = "SETUP_02" => KnownOn(c.legs, Len(prefix))
    /\ SoundLegs(s, c.legs)
    /\ SoundLevels(s, c)
    /\ Last(prefix).close > c.top

\* SETUP_02 looks for a stale confirmation before anything else of the geometry.
IsStale(s, c, prefix) ==
    /\ s = "SETUP_02" /\ c.legs # <<>> /\ KnownOn(c.legs, Len(prefix))
    /\ c.floor >= c.legs[4].price

\* project_extension: the first impulse once more, from the low that followed it.
Projections(legs) ==
    IF legs[1].price < legs[2].price
    THEN {1000 * legs[3].price + (legs[2].price - legs[1].price) * ratio : ratio \in Extensions}
    ELSE {}

SwingHighs(history, i) ==
    {1000 * s.price : s \in {h \in ConfirmedBy(FindSwings(history), i) : h.kind = "HIGH"}}

\* The confirmed highs of the prefix and the projections, those above the entry.
Targets(prefix, legs) ==
    {t \in SwingHighs(prefix, Len(prefix)) \cup Projections(legs) :
        t > 1000 * Last(prefix).close}

-----------------------------------------------------------------------------
(* The decision.                                                              *)

\* Entry, entry zone, stop and targets of an event.
Plan(s, c, prefix) ==
    LET half == Atr(prefix) \div 2
    IN  [entry |-> Last(prefix).close, low |-> c.top, high |-> c.top + half,
         stop |-> c.floor - half, targets |-> Targets(prefix, c.legs)]

Reward(p) == Min(p.targets) - 1000 * p.entry
Risk(p) == 1000 * (p.entry - p.stop)

\* _targets_are_reasonable: the geometry once more, for a target beyond five
\* times the risk.
IsReasonable(s, c, p) ==
    /\ c.legs[1].price < c.legs[2].price /\ c.legs[1].price < c.legs[3].price
    /\ s = "SETUP_01" => c.legs[3].price < c.legs[2].price
    /\ p.stop < p.entry

\* The first reason that stops an event, else the permission to enter.
Gate(s, c, prefix) ==
    LET p == Plan(s, c, prefix)
    IN  IF IsStale(s, c, prefix) THEN "STALE_CONFIRMATION_GEOMETRY"
        ELSE IF ~ IsSound(s, c, prefix) THEN "INVALID_STRUCTURE"
        ELSE IF ~ HasAtr(prefix) THEN "ATR_UNAVAILABLE"
        ELSE IF p.entry > p.high THEN "ABOVE_ENTRY_ZONE"
        ELSE IF p.targets = {} THEN "NO_VALID_TARGET"
        ELSE IF Reward(p) > HighAsymmetry * Risk(p) /\ ~ IsReasonable(s, c, p)
          THEN "UNREASONABLE_TARGET"
        ELSE IF Reward(p) < MinUpside * p.entry THEN "TARGET_UPSIDE_BELOW_MINIMUM"
        ELSE IF Reward(p) < MinReward * Risk(p) THEN "RR_BELOW_MINIMUM"
        ELSE "ENTRY_ALLOWED"

NoDecision == [gate |-> "NO_EVENT"]

\* What an event of day t leads to.  Only a confirmation of that very day is
\* decided, from the prefix that ends with it.
Decision(s, day, history, t) ==
    LET prefix == SubSeq(history, 1, t)
        gate == Gate(s, day.candidate, prefix)
    IN  IF day.state # "CONFIRMED" \/ day.since # t THEN NoDecision
        ELSE IF gate # "ENTRY_ALLOWED" THEN [gate |-> gate]
        ELSE [gate |-> gate, plan |-> Plan(s, day.candidate, prefix)]

Decisions(day, history, t) == [s \in Setups |-> Decision(s, day[s], history, t)]

-----------------------------------------------------------------------------
(* The sessions of one symbol and their plans.                                *)

PlanInit == Init /\ plans = <<>>

PlanSession ==
    /\ NextSession
    /\ plans' = Append(plans, Decisions(Last(days'), bars', Len(bars')))

PlanNext == PlanSession

PlanSpec == PlanInit /\ [][PlanNext]_planVars

-----------------------------------------------------------------------------
(* Properties.                                                                *)

\* The replay of the whole history tells of every day what that day alone could
\* know, and its events, decided again with all of the history at hand, lead to
\* the plans of their days: no candidate, state, target or refusal of the past
\* moves when later bars confirm swings or complete weeks
\* (evaluate_setup01_history's cached projections, evaluate_setup01_decision).
PlansAreCausal ==
    LET replayed == Replay(bars)
    IN  /\ replayed = days
        /\ plans = [i \in DOMAIN bars |-> Decisions(replayed[i], bars, i)]

\* What the lifecycle confirms, the evaluator takes for a sound structure: the
\* swings of the day that named the impulse are still those of its confirmation.
\* Only an expansion of SETUP_02 whose first high is below its first low, which
\* neither the scenario nor the evaluator excludes, may have unreasonable targets.
EventsHavePlans ==
    \A i \in DOMAIN plans : \A s \in Setups :
        LET legs == days[i][s].candidate.legs
        IN  /\ plans[i][s].gate # "INVALID_STRUCTURE"
            /\ plans[i][s].gate = "UNREASONABLE_TARGET"
                  => s = "SETUP_02" /\ legs[2].price < legs[1].price
=============================================================================
