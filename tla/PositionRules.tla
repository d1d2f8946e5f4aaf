---------------------------- MODULE PositionRules ----------------------------
(* The exit rules of an executed position (trading/position_management.py):   *)
(* what one day does to it, and the replay of a price history.                *)
(*                                                                            *)
(* Half an ATR is a value the bar brings along ("trail", NoTrail during the   *)
(* warm-up), since it is computed from the bars up to that one.  Targets,     *)
(* wave context, risk flags and the action shown to a reader decide no exit   *)
(* and are left out.                                                          *)
EXTENDS SwingEngine

NoPrice == 0
NoTrail == -1
NoExit == [day |-> 0, price |-> 0, reason |-> "NONE"]

\* MFE_TRIGGER_R and MFE_GIVEBACK_R, in units of the initial risk.
TriggerR == 2
GivebackR == 1

OneR(o) == o.entry - o.stop

\* The profit that is locked in once the trade has earned the trigger.
LockedIn(o) == o.entry + (TriggerR - GivebackR) * OneR(o)

Bar == [day : Nat, open : Nat, high : Nat, low : Nat, close : Nat, trail : Int]
Origin == [day : Nat, entry : Nat, stop : Nat, floor : Nat, low2 : Nat]
Exit == [day : Nat, price : Nat, reason : {"NONE", "GAP", "STOP", "STRUCTURAL", "PROFIT"}]
Position == [stop : Nat, floor : Nat, maxHigh : Nat, mfe : Nat,
             pending : {"NONE", "STRUCTURAL", "PROFIT"}, exit : Exit]

\* The frozen origin: an entry above a stop that is at or below the
\* structural invalidation.
Geometry(o) == o.stop < o.entry /\ o.stop <= o.floor /\ o.floor < o.entry /\ o.low2 <= o.floor

Opened(o) ==
    [stop |-> o.stop, floor |-> o.floor, maxHigh |-> o.entry, mfe |-> NoPrice,
     pending |-> "NONE", exit |-> NoExit]

MaxOf(a, b) == IF a >= b THEN a ELSE b

-----------------------------------------------------------------------------
(* One day.                                                                   *)

ExitAt(p, bar, price, reason) ==
    [p EXCEPT !.exit = [day |-> bar.day, price |-> price, reason |-> reason]]

\* Mutant: the swings of the full series without the as-of filter.
HigherLowsInHindsight(o, series, swings, i) ==
    {k \in 1..i : /\ series[k].day > o.day
                  /\ series[k].low > o.low2
                  /\ \E s \in ConfirmedBy(swings, Len(series)) : s.kind = "LOW" /\ s.index = k}

\* The lows above the anchor, after the entry, that are known by bar i.
HigherLows(o, series, swings, i) ==
    {k \in 1..i : /\ series[k].day > o.day
                  /\ series[k].low > o.low2
                  /\ \E s \in ConfirmedBy(swings, i) : s.kind = "LOW" /\ s.index = k}

LatestHigherLow(o, series, swings, i) ==
    LET lows == HigherLows(o, series, swings, i)
    IN  IF lows = {} THEN NoPrice
        ELSE series[CHOOSE k \in lows : \A r \in lows : r <= k].low

\* The best price so far has earned the trigger: the floor follows it up.
MfeFloor(o, p, high) ==
    IF high - o.entry >= TriggerR * OneR(o)
    THEN MaxOf(p.mfe, high - GivebackR * OneR(o))
    ELSE p.mfe

StructuralCandidate(p, bar, low) ==
    LET candidate == low - bar.trail
    IN  IF low # NoPrice /\ bar.trail # NoTrail /\ candidate > p.stop /\ candidate < bar.close
        THEN candidate ELSE NoPrice

PendingExit(bar, floor, mfe) ==
    IF bar.close < floor THEN "STRUCTURAL"
    ELSE IF mfe # NoPrice /\ bar.close < mfe THEN "PROFIT"
    ELSE "NONE"

\* A stop may be raised to a price that the close has not passed already.
Offered(bar, price) == IF price # NoPrice /\ price <= bar.close THEN price ELSE NoPrice

\* Mutant: a structural candidate goes before the profit.
NextStopByStructure(p, bar, candidate, mfe) ==
    MaxOf(p.stop, Offered(bar, IF candidate # NoPrice THEN candidate ELSE mfe))

NextStop(p, bar, candidate, mfe) ==
    MaxOf(p.stop, MaxOf(Offered(bar, candidate), Offered(bar, mfe)))

\* The day was survived: the close moves the floors and then, unless it asked
\* for an exit, the stop of the next session.
HeldThrough(o, p, bar, low) ==
    LET high == MaxOf(p.maxHigh, bar.high)
        mfe == MfeFloor(o, p, high)
        floor == MaxOf(p.floor, low)
        pending == PendingExit(bar, floor, mfe)
    IN  [p EXCEPT !.maxHigh = high, !.mfe = mfe, !.floor = floor, !.pending = pending,
                  !.stop = IF pending # "NONE" THEN @
                           ELSE NextStop(p, bar, StructuralCandidate(p, bar, low), mfe)]

\* replay_position, one turn of its loop: a pending exit is filled at the
\* open, then a gap through the stop, then the stop, then the close.
Day(o, p, bar, low) ==
    IF p.exit # NoExit THEN p
    ELSE IF p.pending # "NONE" THEN ExitAt(p, bar, bar.open, p.pending)
    ELSE IF bar.open <= p.stop THEN ExitAt(p, bar, bar.open, "GAP")
    ELSE IF bar.low <= p.stop THEN ExitAt(p, bar, p.stop, "STOP")
    ELSE HeldThrough(o, p, bar, low)

\* One turn of the loop; the days before the entry are passed over.
Turn(o, series, swings, p, i) ==
    IF series[i].day < o.day THEN p
    ELSE Day(o, p, series[i], LatestHigherLow(o, series, swings, i))

\* The position after each bar of a history: the swings are those of the whole
\* series, as in the code.
Played(o, series, swings) ==
    LET played[i \in 0..Len(series)] ==
            IF i = 0 THEN Opened(o) ELSE Turn(o, series, swings, played[i - 1], i)
    IN  played

Replay(o, series) == Played(o, series, FindSwings(series))[Len(series)]
=============================================================================
