--------------------------- MODULE PositionReplay ---------------------------
(* One position and the days that reach it.  Nothing of a position is stored  *)
(* but its origin: every session replays the whole price history from the     *)
(* entry on, with the swings of the whole series, and takes the last day of   *)
(* the result (replay_position).  "position" is the result of having played   *)
(* each day once, as it came, so that the replay of the longer history can be *)
(* compared with it.                                                          *)
EXTENDS PositionRules

CONSTANTS
    BarShapes,      \* the bars a session may bring, without their day
    Origins,        \* the origins a position may have
    Past,           \* the bars of the days before the entry
    MaxDays         \* bound on the length of the history

VARIABLES
    origin,         \* what the execution froze: day, entry, stop, floor, low2
    bars,           \* the price history
    position        \* the position as the days made it, one by one

replayVars == <<origin, bars, position>>

ASSUME ReplayAssumption ==
    /\ Origins \subseteq Origin
    /\ \A o \in Origins : Geometry(o) /\ o.day = Len(Past) + 1
    /\ BarShapes \subseteq [open : Nat, high : Nat, low : Nat, close : Nat, trail : Int]
    /\ Past \in Seq(Bar)
    /\ \A i \in DOMAIN Past : Past[i].day <= Len(Past)
    /\ \A b \in BarShapes : b.low <= b.open /\ b.open <= b.high
                            /\ b.low <= b.close /\ b.close <= b.high
    /\ MaxDays \in Nat

-----------------------------------------------------------------------------
(* The days of one position.                                                  *)

ReplayInit ==
    /\ origin \in Origins
    /\ bars = Past
    /\ position = Opened(origin)

Dated(shape, day) ==
    [day |-> day, open |-> shape.open, high |-> shape.high, low |-> shape.low,
     close |-> shape.close, trail |-> shape.trail]

\* The entry is the open of its day.
ReplaySession ==
    /\ Len(bars) < MaxDays
    /\ position.exit = NoExit
    /\ \E shape \in BarShapes :
          LET series == Append(bars, Dated(shape, Len(bars) + 1))
              n == Len(series)
          IN  /\ n = origin.day => shape.open = origin.entry
              /\ bars' = series
              /\ position' = Day(origin, position, series[n],
                                 LatestHigherLow(origin, series, FindSwings(series), n))
    /\ UNCHANGED origin

ReplayNext == ReplaySession

ReplaySpec == ReplayInit /\ [][ReplayNext]_replayVars

-----------------------------------------------------------------------------
(* Properties.                                                                *)

\* Days later, with more swings in the series, the replay still tells what was
\* seen on the day: no exit is found, moved or lost by hindsight
\* (replay_position works on the swings of the full series).
ReplayIsCausal == Replay(origin, bars) = position

\* A swing that was known is never redrawn, and none is ever discovered for a
\* bar that is already past (the engine's claim against zigzag indicators).
SwingsNotRepainted ==
    [][Confirmed(FindSwings(bars'), Len(bars)) = Confirmed(FindSwings(bars), Len(bars))]_bars

\* Once the trade has earned the trigger, no stop may take it out with less
\* than the locked-in part of it; only a gap or an exit at the open can.
ProfitIsLockedIn ==
    position.mfe # NoPrice /\ position.exit.reason = "STOP"
        => position.exit.price >= LockedIn(origin)
=============================================================================
