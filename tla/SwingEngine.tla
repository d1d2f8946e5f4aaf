---------------------------- MODULE SwingEngine ----------------------------
(* The causal swing engine (trading/swing.py): which bars of a series are     *)
(* turning points, and from which bar on a reader may know it.  A bar is a    *)
(* record with a day, an open, a high, a low and a close; prices are integers *)
(* of the tick size.  The excursion filter is left out: its two thresholds    *)
(* are zero for every caller, and then it returns its input.                  *)
EXTENDS Integers, Sequences, SequencesExt

CONSTANT Lookback       \* bars on each side that a turning point dominates

ASSUME LookbackAssumption == Lookback \in Nat \ {0}

NotYet == 0             \* the confirmation index of a provisional swing

\* The two rules of a turning point: strict on the left, tolerant on the right.
IsSwingHigh(bars, i) ==
    \A d \in 1..Lookback : /\ bars[i].high > bars[i - d].high
                           /\ bars[i].high >= bars[i + d].high

IsSwingLow(bars, i) ==
    \A d \in 1..Lookback : /\ bars[i].low < bars[i - d].low
                           /\ bars[i].low <= bars[i + d].low

Pivot(kind, price, i) ==
    [kind |-> kind, price |-> price, index |-> i, confirmed |-> NotYet]

\* A bar with a full window on both sides is a high, else a low, else nothing.
PivotAt(bars, i) ==
    IF IsSwingHigh(bars, i) THEN <<Pivot("HIGH", bars[i].high, i)>>
    ELSE IF IsSwingLow(bars, i) THEN <<Pivot("LOW", bars[i].low, i)>>
    ELSE <<>>

MoreExtreme(pivot, last) ==
    \/ pivot.kind = "HIGH" /\ pivot.price > last.price
    \/ pivot.kind = "LOW" /\ pivot.price < last.price

\* Mutant: confirmed on the opposite turning point itself.
AbsorbAtOnce(swings, pivot) ==
    IF swings = <<>> THEN <<pivot>>
    ELSE LET n == Len(swings)
         IN  IF swings[n].kind # pivot.kind
             THEN Append([swings EXCEPT ![n].confirmed = pivot.index], pivot)
             ELSE IF MoreExtreme(pivot, swings[n])
             THEN [swings EXCEPT ![n] = pivot]
             ELSE swings

\* An opposite pivot confirms the last swing, from the bar on which that pivot
\* could itself be recognised; a more extreme one of its kind replaces it.
Absorb(swings, pivot) ==
    IF swings = <<>> THEN <<pivot>>
    ELSE LET n == Len(swings)
         IN  IF swings[n].kind # pivot.kind
             THEN Append([swings EXCEPT ![n].confirmed = pivot.index + Lookback], pivot)
             ELSE IF MoreExtreme(pivot, swings[n])
             THEN [swings EXCEPT ![n] = pivot]
             ELSE swings

\* Bar i completes the window of the bar Lookback before it.
Recognised(bars, swings, i) ==
    LET found == IF i <= 2 * Lookback THEN <<>> ELSE PivotAt(bars, i - Lookback)
    IN  IF found = <<>> THEN swings ELSE Absorb(swings, found[1])

\* The swings after each bar of the series.
SwingsAfter(bars) ==
    LET after[i \in 0..Len(bars)] ==
            IF i = 0 THEN <<>> ELSE Recognised(bars, after[i - 1], i)
    IN  after

FindSwings(bars) == SwingsAfter(bars)[Len(bars)]

\* What a reader standing on bar i may use, in its order.
KnownBy(swing, i) == swing.confirmed # NotYet /\ swing.confirmed <= i

Sifted(known, swing, i) == IF KnownBy(swing, i) THEN Append(known, swing) ELSE known

Kept(swings, i) ==
    LET known[k \in 0..Len(swings)] ==
            IF k = 0 THEN <<>> ELSE Sifted(known[k - 1], swings[k], i)
    IN  known

Confirmed(swings, i) == Kept(swings, i)[Len(swings)]

ConfirmedBy(swings, i) == ToSet(Confirmed(swings, i))
=============================================================================
