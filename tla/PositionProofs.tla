--------------------------- MODULE PositionProofs ---------------------------
(* What an executed position and the paper ledger above it may rely on, for   *)
(* every lookback, origin and price history: the typing of the position, the  *)
(* stop that only rises, the profit that is locked in (whatever lows the      *)
(* swings propose), and that no swing, and so no replay of a longer history,  *)
(* rewrites a day already seen; then, for any events, sessions and faults of  *)
(* one writer, the one fate of a plan, rows that are true of the prices the   *)
(* market made, and coverage that vouches for no more than there is.          *)
EXTENDS PositionReplay, PaperLifecycle, SwingEngineProofs, TLAPS

\* The history and the position are well typed, and the stop never falls
\* below the one the position was opened with.
PositionOK ==
    /\ origin \in Origins
    /\ bars \in Seq(Bar)
    /\ position \in Position
    /\ position.stop >= origin.stop

\* The stop lags the locked-in profit only while an exit is due at the open.
StopHoldsProfit(o, p) ==
    p.mfe # NoPrice => /\ p.mfe >= LockedIn(o)
                       /\ p.stop >= p.mfe \/ p.pending # "NONE"

\* A stop exit is filled at the stop, and never while another exit is due.
StopExits(p) ==
    p.exit.reason = "STOP" => p.pending = "NONE" /\ p.exit.price = p.stop

ProfitInv == StopHoldsProfit(origin, position) /\ StopExits(position)

\* Whatever swings are found, the low they propose is a price of the series.
LEMMA LowIsAPrice ==
    ASSUME NEW o, NEW series \in Seq(Bar), NEW swings, NEW i \in 1..Len(series)
    PROVE  LatestHigherLow(o, series, swings, i) \in Nat
<1> DEFINE lows == HigherLows(o, series, swings, i)
           last == CHOOSE k \in lows : \A r \in lows : r <= k
<1>1. lows \subseteq 1..i
  BY DEF HigherLows
<1>2. CASE lows = {}
  BY <1>2 DEF LatestHigherLow, NoPrice
<1>3. CASE lows # {}
  <2>1. last \in lows
    <3> HIDE DEF lows
    <3>1. i \in Nat
      OBVIOUS
    <3>2. PICK m \in lows : \A r \in lows : r <= m
      BY <1>1, <1>3, <3>1, LastIndex
    <3> QED BY <3>2, Zenon
  <2>2. series[last] \in Bar
    BY <1>1, <2>1
  <2> HIDE DEF lows
  <2>3. LatestHigherLow(o, series, swings, i) = series[last].low
    BY <1>3 DEF LatestHigherLow, lows
  <2> QED BY <2>2, <2>3 DEF Bar
<1> QED BY <1>2, <1>3

\* The origins that the rules of a day are sound for.
SoundOrigin == {o \in Origin : Geometry(o)}

LEMMA OriginsAreSound == Origins \subseteq SoundOrigin
  BY ReplayAssumption DEF SoundOrigin

LEMMA OriginTyped ==
    ASSUME NEW o \in SoundOrigin
    PROVE  /\ o \in Origin /\ Geometry(o) /\ OneR(o) \in Nat /\ OneR(o) > 0
           /\ LockedIn(o) = o.entry + OneR(o) /\ Opened(o) \in Position
  BY DEF SoundOrigin, Origin, Geometry, OneR, LockedIn, TriggerR, GivebackR,
     Opened, Position, NoPrice, NoExit, Exit

\* The parts of a day that was survived.
LEMMA FloorIsEarned ==
    ASSUME NEW o \in SoundOrigin, NEW p \in Position, NEW high \in Nat
    PROVE  /\ MfeFloor(o, p, high) \in Nat
           /\ MfeFloor(o, p, high) >= p.mfe
           /\ MfeFloor(o, p, high) # NoPrice /\ StopHoldsProfit(o, p)
                => MfeFloor(o, p, high) >= LockedIn(o)
  BY OriginTyped DEF MfeFloor, MaxOf, TriggerR, GivebackR, Position, Origin, NoPrice,
     StopHoldsProfit

LEMMA StopIsRaised ==
    ASSUME NEW p \in Position, NEW bar \in Bar, NEW low \in Nat, NEW mfe \in Nat
    PROVE  LET s == NextStop(p, bar, StructuralCandidate(p, bar, low), mfe)
           IN  /\ s \in Nat /\ s >= p.stop
               /\ mfe # NoPrice /\ mfe <= bar.close => s >= mfe
<1> DEFINE candidate == StructuralCandidate(p, bar, low)
<1>1. candidate \in Nat
  BY DEF StructuralCandidate, Position, Bar, NoPrice
<1> HIDE DEF candidate
<1>2. /\ Offered(bar, candidate) \in Nat /\ Offered(bar, mfe) \in Nat
      /\ mfe # NoPrice /\ mfe <= bar.close => Offered(bar, mfe) = mfe
  BY <1>1 DEF Offered, NoPrice
<1>3. LET s == NextStop(p, bar, candidate, mfe)
      IN  /\ s \in Nat /\ s >= p.stop
          /\ mfe # NoPrice /\ mfe <= bar.close => s >= mfe
  BY <1>2 DEF NextStop, MaxOf, Position
<1> QED BY <1>3 DEF candidate

\* A day that was survived keeps the typing, raises the stop if anything, and
\* keeps the locked-in profit.
LEMMA HoldingKeeps ==
    ASSUME NEW o \in SoundOrigin, NEW p \in Position, NEW bar \in Bar, NEW low \in Nat,
           p.exit = NoExit, StopHoldsProfit(o, p)
    PROVE  LET q == HeldThrough(o, p, bar, low)
           IN  /\ q \in Position /\ q.stop >= p.stop /\ q.exit = NoExit
               /\ StopHoldsProfit(o, q)
<1> DEFINE high == MaxOf(p.maxHigh, bar.high)
           mfe == MfeFloor(o, p, high)
           floor == MaxOf(p.floor, low)
           pending == PendingExit(bar, floor, mfe)
           raised == NextStop(p, bar, StructuralCandidate(p, bar, low), mfe)
           q == HeldThrough(o, p, bar, low)
<1>1. high \in Nat /\ floor \in Nat
  BY DEF MaxOf, Position, Bar
<1> HIDE DEF high, floor
<1>2. mfe \in Nat /\ mfe >= p.mfe /\ (mfe # NoPrice => mfe >= LockedIn(o))
  BY <1>1, FloorIsEarned
<1> HIDE DEF mfe
<1>3. /\ pending \in {"NONE", "STRUCTURAL", "PROFIT"}
      /\ pending = "NONE" /\ mfe # NoPrice => mfe <= bar.close
  BY <1>2 DEF PendingExit, Bar, NoPrice
<1>4. raised \in Nat /\ raised >= p.stop /\ (mfe # NoPrice /\ mfe <= bar.close => raised >= mfe)
  BY <1>2, StopIsRaised
<1> HIDE DEF pending, raised
<1>5. q = [p EXCEPT !.maxHigh = high, !.mfe = mfe, !.floor = floor, !.pending = pending,
                    !.stop = IF pending # "NONE" THEN p.stop ELSE raised]
  BY DEF HeldThrough, high, mfe, floor, pending, raised
<1> HIDE DEF q
<1>6. /\ q \in Position /\ q.exit = p.exit /\ q.mfe = mfe /\ q.pending = pending
      /\ q.stop = IF pending # "NONE" THEN p.stop ELSE raised
  BY <1>1, <1>2, <1>3, <1>4, <1>5 DEF Position
<1>7. q.stop >= p.stop
  BY <1>4, <1>6 DEF Position
<1>8. StopHoldsProfit(o, q)
  BY <1>2, <1>3, <1>4, <1>6 DEF StopHoldsProfit
<1> QED BY <1>6, <1>7, <1>8 DEF q

\* One turn of the replay's loop.
LEMMA DayKeeps ==
    ASSUME NEW o \in SoundOrigin, NEW p \in Position, NEW bar \in Bar, NEW low \in Nat,
           p.exit = NoExit, StopHoldsProfit(o, p)
    PROVE  LET q == Day(o, p, bar, low)
           IN  /\ q \in Position /\ q.stop >= p.stop
               /\ StopHoldsProfit(o, q) /\ StopExits(q)
<1> DEFINE q == Day(o, p, bar, low)
           Filled(price, reason) == ExitAt(p, bar, price, reason)
<1>1. ASSUME NEW price \in Nat, NEW reason \in {"GAP", "STOP", "STRUCTURAL", "PROFIT"}
      PROVE  LET r == Filled(price, reason)
             IN  /\ r \in Position /\ r.stop = p.stop /\ r.mfe = p.mfe
                 /\ r.pending = p.pending /\ r.exit.price = price /\ r.exit.reason = reason
  BY DEF ExitAt, Position, Exit, Bar
<1>2. CASE p.pending # "NONE"
  <2>1. q = Filled(bar.open, p.pending)
    BY <1>2 DEF Day
  <2>2. bar.open \in Nat /\ p.pending \in {"STRUCTURAL", "PROFIT"} /\ p.stop \in Nat
    BY <1>2 DEF Bar, Position
  <2> QED BY <1>1, <2>1, <2>2 DEF StopHoldsProfit, StopExits
<1>3. CASE p.pending = "NONE" /\ bar.open <= p.stop
  <2>1. q = Filled(bar.open, "GAP")
    BY <1>3 DEF Day
  <2>2. bar.open \in Nat /\ p.stop \in Nat
    BY DEF Bar, Position
  <2> QED BY <1>1, <2>1, <2>2 DEF StopHoldsProfit, StopExits
<1>4. CASE p.pending = "NONE" /\ ~(bar.open <= p.stop) /\ bar.low <= p.stop
  <2>1. q = Filled(p.stop, "STOP")
    BY <1>4 DEF Day
  <2>2. p.stop \in Nat
    BY DEF Position
  <2> QED BY <1>1, <1>4, <2>1, <2>2 DEF StopHoldsProfit, StopExits
<1>5. CASE p.pending = "NONE" /\ ~(bar.open <= p.stop) /\ ~(bar.low <= p.stop)
  <2>1. q = HeldThrough(o, p, bar, low)
    BY <1>5 DEF Day
  <2> QED BY <2>1, HoldingKeeps DEF StopExits, NoExit
<1> QED BY <1>2, <1>3, <1>4, <1>5

-----------------------------------------------------------------------------

PositionInv == PositionOK /\ ProfitInv

LEMMA PositionBegins == ReplayInit => PositionInv
<1> SUFFICES ASSUME ReplayInit PROVE PositionInv
  OBVIOUS
<1>1. position = Opened(origin) /\ origin \in Origins /\ bars \in Seq(Bar)
  BY ReplayAssumption DEF ReplayInit
<1>2. position \in Position /\ position.stop = origin.stop /\ origin.stop \in Nat
  BY OriginsAreSound, <1>1, OriginTyped DEF Opened, Origin
<1>3. ProfitInv
  BY <1>1 DEF ProfitInv, StopHoldsProfit, StopExits, Opened, NoPrice, NoExit
<1> QED BY <1>1, <1>2, <1>3 DEF PositionInv, PositionOK

\* A day of the market is one turn of the loop.
LEMMA SessionIsADay ==
    ASSUME PositionOK, ReplaySession
    PROVE  /\ bars' \in Seq(Bar) /\ position.exit = NoExit /\ origin' = origin
           /\ \E bar \in Bar, low \in Nat : position' = Day(origin, position, bar, low)
<1>1. PICK shape \in BarShapes :
          LET series == Append(bars, Dated(shape, Len(bars) + 1))
              n == Len(series)
          IN  /\ bars' = series
              /\ position' = Day(origin, position, series[n],
                                 LatestHigherLow(origin, series, FindSwings(series), n))
  BY DEF ReplaySession
<1> DEFINE bar == Dated(shape, Len(bars) + 1)
           series == Append(bars, bar)
           low == LatestHigherLow(origin, series, FindSwings(series), Len(series))
<1>2. bars \in Seq(Bar) /\ Len(bars) \in Nat
  BY DEF PositionOK
<1>3. bar \in Bar
  BY <1>2, ReplayAssumption DEF Dated, Bar
<1> HIDE DEF bar
<1>4. series \in Seq(Bar) /\ Len(series) = Len(bars) + 1 /\ series[Len(series)] = bar
  BY <1>2, <1>3
<1>5. Len(series) \in 1..Len(series)
  BY <1>2, <1>4
<1>6. low \in Nat
  <2> HIDE DEF series
  <2> QED BY <1>4, <1>5, LowIsAPrice
<1>7. bars' = series /\ position' = Day(origin, position, bar, low)
  BY <1>1, <1>4 DEF bar
<1> QED BY <1>3, <1>4, <1>6, <1>7 DEF ReplaySession

LEMMA PositionSteps == PositionInv /\ [ReplayNext]_replayVars => PositionInv' /\ (position.stop <= position'.stop)
<1> SUFFICES ASSUME PositionInv, [ReplayNext]_replayVars PROVE PositionInv' /\ position.stop <= position'.stop
  OBVIOUS
<1>1. CASE ReplaySession
  <2>1. PICK bar \in Bar, low \in Nat :
            /\ bars' \in Seq(Bar) /\ position.exit = NoExit /\ origin' = origin
            /\ position' = Day(origin, position, bar, low)
    BY <1>1, SessionIsADay DEF PositionInv
  <2>2. /\ position' \in Position /\ position'.stop >= position.stop
        /\ StopHoldsProfit(origin, position') /\ StopExits(position')
    BY OriginsAreSound, <2>1, DayKeeps DEF PositionInv, PositionOK, ProfitInv
  <2>3. position.stop \in Nat /\ position'.stop \in Nat /\ origin.stop \in Nat
    BY OriginsAreSound, <2>2, OriginTyped DEF PositionInv, PositionOK, Position, Origin
  <2> QED BY <2>1, <2>2, <2>3 DEF PositionInv, PositionOK, ProfitInv
<1>2. CASE UNCHANGED replayVars
  <2>1. position.stop \in Nat
    BY DEF PositionInv, PositionOK, Position
  <2> QED BY <1>2, <2>1 DEF replayVars, PositionInv, PositionOK, ProfitInv
<1> QED BY <1>1, <1>2 DEF ReplayNext

LEMMA PositionHolds == ReplaySpec => []PositionInv
  BY PositionBegins, PositionSteps, PTL DEF ReplaySpec

\* Every history and every position of the rules is well typed, and no stop
\* falls below the initial one (replay_position).
THEOREM TypeCorrect == ReplaySpec => []PositionOK
  BY PositionHolds, PTL DEF PositionInv

\* The protective stop of a position is never lowered, whatever swings the
\* engine finds (replay_position: next_stop).
THEOREM StopOnlyRises == ReplaySpec => [][position.stop <= position'.stop]_replayVars
  BY PositionHolds, PositionSteps, PTL DEF ReplaySpec

\* After the trigger was earned, a stop exit keeps the locked-in part, for
\* every lookback, origin and price history (replay_position: mfe_floor).
THEOREM ProfitStaysLockedIn == ReplaySpec => []ProfitIsLockedIn
<1>1. PositionInv => ProfitIsLockedIn
  <2> SUFFICES ASSUME PositionInv, position.mfe # NoPrice, position.exit.reason = "STOP"
               PROVE  position.exit.price >= LockedIn(origin)
    BY DEF ProfitIsLockedIn
  <2>1. /\ position.mfe \in Nat /\ position.stop \in Nat /\ LockedIn(origin) \in Int
    BY OriginsAreSound, OriginTyped DEF PositionInv, PositionOK, Position, Origin, LockedIn
  <2> QED BY <2>1 DEF PositionInv, ProfitInv, StopHoldsProfit, StopExits
<1> QED BY <1>1, PositionHolds, PTL

-----------------------------------------------------------------------------
(* The replay of a growing history.                                            *)

\* The positions that the rules of a day are sound for.
SoundPosition(o) == {p \in Position : StopHoldsProfit(o, p)}

\* One turn of the replay's loop keeps a position sound.
LEMMA TurnKeeps ==
    ASSUME NEW o \in SoundOrigin, NEW series \in Seq(Bar), NEW swings,
           NEW i \in 1..Len(series), NEW p \in SoundPosition(o)
    PROVE  Turn(o, series, swings, p, i) \in SoundPosition(o)
<1> DEFINE low == LatestHigherLow(o, series, swings, i)
<1>1. low \in Nat /\ series[i] \in Bar
  BY LowIsAPrice
<1> HIDE DEF low
<1>2. CASE series[i].day < o.day
  BY <1>2 DEF Turn
<1>3. CASE ~(series[i].day < o.day)
  <2>1. Turn(o, series, swings, p, i) = Day(o, p, series[i], low)
    BY <1>3 DEF Turn, low
  <2>2. CASE p.exit = NoExit
    <3>1. p \in Position /\ StopHoldsProfit(o, p)
      BY DEF SoundPosition
    <3>2. LET q == Day(o, p, series[i], low) IN q \in Position /\ StopHoldsProfit(o, q)
      BY <1>1, <2>2, <3>1, DayKeeps
    <3> QED BY <2>1, <3>2 DEF SoundPosition
  <2>3. CASE p.exit # NoExit
    BY <2>1, <2>3 DEF Day
  <2> QED BY <2>2, <2>3
<1> QED BY <1>2, <1>3

\* The loop of the replay has its run.
LEMMA ReplayRun ==
    ASSUME NEW o \in SoundOrigin, NEW series \in Seq(Bar), NEW swings
    PROVE  /\ DOMAIN Played(o, series, swings) = 0..Len(series)
           /\ Played(o, series, swings)[0] = Opened(o)
           /\ \A i \in 1..Len(series) : Played(o, series, swings)[i]
                  = Turn(o, series, swings, Played(o, series, swings)[i - 1], i)
<1> DEFINE n == Len(series)
           S == SoundPosition(o)
           turn == [i \in 1..n |-> [p \in S |-> Turn(o, series, swings, p, i)]]
           Follows(f) == f = [i \in 0..n |-> IF i = 0 THEN Opened(o)
                                             ELSE Turn(o, series, swings, f[i - 1], i)]
<1>1. n \in Nat /\ Opened(o) \in S
  <2>1. StopHoldsProfit(o, Opened(o))
    BY DEF StopHoldsProfit, Opened
  <2> QED BY <2>1, OriginTyped DEF SoundPosition
<1>2. turn \in [1..n -> [S -> S]]
  BY TurnKeeps
<1>3. \A p \in S, i \in 1..n : turn[i][p] = Turn(o, series, swings, p, i)
  OBVIOUS
<1> HIDE DEF turn, n, S
<1>4. PICK f \in [0..n -> S] : f[0] = Opened(o) /\ \A i \in 1..n : f[i] = turn[i][f[i - 1]]
  <2>1. \E f \in [0..n -> S] : IsRun(f, n, Opened(o), turn)
    BY <1>1, <1>2, LoopRuns
  <2> QED BY <2>1 DEF IsRun
<1>5. Follows(f)
  <2> DEFINE g == [i \in 0..n |-> IF i = 0 THEN Opened(o)
                                  ELSE Turn(o, series, swings, f[i - 1], i)]
  <2>1. \A i \in 1..n : f[i - 1] \in S
    BY <1>1
  <2>2. \A i \in 1..n : f[i] = Turn(o, series, swings, f[i - 1], i)
    BY <1>3, <1>4, <2>1
  <2>3. \A i \in 0..n : f[i] = g[i]
    BY <1>1, <1>4, <2>2
  <2> QED BY <2>3
<1> DEFINE h == Played(o, series, swings)
<1>6. Follows(h)
  BY <1>5 DEF Played, n
<1> HIDE DEF h
<1>7. DOMAIN h = 0..n /\ h[0] = Opened(o) /\ \A i \in 1..n : h[i] = Turn(o, series, swings, h[i - 1], i)
  BY <1>1, <1>6
<1> QED BY <1>7 DEF n, h

\* Two replays that see the same of their first n days play them alike.
LEMMA ReplaysArePrefixes ==
    ASSUME NEW o \in SoundOrigin, NEW a \in Seq(Bar), NEW b \in Seq(Bar), NEW n \in Nat,
           AgreeUpTo(n, a, b), NEW v, NEW w,
           \A i \in 1..n : ConfirmedBy(v, i) = ConfirmedBy(w, i)
    PROVE  \A i \in 0..n : Played(o, a, v)[i] = Played(o, b, w)[i]
<1> DEFINE G == {i \in 0..n : Played(o, a, v)[i] = Played(o, b, w)[i]}
<1>1. G \in SUBSET (0..n) /\ 0 \in G
  BY ReplayRun
<1>2. ASSUME NEW m \in 1..n, m - 1 \in G PROVE m \in G
  <2>1. m \in 1..Len(a) /\ m \in 1..Len(b) /\ 1..m \subseteq 1..n
    BY DEF AgreeUpTo
  <2>2. \A k \in 1..m : a[k] = b[k]
    BY <2>1 DEF AgreeUpTo
  <2>3. HigherLows(o, a, v, m) = HigherLows(o, b, w, m)
    BY <2>2 DEF HigherLows
  <2>4. HigherLows(o, a, v, m) \subseteq 1..m
    BY DEF HigherLows
  <2>5. LatestHigherLow(o, a, v, m) = LatestHigherLow(o, b, w, m)
    <3> DEFINE lows == HigherLows(o, a, v, m)
               last == CHOOSE k \in lows : \A r \in lows : r <= k
    <3>1. CASE lows = {}
      BY <2>3, <3>1 DEF LatestHigherLow
    <3>2. CASE lows # {}
      <4>1. last \in lows
        <5> HIDE DEF lows
        <5>1. m \in Nat
          OBVIOUS
        <5>2. PICK k \in lows : \A r \in lows : r <= k
          BY <2>4, <3>2, <5>1, LastIndex DEF lows
        <5> QED BY <5>2, Zenon
      <4>2. a[last] = b[last]
        BY <2>2, <2>4, <4>1
      <4> QED BY <2>3, <3>2, <4>2 DEF LatestHigherLow
    <3> QED BY <3>1, <3>2
  <2>6. \A p : Turn(o, a, v, p, m) = Turn(o, b, w, p, m)
    BY <2>2, <2>5 DEF Turn
  <2>7. Played(o, a, v)[m] = Turn(o, a, v, Played(o, a, v)[m - 1], m)
    BY <2>1, ReplayRun
  <2>8. Played(o, b, w)[m] = Turn(o, b, w, Played(o, b, w)[m - 1], m)
    BY <2>1, ReplayRun
  <2> QED BY <1>2, <2>6, <2>7, <2>8
<1>3. \A m \in 0..n : m \in G
  <2> HIDE DEF G
  <2> QED BY <1>1, <1>2, Induction
<1> QED BY <1>3

\* The history holds the days before the entry, and its replay tells what was
\* seen.
CausalInv == Len(Past) <= Len(bars) /\ ReplayIsCausal

\* The days before the entry are passed over.
LEMMA CausalInit == ReplayInit => CausalInv
<1> SUFFICES ASSUME ReplayInit PROVE CausalInv
  OBVIOUS
<1> DEFINE n == Len(Past)
           played == Played(origin, Past, FindSwings(Past))
           G == {i \in 0..n : played[i] = Opened(origin)}
<1>1. /\ origin \in Origins /\ bars = Past /\ position = Opened(origin)
      /\ Past \in Seq(Bar) /\ n \in Nat /\ origin.day = n + 1
  BY ReplayAssumption DEF ReplayInit
<1>2. /\ played[0] = Opened(origin)
      /\ \A i \in 1..n : played[i] = Turn(origin, Past, FindSwings(Past), played[i - 1], i)
  BY OriginsAreSound, <1>1, ReplayRun
<1> HIDE DEF played
<1>3. G \in SUBSET (0..n) /\ 0 \in G
  BY <1>1, <1>2
<1>4. ASSUME NEW m \in 1..n, m - 1 \in G PROVE m \in G
  <2>1. Past[m] \in Bar /\ Past[m].day <= n
    BY <1>1, ReplayAssumption
  <2>2. Past[m].day < origin.day
    <3>1. Past[m].day \in Int
      BY <2>1 DEF Bar
    <3> QED BY <1>1, <2>1, <3>1
  <2>3. played[m] = played[m - 1]
    BY <1>2, <2>2 DEF Turn
  <2> QED BY <1>4, <2>3
<1>5. \A m \in 0..n : m \in G
  <2> HIDE DEF G
  <2> QED BY <1>1, <1>3, <1>4, Induction
<1>6. Replay(origin, Past) = Opened(origin)
  BY <1>1, <1>5 DEF Replay, played
<1> QED BY <1>1, <1>6 DEF CausalInv, ReplayIsCausal

\* What a session does to the history and to the position, in one turn.
LEMMA SessionIsATurn ==
    ASSUME PositionOK, Len(Past) <= Len(bars), ReplaySession
    PROVE  \E bar \in Bar :
              /\ bars' = Append(bars, bar) /\ origin' = origin
              /\ position' = Turn(origin, bars', FindSwings(bars'), position, Len(bars) + 1)
<1>1. PICK shape \in BarShapes :
          LET series == Append(bars, Dated(shape, Len(bars) + 1))
              n == Len(series)
          IN  /\ bars' = series
              /\ position' = Day(origin, position, series[n],
                                 LatestHigherLow(origin, series, FindSwings(series), n))
  BY DEF ReplaySession
<1> DEFINE bar == Dated(shape, Len(bars) + 1)
           n == Len(bars) + 1
<1>2. /\ bars \in Seq(Bar) /\ Len(bars) \in Nat /\ origin \in Origins
      /\ Len(Past) \in Nat /\ origin.day = Len(Past) + 1
  BY ReplayAssumption DEF PositionOK
<1>3. bar \in Bar /\ bar.day = n
  BY <1>2, ReplayAssumption DEF Dated, Bar
<1> HIDE DEF bar
<1>4. Len(Append(bars, bar)) = n /\ Append(bars, bar)[n] = bar
  BY <1>2, <1>3
<1>5. bars' = Append(bars, bar)
  BY <1>1 DEF bar
<1>6. position' = Day(origin, position, bars'[n], LatestHigherLow(origin, bars', FindSwings(bars'), n))
  BY <1>1, <1>4, <1>5 DEF bar
<1>7. ~(bars'[n].day < origin.day)
  BY <1>2, <1>3, <1>4, <1>5
<1>8. position' = Turn(origin, bars', FindSwings(bars'), position, n)
  BY <1>6, <1>7 DEF Turn
<1> QED BY <1>3, <1>5, <1>8 DEF ReplaySession

\* The longer history is played as the shorter one was, and one turn more.
LEMMA CausalStep == PositionInv /\ CausalInv /\ [ReplayNext]_replayVars => CausalInv'
<1> SUFFICES ASSUME PositionInv, CausalInv, [ReplayNext]_replayVars PROVE CausalInv'
  OBVIOUS
<1>1. CASE ReplaySession
  <2> DEFINE n == Len(bars)
             old == Played(origin, bars, FindSwings(bars))
             new == Played(origin, bars', FindSwings(bars'))
  <2>1. PICK bar \in Bar :
            /\ bars' = Append(bars, bar) /\ origin' = origin
            /\ position' = Turn(origin, bars', FindSwings(bars'), position, n + 1)
    BY <1>1, SessionIsATurn DEF PositionInv, CausalInv
  <2>2. bars \in Seq(Bar) /\ origin \in Origins /\ n \in Nat /\ Len(Past) \in Nat
    BY ReplayAssumption DEF PositionInv, PositionOK
  <2>3. bars' \in Seq(Bar) /\ Len(bars') = n + 1 /\ AgreeUpTo(n, bars', bars)
    BY <2>1, <2>2 DEF AgreeUpTo
  <2>4. \A i \in 1..n : ConfirmedBy(FindSwings(bars'), i) = ConfirmedBy(FindSwings(bars), i)
    <3>1. AgreeUpTo(Len(bars), bars, bars')
      BY <2>3 DEF AgreeUpTo
    <3> QED BY <2>2, <2>3, <3>1, LongerSeries DEF ConfirmedBy
  <2>5. \A i \in 0..n : new[i] = old[i]
    BY OriginsAreSound, <2>2, <2>3, <2>4, ReplaysArePrefixes
  <2>6. new[n + 1] = Turn(origin, bars', FindSwings(bars'), new[n], n + 1)
    <3>1. n + 1 \in 1..Len(bars') /\ (n + 1) - 1 = n
      BY <2>2, <2>3
    <3> QED BY OriginsAreSound, <2>2, <2>3, <3>1, ReplayRun
  <2>7. old[n] = position
    BY DEF CausalInv, ReplayIsCausal, Replay
  <2>8. new[n + 1] = position'
    BY <2>1, <2>2, <2>5, <2>6, <2>7
  <2>9. Replay(origin, bars)' = position'
    BY <2>1, <2>3, <2>8 DEF Replay
  <2> QED BY <2>2, <2>3, <2>9 DEF CausalInv, ReplayIsCausal
<1>2. CASE UNCHANGED replayVars
  BY <1>2 DEF replayVars, CausalInv, ReplayIsCausal
<1> QED BY <1>1, <1>2 DEF ReplayNext

\* The replay of the whole history finds for every position what its days saw
\* one by one: hindsight moves no exit and no stop (replay_position, which
\* works on the swings of the full series and filters them per day).
THEOREM Causality == ReplaySpec => []ReplayIsCausal
<1>1. ReplaySpec => [](PositionInv /\ CausalInv)
  BY PositionBegins, PositionSteps, CausalInit, CausalStep, PTL DEF ReplaySpec
<1>2. CausalInv => ReplayIsCausal
  BY DEF CausalInv
<1> QED BY <1>1, <1>2, PTL

\* A further bar neither redraws a swing that was known nor discovers one for a
\* bar already past, for every lookback and price series (_build_swings).
THEOREM NoRepainting == ReplaySpec => SwingsNotRepainted
<1>1. PositionInv /\ [ReplayNext]_replayVars =>
          [Confirmed(FindSwings(bars'), Len(bars)) = Confirmed(FindSwings(bars), Len(bars))]_bars
  <2> SUFFICES ASSUME PositionInv, ReplaySession
               PROVE  Confirmed(FindSwings(bars'), Len(bars)) = Confirmed(FindSwings(bars), Len(bars))
    BY DEF ReplayNext, replayVars
  <2>1. PICK shape \in BarShapes : bars' = Append(bars, Dated(shape, Len(bars) + 1))
    BY DEF ReplaySession
  <2>2. bars \in Seq(Bar) /\ Len(bars) \in Nat
    BY DEF PositionInv, PositionOK
  <2>3. Dated(shape, Len(bars) + 1) \in Bar /\ Len(bars) \in 0..Len(bars)
    BY <2>2, ReplayAssumption DEF Dated, Bar
  <2>4. bars' \in Seq(Bar) /\ AgreeUpTo(Len(bars), bars, bars')
    BY <2>1, <2>2, <2>3 DEF AgreeUpTo
  <2> QED BY <2>2, <2>3, <2>4, LongerSeries
<1> QED BY <1>1, PositionHolds, PTL DEF ReplaySpec, SwingsNotRepainted

-----------------------------------------------------------------------------
(* The paper ledger: one plan, one fate, for any events, paths and sessions,  *)
(* through crashes and failing appends.                                       *)

\* A run has its fields, and names events.
TypeOK ==
    /\ run = [active |-> run.active, asOf |-> run.asOf, exact |-> run.exact, feed |-> run.feed,
              rows |-> run.rows, fresh |-> run.fresh, visited |-> run.visited,
              failed |-> run.failed, opened |-> run.opened]
    /\ run.active \in BOOLEAN
    /\ run.fresh \subseteq Events /\ run.visited \subseteq Events /\ run.opened \subseteq Events
    /\ run.failed \subseteq Events

\* The rows in memory are the rows of the worksheet: there is one writer.
OneWriter == run.active => run.rows = ledger

\* What the rows of one event may be.
OneFate ==
    \A e \in Events :
        /\ Has(ledger, "EXECUTED", e) \/ Has(ledger, "SKIPPED", e) => Has(ledger, "PLAN", e)
        /\ ~ (Has(ledger, "EXECUTED", e) /\ Has(ledger, "SKIPPED", e))
        /\ Has(ledger, "CLOSED", e) => Has(ledger, "EXECUTED", e)

\* Only an executed trade is on its way to a close, and only of a live run.
OpenedIsExecuted == \A e \in run.opened : run.active /\ Has(ledger, "EXECUTED", e)

\* The plans come first, and an idle run makes none.
FreshIsActive == run.fresh # {} => run.active /\ run.opened = {}

Inv == TypeOK /\ OneWriter /\ OneFate /\ OpenedIsExecuted /\ FreshIsActive

\* A row shows under its own type and event, and nowhere else.
LEMMA RowShows ==
    ASSUME NEW rows, NEW row, NEW type, NEW e
    PROVE  /\ row.type = type /\ row.event = e => Has(rows \cup {row}, type, e)
           /\ row.type # type => (Has(rows \cup {row}, type, e) <=> Has(rows, type, e))
           /\ row.event # e => (Has(rows \cup {row}, type, e) <=> Has(rows, type, e))
  BY DEF Has, RowsOf, Of

-----------------------------------------------------------------------------
(* The four rows a trade may get, and what they do to its fate.               *)

Gets(row, e, type) == row.type = type /\ row.event = e

\* The row comes at its place in the life of the trade.
Fits(row) ==
    \/ row.type = "COVERAGE"
    \/ \E e \in Events : Gets(row, e, "PLAN")
    \/ \E e \in Events : Gets(row, e, "SKIPPED") /\ Status(ledger, e) = "PLAN"
    \/ \E e \in Events : Gets(row, e, "EXECUTED") /\ Status(ledger, e) = "PLAN"
    \/ \E e \in Events : Gets(row, e, "CLOSED") /\ Has(ledger, "EXECUTED", e)

fate == [e \in Events |-> FateOf(e)]

LEMMA PlannedOnly ==
    ASSUME NEW rows, NEW e, Status(rows, e) = "PLAN"
    PROVE  /\ Has(rows, "PLAN", e) /\ ~ Has(rows, "CLOSED", e)
           /\ ~ Has(rows, "SKIPPED", e) /\ ~ Has(rows, "EXECUTED", e)
  BY DEF Status

\* One more row of an event: the others keep theirs.
LEMMA OthersKeepTheirFate ==
    ASSUME NEW row, NEW e \in Events, row.event = e, ledger' = ledger \cup {row},
           NEW d \in Events, d # e
    PROVE  /\ FateOf(d)' = FateOf(d)
           /\ \A type \in {"PLAN", "EXECUTED", "SKIPPED", "CLOSED"} :
                 Has(ledger', type, d) <=> Has(ledger, type, d)
<1>1. \A type : Has(ledger', type, d) <=> Has(ledger, type, d)
  BY RowShows
<1> QED BY <1>1 DEF FateOf, Status

\* A fitting row keeps one fate per trade and is a step of the abstract trade.
LEMMA RowIsAStep ==
    ASSUME OneFate, NEW row, Fits(row), ~ Known(ledger, row), ledger' = ledger \cup {row}
    PROVE  /\ OneFate'
           /\ Trade!Next \/ fate' = fate
<1> DEFINE H(type, e) == Has(ledger, type, e)
           Now(type, e) == Has(ledger', type, e)
           Turns(e, x, y) == fate[e] = x /\ fate' = [fate EXCEPT ![e] = y]
<1>a. ASSUME NEW e \in Events, NEW x, NEW y, row.event = e, FateOf(e) = x, FateOf(e)' = y
      PROVE  Turns(e, x, y)
  <2>1. \A d \in Events \ {e} : FateOf(d)' = FateOf(d)
    BY <1>a, OthersKeepTheirFate
  <2> QED BY <1>a, <2>1 DEF fate
<1>b. ASSUME NEW e \in Events, NEW t \in {"PLAN", "EXECUTED", "SKIPPED", "CLOSED"}, Gets(row, e, t)
      PROVE  /\ Now(t, e) /\ ~ H(t, e)
             /\ \A s : s # t => (Now(s, e) <=> H(s, e))
             /\ \A d \in Events \ {e} : \A s \in {"PLAN", "EXECUTED", "SKIPPED", "CLOSED"} :
                   Now(s, d) <=> H(s, d)
  BY <1>b, RowShows, OthersKeepTheirFate DEF Gets, Known
<1>1. CASE row.type = "COVERAGE"
  <2>1. \A e : \A t \in {"PLAN", "EXECUTED", "SKIPPED", "CLOSED"} : Now(t, e) <=> H(t, e)
    BY <1>1, RowShows
  <2>2. \A e : FateOf(e)' = FateOf(e)
    BY <2>1 DEF FateOf, Status
  <2> QED BY <2>1, <2>2 DEF OneFate, fate
<1>2. ASSUME NEW e \in Events, Gets(row, e, "PLAN")
      PROVE  OneFate' /\ Turns(e, "NONE", "PLAN")
  <2>1. FateOf(e) = "NONE"
    BY <1>2, <1>b DEF FateOf, Status, OneFate
  <2>2. FateOf(e)' = "PLAN"
    BY <1>2, <1>b DEF FateOf, Status, OneFate
  <2>3. OneFate'
    BY <1>2, <1>b DEF OneFate
  <2> QED BY <1>2, <1>a, <2>1, <2>2, <2>3 DEF Gets
<1>3. ASSUME NEW e \in Events, NEW t \in {"SKIPPED", "EXECUTED"}, Gets(row, e, t),
             Status(ledger, e) = "PLAN"
      PROVE  OneFate' /\ Turns(e, "PLAN", IF t = "SKIPPED" THEN "SKIPPED" ELSE "OPEN")
  <2>0. H("PLAN", e) /\ ~ H("CLOSED", e) /\ ~ H("SKIPPED", e) /\ ~ H("EXECUTED", e)
    BY <1>3, PlannedOnly
  <2>1. FateOf(e) = "PLAN"
    BY <1>3, <2>0 DEF FateOf
  <2>2. FateOf(e)' = IF t = "SKIPPED" THEN "SKIPPED" ELSE "OPEN"
    BY <1>3, <1>b, <2>0 DEF FateOf, Status
  <2>3. OneFate'
    BY <1>3, <1>b, <2>0 DEF OneFate
  <2> QED BY <1>3, <1>a, <2>1, <2>2, <2>3 DEF Gets
<1>4. ASSUME NEW e \in Events, Gets(row, e, "CLOSED"), H("EXECUTED", e)
      PROVE  OneFate' /\ Turns(e, "OPEN", "CLOSED")
  <2>0. H("PLAN", e) /\ ~ H("SKIPPED", e) /\ ~ H("CLOSED", e)
    BY <1>4, <1>b DEF OneFate
  <2>1. FateOf(e) = "OPEN"
    BY <1>4, <2>0 DEF FateOf, Status
  <2>2. FateOf(e)' = "CLOSED"
    BY <1>4, <1>b, <2>0 DEF FateOf, Status
  <2>3. OneFate'
    BY <1>4, <1>b DEF OneFate
  <2> QED BY <1>4, <1>a, <2>1, <2>2, <2>3 DEF Gets
<1>5. ASSUME NEW e \in Events, NEW x, NEW y, Turns(e, x, y),
             <<x, y>> \in {<<"NONE", "PLAN">>, <<"PLAN", "OPEN">>, <<"PLAN", "SKIPPED">>,
                           <<"OPEN", "CLOSED">>}
      PROVE  Trade!Next
  BY <1>5 DEF Trade!Next, Trade!Become, fate
<1> QED BY <1>1, <1>2, <1>3, <1>4, <1>5 DEF Fits

-----------------------------------------------------------------------------
(* The steps.                                                                 *)

\* The run as it may be left by an append: what it names, without its rows.
Sound(after) ==
    /\ after = [active |-> after.active, asOf |-> after.asOf, exact |-> after.exact,
                feed |-> after.feed, rows |-> after.rows, fresh |-> after.fresh,
                visited |-> after.visited, failed |-> after.failed, opened |-> after.opened]
    /\ after.active \in BOOLEAN
    /\ after.fresh \subseteq Events /\ after.visited \subseteq Events /\ after.opened \subseteq Events
    /\ after.failed \subseteq Events
    /\ after.active => after.rows = ledger
    /\ after.fresh # {} => after.active /\ after.opened = {}
    /\ after.opened # {} => after.active

LEMMA IdleIsSound == Sound(Idle) /\ Idle.opened = {} /\ ~ Idle.active
  BY DEF Sound, Idle

LEMMA RunIsSound == Inv => Sound(run)
  BY DEF Inv, TypeOK, OneWriter, OpenedIsExecuted, FreshIsActive, Sound

\* A run left with a sound record and an opened trade that is executed.
LEMMA SoundRunHolds ==
    ASSUME NEW after, Sound(after), run' = after, ledger' = ledger,
           \A e \in after.opened : Has(ledger, "EXECUTED", e)
    PROVE  (TypeOK /\ OneWriter /\ OpenedIsExecuted /\ FreshIsActive)'
<1>2. TypeOK'
  BY DEF Sound, TypeOK
<1>3. OneWriter' /\ FreshIsActive'
  BY DEF Sound, OneWriter, FreshIsActive
<1>4. OpenedIsExecuted'
  BY DEF Sound, OpenedIsExecuted, Has, RowsOf, Of
<1> QED BY <1>2, <1>3, <1>4

\* The rows in memory stay the rows of the worksheet, whatever the call did.
LEMMA AppendKeepsInv ==
    ASSUME Inv, run.active, NEW row, NEW after, Sound(after), AppendEvent(row, after), Fits(row),
           \/ after.opened = {}
           \/ \E e \in Events : after.opened = {e} /\ Gets(row, e, "EXECUTED")
    PROVE  Inv' /\ (Trade!Next \/ fate' = fate)
<1>1. run.rows = ledger
  BY DEF Inv, OneWriter
<1>2. \/ Known(ledger, row) /\ ledger' = ledger /\ run' = after
      \/ ledger' = ledger /\ run' = Idle
      \/ /\ ~ Known(ledger, row) /\ ledger' = ledger \cup {row}
         /\ run' = Noted(after, row) \/ run' = Idle
  BY <1>1 DEF AppendEvent, Broken
<1>3. OneFate' /\ (Trade!Next \/ fate' = fate)
  <2>1. CASE ledger' = ledger
    <3>1. \A e : FateOf(e)' = FateOf(e)
      BY <2>1 DEF FateOf, Status, Has, RowsOf, Of
    <3> QED BY <2>1, <3>1 DEF Inv, OneFate, Has, RowsOf, Of, fate
  <2>2. CASE ~ Known(ledger, row) /\ ledger' = ledger \cup {row}
    BY <2>2, RowIsAStep DEF Inv
  <2> QED BY <1>2, <2>1, <2>2
<1>4. (TypeOK /\ OneWriter /\ OpenedIsExecuted /\ FreshIsActive)'
  <2>1. CASE Known(ledger, row) /\ ledger' = ledger /\ run' = after
    <3>1. \A e \in after.opened : Has(ledger, "EXECUTED", e)
      BY <2>1 DEF Known, Gets
    <3> QED BY <2>1, <3>1, SoundRunHolds
  <2>2. CASE run' = Idle
    BY <2>2, IdleIsSound DEF Idle, TypeOK, OneWriter, OpenedIsExecuted, FreshIsActive
  <2>3. CASE ledger' = ledger \cup {row} /\ run' = Noted(after, row) /\ ~ after.active
    <3>1. run' = after /\ after.opened = {} /\ after.fresh = {}
      BY <2>3 DEF Noted, Sound
    <3> QED BY <2>3, <3>1 DEF Sound, TypeOK, OneWriter, OpenedIsExecuted, FreshIsActive
  <2>4. CASE ledger' = ledger \cup {row} /\ run' = Noted(after, row) /\ after.active
    <3>1. run' = [active |-> after.active, asOf |-> after.asOf, exact |-> after.exact,
                  feed |-> after.feed, rows |-> ledger \cup {row}, fresh |-> after.fresh,
                  visited |-> after.visited, failed |-> after.failed, opened |-> after.opened]
      BY <2>4 DEF Noted, Sound
    <3>2. TypeOK'
      BY <3>1 DEF TypeOK, Sound
    <3>3. OneWriter' /\ FreshIsActive'
      BY <2>4, <3>1 DEF OneWriter, FreshIsActive, Sound
    <3>4. \A e \in after.opened : Has(ledger \cup {row}, "EXECUTED", e)
      BY RowShows DEF Gets
    <3>5. OpenedIsExecuted'
      BY <2>4, <3>1, <3>4 DEF OpenedIsExecuted, Has, RowsOf, Of
    <3> QED BY <3>2, <3>3, <3>5
  <2> QED BY <1>2, <2>1, <2>2, <2>3, <2>4
<1> QED BY <1>3, <1>4 DEF Inv

\* A step of the run that touches no row.
LEMMA QuietStep ==
    ASSUME Inv, ledger' = ledger, Sound(run'), run'.opened = {} \/ run' = run
    PROVE  Inv' /\ fate' = fate
<1>1. \A e : FateOf(e)' = FateOf(e)
  BY DEF FateOf, Status, Has, RowsOf, Of
<1>2. OneFate' /\ fate' = fate
  BY <1>1 DEF Inv, OneFate, Has, RowsOf, Of, fate
<1>3. \A e \in run'.opened : Has(ledger, "EXECUTED", e)
  BY DEF Inv, OpenedIsExecuted
<1> QED BY <1>2, <1>3, SoundRunHolds DEF Inv

\* The run with some of its fields replaced, field by field.
LEMMA WithVisited ==
    ASSUME NEW r, NEW n,
           r = [active |-> r.active, asOf |-> r.asOf, exact |-> r.exact, feed |-> r.feed,
                rows |-> r.rows, fresh |-> r.fresh, visited |-> r.visited,
                failed |-> r.failed, opened |-> r.opened]
    PROVE  [r EXCEPT !.visited = n] =
               [active |-> r.active, asOf |-> r.asOf, exact |-> r.exact, feed |-> r.feed,
                rows |-> r.rows, fresh |-> r.fresh, visited |-> n,
                failed |-> r.failed, opened |-> r.opened]
  OBVIOUS

LEMMA WithOpened ==
    ASSUME NEW r, NEW n,
           r = [active |-> r.active, asOf |-> r.asOf, exact |-> r.exact, feed |-> r.feed,
                rows |-> r.rows, fresh |-> r.fresh, visited |-> r.visited,
                failed |-> r.failed, opened |-> r.opened]
    PROVE  [r EXCEPT !.opened = n] =
               [active |-> r.active, asOf |-> r.asOf, exact |-> r.exact, feed |-> r.feed,
                rows |-> r.rows, fresh |-> r.fresh, visited |-> r.visited,
                failed |-> r.failed, opened |-> n]
  OBVIOUS

LEMMA WithFresh ==
    ASSUME NEW r, NEW n,
           r = [active |-> r.active, asOf |-> r.asOf, exact |-> r.exact, feed |-> r.feed,
                rows |-> r.rows, fresh |-> r.fresh, visited |-> r.visited,
                failed |-> r.failed, opened |-> r.opened]
    PROVE  [r EXCEPT !.fresh = n] =
               [active |-> r.active, asOf |-> r.asOf, exact |-> r.exact, feed |-> r.feed,
                rows |-> r.rows, fresh |-> n, visited |-> r.visited,
                failed |-> r.failed, opened |-> r.opened]
  OBVIOUS

LEMMA WithFailed ==
    ASSUME NEW r, NEW n,
           r = [active |-> r.active, asOf |-> r.asOf, exact |-> r.exact, feed |-> r.feed,
                rows |-> r.rows, fresh |-> r.fresh, visited |-> r.visited,
                failed |-> r.failed, opened |-> r.opened]
    PROVE  [r EXCEPT !.failed = n] =
               [active |-> r.active, asOf |-> r.asOf, exact |-> r.exact, feed |-> r.feed,
                rows |-> r.rows, fresh |-> r.fresh, visited |-> r.visited,
                failed |-> n, opened |-> r.opened]
  OBVIOUS

\* What a turn of one trade, and of one plan, leaves of the run.
LEMMA VisitedIsSound ==
    ASSUME Inv, run.active, NEW e \in Events
    PROVE  /\ Sound(Visited(e)) /\ Visited(e).opened = {}
           /\ Sound(Failed(e)) /\ Failed(e).opened = {}
           /\ run.fresh = {} => Sound([Visited(e) EXCEPT !.opened = {e}])
           /\ [Visited(e) EXCEPT !.opened = {e}].opened = {e}
           /\ run.fresh # {} => /\ Sound([run EXCEPT !.fresh = @ \ {e}])
                                /\ [run EXCEPT !.fresh = @ \ {e}].opened = {}
<1> DEFINE met == [run EXCEPT !.visited = @ \cup {e}]
           executed == [Visited(e) EXCEPT !.opened = {e}]
           planned == [run EXCEPT !.fresh = @ \ {e}]
<1>1. Sound(run)
  BY RunIsSound
<1>2. met = [active |-> run.active, asOf |-> run.asOf, exact |-> run.exact, feed |-> run.feed,
             rows |-> run.rows, fresh |-> run.fresh, visited |-> run.visited \cup {e},
             failed |-> run.failed, opened |-> run.opened]
  BY <1>1, WithVisited, Zenon DEF Sound
<1>3. Visited(e) = [met EXCEPT !.opened = {}]
  BY DEF Visited
<1>4. planned = [active |-> run.active, asOf |-> run.asOf, exact |-> run.exact,
                 feed |-> run.feed, rows |-> run.rows, fresh |-> run.fresh \ {e},
                 visited |-> run.visited, failed |-> run.failed, opened |-> run.opened]
  BY <1>1, WithFresh, Zenon DEF Sound
<1> HIDE DEF met
<1>5. Sound(met)
  BY <1>1, <1>2 DEF Sound
<1>6. Visited(e) = [active |-> met.active, asOf |-> met.asOf, exact |-> met.exact,
                    feed |-> met.feed, rows |-> met.rows, fresh |-> met.fresh,
                    visited |-> met.visited, failed |-> met.failed, opened |-> {}]
  BY <1>3, <1>5, WithOpened, Zenon DEF Sound
<1>7. Sound(Visited(e)) /\ Visited(e).opened = {}
  BY <1>5, <1>6 DEF Sound
<1>8. executed = [active |-> Visited(e).active, asOf |-> Visited(e).asOf,
                  exact |-> Visited(e).exact, feed |-> Visited(e).feed,
                  rows |-> Visited(e).rows, fresh |-> Visited(e).fresh,
                  visited |-> Visited(e).visited, failed |-> Visited(e).failed,
                  opened |-> {e}]
  BY <1>7, WithOpened, Zenon DEF Sound
<1>f. Failed(e) = [active |-> Visited(e).active, asOf |-> Visited(e).asOf,
                    exact |-> Visited(e).exact, feed |-> Visited(e).feed,
                    rows |-> Visited(e).rows, fresh |-> Visited(e).fresh,
                    visited |-> Visited(e).visited, failed |-> Visited(e).failed \cup {e},
                    opened |-> Visited(e).opened]
  BY <1>7, WithFailed, Zenon DEF Sound, Failed
<1> HIDE DEF executed, planned
<1>g. Sound(Failed(e)) /\ Failed(e).opened = {}
  BY <1>7, <1>f DEF Sound
<1>9. /\ run.active /\ met.active = run.active /\ Visited(e).active = run.active
      /\ met.fresh = run.fresh /\ Visited(e).fresh = run.fresh
  BY <1>2, <1>6
<1>10. (run.fresh = {} => Sound(executed)) /\ executed.opened = {e}
  BY <1>7, <1>8, <1>9 DEF Sound
<1>11. run.fresh # {} => Sound(planned) /\ planned.opened = {}
  BY <1>1, <1>4 DEF Sound
<1> QED BY <1>7, <1>g, <1>10, <1>11 DEF executed, planned

LEMMA InitHolds == Init => Inv /\ Trade!Init
<1> SUFFICES ASSUME Init PROVE Inv /\ Trade!Init
  OBVIOUS
<1>1. \A type, e : ~ Has(ledger, type, e)
  BY DEF Init, Has, RowsOf, Of
<1>2. Trade!Init
  BY <1>1 DEF Trade!Init, FateOf, Status
<1>3. Inv
  BY <1>1 DEF Init, Idle, Inv, TypeOK, OneWriter, OneFate, OpenedIsExecuted, FreshIsActive
<1> QED BY <1>2, <1>3

LEMMA StepHolds == Inv /\ [Next]_vars => Inv' /\ (Trade!Next \/ fate' = fate)
<1> SUFFICES ASSUME Inv, [Next]_vars PROVE Inv' /\ (Trade!Next \/ fate' = fate)
  OBVIOUS
<1>r. run.active => run.rows = ledger
  BY DEF Inv, OneWriter
<1>1. CASE Start
  <2>1. /\ ledger' = ledger
        /\ \E feed, exact : \E plans \in SUBSET Events :
              run' = [active |-> TRUE, asOf |-> today, exact |-> exact, feed |-> feed,
                      rows |-> ledger, fresh |-> plans, visited |-> {}, failed |-> {},
                      opened |-> {}]
    <3>1. PICK feed \in [Events -> Feeds], exact \in BOOLEAN :
              run' = [Idle EXCEPT !.active = TRUE, !.asOf = today, !.exact = exact,
                                  !.feed = feed, !.rows = ledger,
                                  !.fresh = {e \in NewEvents(feed) : Plannable(e, feed, exact)}]
      BY <1>1, Zenon DEF Start
    <3>2. {e \in NewEvents(feed) : Plannable(e, feed, exact)} \in SUBSET Events
      BY DEF NewEvents
    <3> QED BY <1>1, <3>1, <3>2 DEF Start, Idle
  <2>2. Sound(run') /\ run'.opened = {}
    BY <2>1 DEF Sound
  <2> QED BY <2>1, <2>2, QuietStep
<1>2. CASE CreatePlan
  <2>1. PICK e \in run.fresh : AppendEvent(PlanRow(e), [run EXCEPT !.fresh = @ \ {e}])
    BY <1>2 DEF CreatePlan
  <2>2. e \in Events /\ run.active /\ run.fresh # {}
    BY DEF Inv, TypeOK, FreshIsActive
  <2>3. Fits(PlanRow(e))
    BY <2>2 DEF Fits, PlanRow, Gets
  <2> QED BY <2>1, <2>2, <2>3, VisitedIsSound, AppendKeepsInv
<1>3. CASE AdvancePending
  <2>1. PICK e \in Pending :
            \/ run' \in {Visited(e), Failed(e)} /\ ledger' = ledger
            \/ \E o : AppendEvent(SkippedRow(e, o), Visited(e))
            \/ \E o : AppendEvent(ExecutedRow(e, o), [Visited(e) EXCEPT !.opened = {e}])
    BY <1>3 DEF AdvancePending
  <2>2. e \in Events /\ run.active /\ run.fresh = {} /\ Status(ledger, e) = "PLAN"
    BY <1>r DEF Pending
  <2>3. CASE run' \in {Visited(e), Failed(e)} /\ ledger' = ledger
    BY <2>2, <2>3, VisitedIsSound, QuietStep
  <2>4. ASSUME NEW o, AppendEvent(SkippedRow(e, o), Visited(e))
        PROVE  Inv' /\ (Trade!Next \/ fate' = fate)
    <3>1. Fits(SkippedRow(e, o))
      BY <2>2 DEF Fits, SkippedRow, Gets
    <3> QED BY <2>2, <2>4, <3>1, VisitedIsSound, AppendKeepsInv
  <2>5. ASSUME NEW o, AppendEvent(ExecutedRow(e, o), [Visited(e) EXCEPT !.opened = {e}])
        PROVE  Inv' /\ (Trade!Next \/ fate' = fate)
    <3>1. Fits(ExecutedRow(e, o)) /\ Gets(ExecutedRow(e, o), e, "EXECUTED")
      BY <2>2 DEF Fits, ExecutedRow, Gets
    <3> QED BY <2>2, <2>5, <3>1, VisitedIsSound, AppendKeepsInv
  <2> QED BY <2>1, <2>3, <2>4, <2>5
<1>4. CASE AdvanceOpen
  <2>1. PICK e \in Open :
            \/ run' \in {Visited(e), Failed(e)} /\ ledger' = ledger
            \/ AppendEvent(ClosedRow(e, ReplayedExit(e)), Visited(e))
    BY <1>4 DEF AdvanceOpen
  <2>2. e \in Events /\ run.active /\ Has(ledger, "EXECUTED", e)
    <3>1. CASE run.opened # {}
      BY <3>1 DEF Open, Inv, TypeOK, OpenedIsExecuted
    <3>2. CASE run.opened = {}
      BY <3>2, <1>r DEF Open, Status
    <3> QED BY <3>1, <3>2
  <2>3. CASE run' \in {Visited(e), Failed(e)} /\ ledger' = ledger
    BY <2>2, <2>3, VisitedIsSound, QuietStep
  <2>4. CASE AppendEvent(ClosedRow(e, ReplayedExit(e)), Visited(e))
    <3>1. Fits(ClosedRow(e, ReplayedExit(e)))
      BY <2>2 DEF Fits, ClosedRow, Gets
    <3> QED BY <2>2, <2>4, <3>1, VisitedIsSound, AppendKeepsInv
  <2> QED BY <2>1, <2>3, <2>4
<1>5. CASE RecordCoverage
  <2>1. CASE run' = Idle /\ ledger' = ledger
    BY <2>1, IdleIsSound, QuietStep
  <2>2. CASE \E e \in Present : AppendEvent(Assessed(e), Idle)
    <3>1. PICK e \in Present : AppendEvent(Assessed(e), Idle)
      BY <2>2
    <3>2. Fits(Assessed(e))
      BY DEF Fits, Assessed, CoverageRow
    <3>3. run.active
      BY <1>5 DEF RecordCoverage
    <3> QED BY <3>1, <3>2, <3>3, IdleIsSound, AppendKeepsInv
  <2> QED BY <1>5, <2>1, <2>2 DEF RecordCoverage
<1>6. CASE Die \/ NextSession
  <2>1. ledger' = ledger /\ (run' = Idle \/ run' = run)
    BY <1>6 DEF Die, NextSession
  <2> QED BY <2>1, IdleIsSound, RunIsSound, QuietStep
<1>7. CASE UNCHANGED vars
  <2>1. ledger' = ledger /\ run' = run
    BY <1>7 DEF vars
  <2> QED BY <2>1, RunIsSound, QuietStep
<1> QED BY <1>1, <1>2, <1>3, <1>4, <1>5, <1>6, <1>7 DEF Next

\* The worksheet never says two things of a trade, for any number of events,
\* sessions and runs: the ledger implements the abstract paper trade
\* (PaperLifecycleEngine over an append-only store).
THEOREM LedgerImplementsPaperTrade == Spec => ImplementsPaperTrade
<1>1. fate = [e \in Events |-> FateOf(e)]
  BY DEF fate
<1>2. Inv /\ [Next]_vars => [Trade!Next]_([e \in Events |-> FateOf(e)])
  BY StepHolds DEF fate
<1> QED BY InitHolds, StepHolds, <1>2, PTL DEF Spec, ImplementsPaperTrade, Trade!Spec

-----------------------------------------------------------------------------
(* The bars of a path, and the replay of a longer history.                    *)

\* The bars are taken from the path session by session.
LEMMA TradedRun ==
    ASSUME NEW p \in Seq(Bar)
    PROVE  /\ Traded(p)[0] = <<>>
           /\ \A k \in 1..Len(p) : Traded(p)[k] = Taken(Traded(p)[k - 1], p[k])
           /\ \A k \in 0..Len(p) : Traded(p)[k] \in Seq(Bar)
<1> DEFINE n == Len(p)
           turn == [k \in 1..n |-> [t \in Seq(Bar) |-> Taken(t, p[k])]]
           Follows(f) == f = [k \in 0..n |-> IF k = 0 THEN <<>>
                                             ELSE Taken(f[k - 1], p[k])]
<1>1. n \in Nat /\ <<>> \in Seq(Bar) /\ \A k \in 1..n : p[k] \in Bar
  OBVIOUS
<1>2. \A k \in 1..n : \A t \in Seq(Bar) : Taken(t, p[k]) \in Seq(Bar)
  BY <1>1 DEF Taken
<1>3. /\ turn \in [1..n -> [Seq(Bar) -> Seq(Bar)]]
      /\ \A k \in 1..n : \A t \in Seq(Bar) : turn[k][t] = Taken(t, p[k])
  BY <1>2
<1> HIDE DEF turn
<1>4. PICK f \in [0..n -> Seq(Bar)] : f[0] = <<>> /\ \A k \in 1..n : f[k] = turn[k][f[k - 1]]
  <2>1. \E f \in [0..n -> Seq(Bar)] : IsRun(f, n, <<>>, turn)
    <3> HIDE DEF n
    <3> QED BY <1>1, <1>3, LoopRuns
  <2> QED BY <2>1 DEF IsRun
<1>5. Follows(f)
  <2>1. \A k \in 1..n : f[k - 1] \in Seq(Bar)
    BY <1>1
  <2>2. \A k \in 1..n : f[k] = Taken(f[k - 1], p[k])
    BY <1>3, <1>4, <2>1
  <2>3. \A k \in 0..n : f[k] = IF k = 0 THEN <<>> ELSE Taken(f[k - 1], p[k])
    BY <1>1, <1>4, <2>2
  <2> QED BY <2>3
<1> DEFINE h == Traded(p)
<1>6. Follows(h)
  BY <1>5 DEF Traded
<1> HIDE DEF h, n
<1>7. h[0] = <<>> /\ \A k \in 1..n : h[k] = Taken(h[k - 1], p[k])
  BY <1>1, <1>6
<1>8. \A k \in 0..n : h[k] \in Seq(Bar)
  <2> DEFINE Q == Seq(Bar)
             G == {k \in 0..n : h[k] \in Q}
  <2>0. h[0] \in Q /\ \A k \in 1..n : \A t \in Q : Taken(t, p[k]) \in Q
    BY <1>1, <1>2, <1>7
  <2> HIDE DEF Q
  <2>1. G \in SUBSET (0..n) /\ 0 \in G
    BY <1>1, <2>0
  <2>2. \A m \in 1..n : m - 1 \in G => m \in G
    BY <1>1, <2>0, <1>7
  <2>3. \A m \in 0..n : m \in G
    <3> HIDE DEF G
    <3> QED BY <1>1, <2>1, <2>2, Induction
  <2> QED BY <2>3 DEF Q
<1> QED BY <1>7, <1>8 DEF n, h

\* They are the bars of the sessions that have one.
LEMMA TradedBars ==
    ASSUME NEW p \in Seq(Bar), NEW s \in 0..Len(p)
    PROVE  \A b : b \in ToSet(Traded(p)[s]) <=> b # NoBar /\ \E j \in 1..s : p[j] = b
<1> DEFINE n == Len(p)
           t == Traded(p)
           G == {k \in 0..n : \A b : b \in ToSet(t[k]) <=> b # NoBar /\ \E j \in 1..k : p[j] = b}
<1>1. n \in Nat /\ \A j \in 1..n : p[j] \in Bar
  OBVIOUS
<1>2. /\ t[0] = <<>> /\ \A k \in 1..n : t[k] = Taken(t[k - 1], p[k])
      /\ \A k \in 0..n : t[k] \in Seq(Bar)
  BY TradedRun
<1> HIDE DEF t, n
<1>3. G \in SUBSET (0..n) /\ 0 \in G
  BY <1>1, <1>2 DEF ToSet
<1>4. ASSUME NEW m \in 1..n, m - 1 \in G PROVE m \in G
  <2>1. /\ m - 1 \in 0..n /\ m \in 0..n /\ t[m - 1] \in Seq(Bar) /\ p[m] \in Bar
        /\ 1..m = 1..(m - 1) \cup {m} /\ t[m] = Taken(t[m - 1], p[m])
    BY <1>1, <1>2
  <2>2. \A b : b \in ToSet(t[m - 1]) <=> b # NoBar /\ \E j \in 1..(m - 1) : p[j] = b
    BY <1>4
  <2>3. CASE p[m] = NoBar
    BY <2>1, <2>2, <2>3 DEF Taken
  <2>4. CASE p[m] # NoBar
    <3> DEFINE a == t[m - 1]
               x == p[m]
    <3>1. a \in Seq(Bar) /\ x \in Bar
      BY <2>1
    <3> HIDE DEF a, x
    <3>2. \A b : b \in ToSet(Append(a, x)) <=> b \in ToSet(a) \/ b = x
      <4>1. /\ DOMAIN Append(a, x) = DOMAIN a \cup {Len(a) + 1}
            /\ \A i \in DOMAIN a : Append(a, x)[i] = a[i]
            /\ Append(a, x)[Len(a) + 1] = x
        BY <3>1
      <4> QED BY <4>1 DEF ToSet
    <3>3. t[m] = Append(a, x)
      BY <2>1, <2>4 DEF Taken, a, x
    <3> QED BY <2>1, <2>2, <2>4, <3>2, <3>3 DEF a, x
  <2> QED BY <2>3, <2>4
<1>5. \A m \in 0..n : m \in G
  <2> HIDE DEF G
  <2> QED BY <1>1, <1>3, <1>4, Induction
<1> QED BY <1>5 DEF n, t

\* More sessions only add bars.
LEMMA TradedGrows ==
    ASSUME NEW p \in Seq(Bar), NEW s \in 0..Len(p)
    PROVE  LET a == Traded(p)[s]
               b == Traded(p)[Len(p)]
           IN  a \in Seq(Bar) /\ b \in Seq(Bar) /\ AgreeUpTo(Len(a), a, b)
<1> DEFINE n == Len(p)
           m == n - s
           t == Traded(p)
           a == t[s]
           G == {d \in 0..m : AgreeUpTo(Len(a), a, t[s + d])}
<1>1. n \in Nat /\ m \in Nat /\ s \in 0..n /\ s + m = n
  OBVIOUS
<1>2. /\ \A k \in 1..n : t[k] = Taken(t[k - 1], p[k])
      /\ \A k \in 0..n : t[k] \in Seq(Bar)
      /\ \A k \in 1..n : p[k] \in Bar
  BY TradedRun
<1> HIDE DEF t, n, m
<1>3. a \in Seq(Bar) /\ Len(a) \in Nat
  BY <1>1, <1>2
<1>4. G \in SUBSET (0..m) /\ 0 \in G
  <2>1. s + 0 = s /\ 0 \in 0..m
    BY <1>1
  <2> HIDE DEF a
  <2>2. AgreeUpTo(Len(a), a, t[s])
    BY <1>3 DEF AgreeUpTo, a
  <2> QED BY <2>1, <2>2
<1>5. ASSUME NEW d \in 1..m, d - 1 \in G PROVE d \in G
  <2> DEFINE i == s + d
             u == t[i - 1]
             v == t[i]
  <2>1. i \in 1..n /\ i - 1 \in 0..n /\ i - 1 = s + (d - 1) /\ d \in 0..m
    BY <1>1
  <2>2. u \in Seq(Bar) /\ v = Taken(u, p[i]) /\ p[i] \in Bar
    BY <1>2, <2>1
  <2> HIDE DEF i
  <2>3. AgreeUpTo(Len(a), a, u)
    BY <1>5, <2>1
  <2> HIDE DEF a, u, v
  <2>4. /\ Len(u) <= Len(v) /\ Len(v) \in Nat /\ Len(u) \in Nat
        /\ \A k \in 1..Len(u) : v[k] = u[k]
    BY <2>2 DEF Taken
  <2>5. AgreeUpTo(Len(a), a, v)
    BY <1>3, <2>3, <2>4 DEF AgreeUpTo
  <2> QED BY <2>1, <2>5 DEF i, v
<1>6. \A d \in 0..m : d \in G
  <2> HIDE DEF G
  <2> QED BY <1>1, <1>4, <1>5, Induction
<1>7. m \in 0..m /\ n \in 0..n
  BY <1>1
<1>8. AgreeUpTo(Len(a), a, t[s + m])
  BY <1>6, <1>7
<1> QED BY <1>1, <1>2, <1>3, <1>7, <1>8 DEF n, t

\* An exit that a replay has found is found by every longer one.
LEMMA ExitStands ==
    ASSUME NEW o \in SoundOrigin, NEW a \in Seq(Bar), NEW b \in Seq(Bar),
           AgreeUpTo(Len(a), a, b), Replay(o, a).exit # NoExit
    PROVE  Replay(o, b).exit = Replay(o, a).exit
<1> DEFINE n == Len(a)
           m == Len(b) - n
           w == FindSwings(b)
           q == Replay(o, a)
           t == Played(o, b, w)
           G == {d \in 0..m : t[n + d] = q}
<1>1. n \in Nat /\ m \in Nat /\ n + m = Len(b)
  BY DEF AgreeUpTo
<1>2. \A k \in 1..Len(b) : t[k] = Turn(o, b, w, t[k - 1], k)
  BY ReplayRun
<1>3. t[n] = q
  <2>1. \A j \in 0..n : Confirmed(w, j) = Confirmed(FindSwings(a), j)
    BY LongerSeries
  <2>2. \A j \in 1..n : j \in 0..n
    BY <1>1
  <2>3. \A j \in 1..n : ConfirmedBy(FindSwings(a), j) = ConfirmedBy(w, j)
    BY <2>1, <2>2 DEF ConfirmedBy
  <2>4. n \in 0..n
    BY <1>1
  <2> HIDE DEF w
  <2>5. \A j \in 0..n : Played(o, a, FindSwings(a))[j] = Played(o, b, w)[j]
    BY <1>1, <2>3, ReplaysArePrefixes
  <2> QED BY <2>4, <2>5 DEF Replay
<1>4. q.exit # NoExit
  OBVIOUS
<1> HIDE DEF n, m, q, t
<1>5. G \in SUBSET (0..m) /\ 0 \in G
  <2>1. n + 0 = n /\ 0 \in 0..m
    BY <1>1
  <2> QED BY <1>3, <2>1
<1>6. ASSUME NEW d \in 1..m, d - 1 \in G PROVE d \in G
  <2> DEFINE i == n + d
  <2>1. i \in 1..Len(b) /\ i - 1 = n + (d - 1) /\ d \in 0..m
    BY <1>1
  <2> HIDE DEF i
  <2>2. t[i - 1] = q /\ t[i] = Turn(o, b, w, t[i - 1], i)
    BY <1>2, <1>6, <2>1
  <2>3. t[i] = q
    BY <1>4, <2>2 DEF Turn, Day
  <2> QED BY <2>1, <2>3 DEF i
<1>7. \A d \in 0..m : d \in G
  <2> HIDE DEF G
  <2> QED BY <1>1, <1>5, <1>6, Induction
<1>8. t[n + m] = q
  <2>1. m \in 0..m
    BY <1>1
  <2> QED BY <1>7, <2>1
<1>9. Replay(o, b) = q
  BY <1>1, <1>8 DEF Replay, t
<1> QED BY <1>9 DEF q

-----------------------------------------------------------------------------
(* What the rows say is so: the facts of the worksheet are those of the path. *)

EntryOf(e) == path[e][SignalDay[e] + 1]

\* What an execution of the event freezes, whenever it is found.
OriginOf(e) ==
    [day |-> SignalDay[e] + 1, entry |-> EntryOf(e).open, stop |-> Decision.stop,
     floor |-> Decision.floor, low2 |-> Decision.floor]

RowIsTrue(r) ==
    /\ r.type = "PLAN" => r.event \in Events /\ r.expected = SignalDay[r.event] + 1
    /\ r.type = "EXECUTED" =>
          /\ r.event \in Events /\ SignalDay[r.event] + 1 \in Sessions
          /\ EntryOf(r.event) # NoBar /\ OpenOutcome(EntryOf(r.event).open) = "EXECUTED"
          /\ r.origin = OriginOf(r.event)
    /\ r.type = "CLOSED" =>
          /\ r.event \in Events
          /\ r.exit = Replay(OriginOf(r.event), Bars(r.event, LastSession)).exit

RowsAreTrue == \A r \in ledger : RowIsTrue(r)

\* The world that the rows speak of, and what a run has seen of it.
WorldOK ==
    /\ path \in [Events -> Paths]
    /\ today \in Sessions
    /\ run.active => run.asOf \in Sessions /\ run.feed \in [Events -> Feeds]

TrueInv == WorldOK /\ RowsAreTrue

\* What a provider may show is a part of the true path.
LEMMA PathsAreBars ==
    ASSUME WorldOK, NEW e \in Events
    PROVE  /\ path[e] \in Seq(Bar) /\ Len(path[e]) = LastSession /\ LastSession \in Nat
           /\ \A s \in Sessions : path[e][s] = NoBar \/ path[e][s].day = s
<1>1. path[e] \in Paths
  BY DEF WorldOK
<1> QED BY <1>1, PaperAssumption

LEMMA HistoriesAreBars ==
    ASSUME WorldOK, run.active, NEW e \in Events
    PROVE  /\ History(e) \in Seq(Bar)
           /\ AgreeUpTo(Len(History(e)), History(e), Bars(e, LastSession))
           /\ Bars(e, LastSession) \in Seq(Bar)
           /\ \A b \in ToSet(History(e)) : b # NoBar /\ \E j \in 1..run.asOf : path[e][j] = b
           /\ run.feed[e] = "ok" => History(e) = Bars(e, run.asOf)
<1> DEFINE p == path[e]
<1>1. p \in Seq(Bar) /\ Len(p) = LastSession /\ LastSession \in Nat
  BY PathsAreBars
<1>2. run.asOf \in 1..LastSession
  BY DEF WorldOK, Sessions
<1>3. run.asOf \in 0..Len(p) /\ run.asOf - 1 \in 0..Len(p) /\ 0 \in 0..Len(p)
  BY <1>1, <1>2
<1>4. PICK s \in 0..run.asOf : s \in 0..Len(p) /\ History(e) = Traded(p)[s]
  <2>1. CASE run.feed[e] = "ok"
    <3>1. History(e) = Traded(p)[run.asOf]
      BY <2>1, Zenon DEF History, Bars
    <3> QED BY <1>2, <1>3, <3>1
  <2>2. CASE run.feed[e] = "stale"
    <3>1. History(e) = Traded(p)[run.asOf - 1]
      BY <2>2 DEF History, Bars
    <3>2. run.asOf - 1 \in 0..run.asOf
      BY <1>2
    <3> QED BY <1>3, <3>1, <3>2
  <2>3. CASE run.feed[e] # "ok" /\ run.feed[e] # "stale"
    <3>1. History(e) = <<>>
      BY <2>3 DEF History
    <3>2. Traded(p)[0] = <<>>
      BY <1>1, TradedRun
    <3>3. 0 \in 0..run.asOf
      BY <1>2
    <3> QED BY <1>3, <3>1, <3>2, <3>3
  <2> QED BY <2>1, <2>2, <2>3
<1>5. /\ Traded(p)[s] \in Seq(Bar) /\ Traded(p)[Len(p)] \in Seq(Bar)
      /\ AgreeUpTo(Len(Traded(p)[s]), Traded(p)[s], Traded(p)[Len(p)])
  BY <1>1, <1>4, TradedGrows
<1>6. \A b \in ToSet(Traded(p)[s]) : b # NoBar /\ \E j \in 1..s : p[j] = b
  BY <1>1, <1>4, TradedBars
<1>7. 1..s \subseteq 1..run.asOf
  BY <1>2
<1>8. run.feed[e] = "ok" => History(e) = Bars(e, run.asOf)
  BY Zenon DEF History
<1> QED BY <1>1, <1>4, <1>5, <1>6, <1>7, <1>8 DEF Bars

\* The open that executes a plan is the one of the session after the signal.
LEMMA ExecutionIsTrue ==
    ASSUME WorldOK, run.active, NEW e \in Events, NEW expected, expected = SignalDay[e] + 1,
           ExecuteT1Open(History(e), expected).outcome = "EXECUTED"
    PROVE  /\ SignalDay[e] + 1 \in Sessions /\ EntryOf(e) # NoBar
           /\ OpenOutcome(EntryOf(e).open) = "EXECUTED"
           /\ ExecuteT1Open(History(e), expected).origin = OriginOf(e)
<1> DEFINE matches == ExpectedBars(History(e), expected)
           bar == The(matches)
<1>1. matches # {}
  BY DEF ExecuteT1Open
<1>2. bar \in matches
  BY <1>1, Zenon DEF The
<1>3. bar \in ToSet(History(e)) /\ bar.day = expected
  BY <1>2 DEF ExpectedBars
<1>4. PICK j \in 1..run.asOf : path[e][j] = bar /\ bar # NoBar
  BY <1>3, HistoriesAreBars
<1>5. j \in Sessions
  BY <1>4, PaperAssumption DEF WorldOK, Sessions
<1>6. bar.day = j
  BY <1>4, <1>5, PathsAreBars
<1>7. j = SignalDay[e] + 1 /\ EntryOf(e) = bar
  BY <1>3, <1>4, <1>6 DEF EntryOf
<1> HIDE DEF matches, bar
<1>8. ExecuteT1Open(History(e), expected)
        = [outcome |-> OpenOutcome(bar.open),
           origin |-> [day |-> bar.day, entry |-> bar.open, stop |-> Decision.stop,
                       floor |-> Decision.floor, low2 |-> Decision.floor]]
  BY <1>1 DEF ExecuteT1Open, matches, bar
<1> QED BY <1>3, <1>4, <1>5, <1>7, <1>8 DEF OriginOf

\* What was executed has the geometry of a position.
LEMMA ExecutedOrigin ==
    ASSUME WorldOK, NEW e \in Events, SignalDay[e] + 1 \in Sessions,
           OpenOutcome(EntryOf(e).open) = "EXECUTED"
    PROVE  OriginOf(e) \in SoundOrigin
<1>1. EntryOf(e).open \in Nat
  <2>1. path[e] \in Seq(Bar) /\ SignalDay[e] + 1 \in 1..Len(path[e])
    BY PathsAreBars DEF Sessions
  <2>2. EntryOf(e) \in Bar
    BY <2>1 DEF EntryOf
  <2> QED BY <2>2 DEF Bar
<1>2. ~ EntryOf(e).open <= Decision.floor
  BY DEF OpenOutcome
<1>3. /\ Decision.floor \in Nat /\ Decision.stop \in Nat /\ Decision.stop <= Decision.floor
      /\ SignalDay[e] + 1 \in Nat
  BY PaperAssumption DEF Sessions
<1>4. OriginOf(e) \in Origin
  BY <1>1, <1>3 DEF OriginOf, Origin
<1>5. Geometry(OriginOf(e))
  BY <1>1, <1>2, <1>3 DEF OriginOf, Geometry
<1> QED BY <1>4, <1>5 DEF SoundOrigin

\* The origin of an executed trade is the one the path says.
LEMMA OriginRead ==
    ASSUME TrueInv, NEW e \in Events, Has(ledger, "EXECUTED", e)
    PROVE  /\ The(RowsOf(ledger, "EXECUTED", e)).origin = OriginOf(e)
           /\ OriginOf(e) \in SoundOrigin
           /\ \A x \in RowsOf(ledger, "EXECUTED", e) : x.origin = OriginOf(e)
<1> DEFINE S == RowsOf(ledger, "EXECUTED", e)
<1>1. The(S) \in S
  BY Zenon DEF Has, The
<1>2. \A x \in S : /\ x.origin = OriginOf(e) /\ SignalDay[e] + 1 \in Sessions
                   /\ OpenOutcome(EntryOf(e).open) = "EXECUTED"
  BY DEF RowsOf, Of, TrueInv, RowsAreTrue, RowIsTrue
<1>3. OriginOf(e) \in SoundOrigin
  BY <1>1, <1>2, ExecutedOrigin DEF TrueInv
<1> QED BY <1>1, <1>2, <1>3

\* A close is recorded with the exit of the whole path.
LEMMA CloseIsTrue ==
    ASSUME Inv, TrueInv, run.active, NEW e \in Events, Has(ledger, "EXECUTED", e),
           ReplayedExit(e) # NoExit
    PROVE  ReplayedExit(e) = Replay(OriginOf(e), Bars(e, LastSession)).exit
<1>1. run.rows = ledger
  BY DEF Inv, OneWriter
<1>2. The(RowsOf(ledger, "EXECUTED", e)).origin = OriginOf(e) /\ OriginOf(e) \in SoundOrigin
  BY OriginRead
<1>3. ReplayedExit(e) = Replay(OriginOf(e), History(e)).exit
  BY <1>1, <1>2 DEF ReplayedExit
<1>4. /\ History(e) \in Seq(Bar) /\ Bars(e, LastSession) \in Seq(Bar)
      /\ AgreeUpTo(Len(History(e)), History(e), Bars(e, LastSession))
  BY HistoriesAreBars DEF TrueInv
<1> QED BY <1>2, <1>3, <1>4, ExitStands

\* The expected session that a plan names.
LEMMA PlanRead ==
    ASSUME TrueInv, NEW e \in Events, Has(ledger, "PLAN", e)
    PROVE  The(RowsOf(ledger, "PLAN", e)).expected = SignalDay[e] + 1
<1> DEFINE S == RowsOf(ledger, "PLAN", e)
<1>1. The(S) \in S
  BY Zenon DEF Has, The
<1>2. \A x \in S : x.expected = SignalDay[e] + 1
  BY DEF RowsOf, Of, TrueInv, RowsAreTrue, RowIsTrue
<1> QED BY <1>1, <1>2

-----------------------------------------------------------------------------
(* What a step leaves of the run.                                             *)

IsRecord(r) ==
    r = [active |-> r.active, asOf |-> r.asOf, exact |-> r.exact, feed |-> r.feed,
         rows |-> r.rows, fresh |-> r.fresh, visited |-> r.visited, failed |-> r.failed,
         opened |-> r.opened]

\* The same run, with other work done.
SamePass(r, q) ==
    r.active = q.active /\ r.asOf = q.asOf /\ r.exact = q.exact /\ r.feed = q.feed

SameWork(r, q) ==
    r.fresh = q.fresh /\ r.visited = q.visited /\ r.failed = q.failed /\ r.opened = q.opened

LEMMA TurnLeaves ==
    ASSUME IsRecord(run), NEW e
    PROVE  LET executed == [Visited(e) EXCEPT !.opened = {e}]
               planned == [run EXCEPT !.fresh = @ \ {e}]
           IN  /\ IsRecord(Visited(e)) /\ SamePass(Visited(e), run)
               /\ Visited(e).fresh = run.fresh /\ Visited(e).visited = run.visited \cup {e}
               /\ Visited(e).failed = run.failed /\ Visited(e).opened = {}
               /\ IsRecord(Failed(e)) /\ SamePass(Failed(e), run)
               /\ Failed(e).fresh = run.fresh /\ Failed(e).visited = run.visited \cup {e}
               /\ Failed(e).failed = run.failed \cup {e} /\ Failed(e).opened = {}
               /\ IsRecord(executed) /\ SamePass(executed, run)
               /\ executed.fresh = run.fresh /\ executed.visited = run.visited \cup {e}
               /\ executed.failed = run.failed /\ executed.opened = {e}
               /\ IsRecord(planned) /\ SamePass(planned, run)
               /\ planned.fresh = run.fresh \ {e} /\ planned.visited = run.visited
               /\ planned.failed = run.failed /\ planned.opened = run.opened
<1> DEFINE met == [run EXCEPT !.visited = @ \cup {e}]
           executed == [Visited(e) EXCEPT !.opened = {e}]
           planned == [run EXCEPT !.fresh = @ \ {e}]
<1>1. met = [active |-> run.active, asOf |-> run.asOf, exact |-> run.exact, feed |-> run.feed,
             rows |-> run.rows, fresh |-> run.fresh, visited |-> run.visited \cup {e},
             failed |-> run.failed, opened |-> run.opened]
  BY WithVisited, Zenon DEF IsRecord
<1>2. Visited(e) = [met EXCEPT !.opened = {}]
  BY DEF Visited
<1>3. planned = [active |-> run.active, asOf |-> run.asOf, exact |-> run.exact,
                 feed |-> run.feed, rows |-> run.rows, fresh |-> run.fresh \ {e},
                 visited |-> run.visited, failed |-> run.failed, opened |-> run.opened]
  BY WithFresh, Zenon DEF IsRecord
<1> HIDE DEF met
<1>4. IsRecord(met)
  BY <1>1 DEF IsRecord
<1>5. Visited(e) = [active |-> met.active, asOf |-> met.asOf, exact |-> met.exact,
                    feed |-> met.feed, rows |-> met.rows, fresh |-> met.fresh,
                    visited |-> met.visited, failed |-> met.failed, opened |-> {}]
  BY <1>2, <1>4, WithOpened, Zenon DEF IsRecord
<1>6. IsRecord(Visited(e))
  BY <1>5 DEF IsRecord
<1>7. executed = [active |-> Visited(e).active, asOf |-> Visited(e).asOf,
                  exact |-> Visited(e).exact, feed |-> Visited(e).feed,
                  rows |-> Visited(e).rows, fresh |-> Visited(e).fresh,
                  visited |-> Visited(e).visited, failed |-> Visited(e).failed,
                  opened |-> {e}]
  BY <1>6, WithOpened, Zenon DEF IsRecord
<1>f. Failed(e) = [active |-> Visited(e).active, asOf |-> Visited(e).asOf,
                    exact |-> Visited(e).exact, feed |-> Visited(e).feed,
                    rows |-> Visited(e).rows, fresh |-> Visited(e).fresh,
                    visited |-> Visited(e).visited, failed |-> Visited(e).failed \cup {e},
                    opened |-> Visited(e).opened]
  BY <1>6, WithFailed, Zenon DEF IsRecord, Failed
<1> HIDE DEF executed, planned
<1>8. /\ SamePass(Visited(e), run) /\ Visited(e).fresh = run.fresh
      /\ Visited(e).visited = run.visited \cup {e} /\ Visited(e).opened = {}
      /\ Visited(e).failed = run.failed
  BY <1>1, <1>5 DEF SamePass
<1>9. /\ IsRecord(executed) /\ SamePass(executed, run) /\ executed.fresh = run.fresh
      /\ executed.visited = run.visited \cup {e} /\ executed.opened = {e}
      /\ executed.failed = run.failed
  BY <1>7, <1>8 DEF IsRecord, SamePass
<1>g. /\ IsRecord(Failed(e)) /\ SamePass(Failed(e), run) /\ Failed(e).fresh = run.fresh
      /\ Failed(e).visited = run.visited \cup {e} /\ Failed(e).opened = {}
      /\ Failed(e).failed = run.failed \cup {e}
  BY <1>f, <1>8 DEF IsRecord, SamePass
<1>10. /\ IsRecord(planned) /\ SamePass(planned, run) /\ planned.fresh = run.fresh \ {e}
       /\ planned.visited = run.visited /\ planned.opened = run.opened
       /\ planned.failed = run.failed
  BY <1>3 DEF IsRecord, SamePass
<1> QED BY <1>6, <1>8, <1>g, <1>9, <1>10 DEF executed, planned

\* A turn of a trade that needs nothing yet, and one that ends in an error.
PassedOver(e) ==
    \/ e \in Pending /\ Waits(e)
    \/ e \in Open /\ Replayable(e) /\ ReplayedExit(e) = NoExit

Quiet(e) ==
    \/ PassedOver(e) /\ run' = Visited(e)
    \/ e \in Pending \cup Open /\ run' = Failed(e)

LEMMA QuietLeaves ==
    ASSUME IsRecord(run), NEW e, Quiet(e)
    PROVE  /\ SamePass(run', run) /\ run'.fresh = run.fresh
           /\ run'.visited = run.visited \cup {e} /\ run'.opened = {}
           /\ run.failed \subseteq run'.failed
<1>1. CASE run' = Visited(e)
  <2>1. /\ SamePass(Visited(e), run) /\ Visited(e).fresh = run.fresh
        /\ Visited(e).visited = run.visited \cup {e}
        /\ Visited(e).failed = run.failed /\ Visited(e).opened = {}
    BY TurnLeaves
  <2> QED BY <1>1, <2>1
<1>2. CASE run' = Failed(e)
  <2>1. /\ SamePass(Failed(e), run) /\ Failed(e).fresh = run.fresh
        /\ Failed(e).visited = run.visited \cup {e}
        /\ Failed(e).failed = run.failed \cup {e} /\ Failed(e).opened = {}
    BY TurnLeaves
  <2> QED BY <1>2, <2>1
<1> QED BY <1>1, <1>2 DEF Quiet

\* An append ends the run, or leaves the work that was given to it.
LEMMA AppendLeaves ==
    ASSUME NEW row, NEW after, IsRecord(after), AppendEvent(row, after)
    PROVE  /\ run' = Idle \/ (SamePass(run', after) /\ SameWork(run', after))
           /\ ledger' = ledger \/ ledger' = ledger \cup {row}
           /\ run' # Idle => Known(run.rows, row) \/ row \in ledger'
<1>1. CASE run' = after /\ ledger' = ledger /\ Known(run.rows, row)
  BY <1>1 DEF SamePass, SameWork
<1>2. CASE run' = Noted(after, row) /\ ledger' = ledger \cup {row}
  <2>1. SamePass(run', after) /\ SameWork(run', after)
    BY <1>2 DEF Noted, IsRecord, SamePass, SameWork
  <2> QED BY <1>2, <2>1
<1>3. CASE run' = Idle /\ ledger' \in {ledger, ledger \cup {row}}
  BY <1>3
<1> QED BY <1>1, <1>2, <1>3 DEF AppendEvent, Broken

LEMMA IdleIsIdle == ~ Idle.active
  BY DEF Idle

-----------------------------------------------------------------------------
(* Every row that is written is true.                                         *)

\* A row and the run after it, as one of the steps appends them.
Written(row, after) ==
    \/ \E e \in run.fresh : row = PlanRow(e) /\ after = [run EXCEPT !.fresh = @ \ {e}]
    \/ \E e \in Pending : /\ Due(e)
                          /\ \/ /\ Execution(e).outcome # "EXECUTED" /\ after = Visited(e)
                                /\ row = SkippedRow(e, Execution(e).outcome)
                             \/ /\ Execution(e).outcome = "EXECUTED"
                                /\ row = ExecutedRow(e, Execution(e).origin)
                                /\ after = [Visited(e) EXCEPT !.opened = {e}]
    \/ \E e \in Open : /\ Replayable(e) /\ ReplayedExit(e) # NoExit
                       /\ row = ClosedRow(e, ReplayedExit(e)) /\ after = Visited(e)
    \/ \E e \in Present : /\ run.active /\ run.exact /\ ~ NotAfterPrior
                          /\ run.fresh = {} /\ Pending = {} /\ Open = {}
                          /\ row = Assessed(e) /\ after = Idle

\* What a step is.
LEMMA StepsOfARun ==
    ASSUME [Next]_vars
    PROVE  /\ path' = path
           /\ \/ \E row, after : Written(row, after) /\ AppendEvent(row, after) /\ today' = today
              \/ ledger' = ledger /\ today' = today /\ \E e : Quiet(e)
              \/ ledger' = ledger /\ today' = today /\ run' = Idle
              \/ Start
              \/ ledger' = ledger /\ run' = run /\ (today' = today \/ NextSession)
<1>1. CASE Start
  BY <1>1 DEF Start
<1>2. CASE CreatePlan
  BY <1>2 DEF CreatePlan, Written
<1>3. CASE AdvancePending
  <2>1. PICK e \in Pending :
          \/ Waits(e) /\ run' = Visited(e) /\ ledger' = ledger
          \/ run' = Failed(e) /\ ledger' = ledger
          \/ /\ Due(e) /\ Execution(e).outcome # "EXECUTED"
             /\ AppendEvent(SkippedRow(e, Execution(e).outcome), Visited(e))
          \/ /\ Due(e) /\ Execution(e).outcome = "EXECUTED"
             /\ AppendEvent(ExecutedRow(e, Execution(e).origin),
                            [Visited(e) EXCEPT !.opened = {e}])
    BY <1>3 DEF AdvancePending
  <2>2. path' = path /\ today' = today
    BY <1>3 DEF AdvancePending
  <2>3. CASE ((Waits(e) /\ run' = Visited(e)) \/ run' = Failed(e)) /\ ledger' = ledger
    BY <2>2, <2>3 DEF Quiet, PassedOver
  <2>4. CASE /\ Due(e) /\ Execution(e).outcome # "EXECUTED"
             /\ AppendEvent(SkippedRow(e, Execution(e).outcome), Visited(e))
    <3>1. Written(SkippedRow(e, Execution(e).outcome), Visited(e))
      BY <2>4 DEF Written
    <3> QED BY <2>2, <2>4, <3>1
  <2>5. CASE /\ Due(e) /\ Execution(e).outcome = "EXECUTED"
             /\ AppendEvent(ExecutedRow(e, Execution(e).origin),
                            [Visited(e) EXCEPT !.opened = {e}])
    <3>1. Written(ExecutedRow(e, Execution(e).origin), [Visited(e) EXCEPT !.opened = {e}])
      BY <2>5 DEF Written
    <3> QED BY <2>2, <2>5, <3>1
  <2> QED BY <2>1, <2>3, <2>4, <2>5
<1>4. CASE AdvanceOpen
  <2>1. PICK e \in Open :
          \/ /\ \/ Replayable(e) /\ ReplayedExit(e) = NoExit /\ run' = Visited(e)
                \/ run' = Failed(e)
             /\ ledger' = ledger
          \/ /\ Replayable(e) /\ ReplayedExit(e) # NoExit
             /\ AppendEvent(ClosedRow(e, ReplayedExit(e)), Visited(e))
    BY <1>4 DEF AdvanceOpen
  <2>2. path' = path /\ today' = today
    BY <1>4 DEF AdvanceOpen
  <2>3. CASE /\ \/ Replayable(e) /\ ReplayedExit(e) = NoExit /\ run' = Visited(e)
                \/ run' = Failed(e)
             /\ ledger' = ledger
    BY <2>2, <2>3 DEF Quiet, PassedOver
  <2>4. CASE /\ Replayable(e) /\ ReplayedExit(e) # NoExit
             /\ AppendEvent(ClosedRow(e, ReplayedExit(e)), Visited(e))
    <3>1. Written(ClosedRow(e, ReplayedExit(e)), Visited(e))
      BY <2>4 DEF Written
    <3> QED BY <2>2, <2>4, <3>1
  <2> QED BY <2>1, <2>3, <2>4
<1>5. CASE RecordCoverage
  BY <1>5 DEF RecordCoverage, Written
<1>6. CASE Die \/ NextSession
  BY <1>6 DEF Die, NextSession
<1>7. CASE UNCHANGED vars
  BY <1>7 DEF vars
<1> QED BY <1>1, <1>2, <1>3, <1>4, <1>5, <1>6, <1>7 DEF Next

\* What is true of the one who writes.
LEMMA WriterRuns ==
    ASSUME Inv, NEW row, NEW after, Written(row, after)
    PROVE  run.active /\ run.rows = ledger /\ IsRecord(after) /\ (after = Idle \/ SamePass(after, run))
<1>1. IsRecord(run)
  BY DEF Inv, TypeOK, IsRecord
<1>2. run.active
  <2>1. CASE run.fresh # {}
    BY <2>1 DEF Inv, FreshIsActive
  <2>2. CASE Pending # {}
    BY <2>2 DEF Pending
  <2>3. CASE Open # {}
    BY <2>3 DEF Open, Inv, OpenedIsExecuted
  <2> QED BY <2>1, <2>2, <2>3 DEF Written
<1>3. IsRecord(after) /\ (after = Idle \/ SamePass(after, run))
  <2>1. IsRecord(Idle)
    BY DEF IsRecord, Idle
  <2>2. \A e : /\ IsRecord(Visited(e)) /\ SamePass(Visited(e), run)
               /\ IsRecord([Visited(e) EXCEPT !.opened = {e}])
               /\ SamePass([Visited(e) EXCEPT !.opened = {e}], run)
               /\ IsRecord([run EXCEPT !.fresh = @ \ {e}])
               /\ SamePass([run EXCEPT !.fresh = @ \ {e}], run)
    BY <1>1, TurnLeaves
  <2>3. \/ \E e : after = Visited(e) \/ after = [Visited(e) EXCEPT !.opened = {e}]
                  \/ after = [run EXCEPT !.fresh = @ \ {e}]
        \/ after = Idle
    BY DEF Written
  <2> QED BY <2>1, <2>2, <2>3
<1> QED BY <1>2, <1>3 DEF Inv, OneWriter

LEMMA OpenIsExecuted ==
    ASSUME Inv, NEW e \in Open
    PROVE  e \in Events /\ Has(ledger, "EXECUTED", e) /\ run.active
<1>1. CASE run.opened # {}
  BY <1>1 DEF Open, Inv, TypeOK, OpenedIsExecuted
<1>2. CASE run.opened = {}
  BY <1>2 DEF Open, Status, Inv, OneWriter
<1> QED BY <1>1, <1>2

LEMMA WrittenIsTrue ==
    ASSUME Inv, TrueInv, NEW row, NEW after, Written(row, after)
    PROVE  RowIsTrue(row)
<1>0. run.active /\ run.rows = ledger
  BY WriterRuns
<1>1. ASSUME NEW e \in run.fresh, row = PlanRow(e) PROVE RowIsTrue(row)
  BY <1>1 DEF PlanRow, RowIsTrue, Inv, TypeOK
<1>2. ASSUME NEW e \in Pending, NEW x, row = SkippedRow(e, x) PROVE RowIsTrue(row)
  BY <1>2 DEF SkippedRow, RowIsTrue
<1>3. ASSUME NEW e \in Pending, Execution(e).outcome = "EXECUTED",
             row = ExecutedRow(e, Execution(e).origin)
      PROVE  RowIsTrue(row)
  <2>1. e \in Events /\ Has(ledger, "PLAN", e)
    BY <1>0 DEF Pending, Status
  <2>2. The(RowsOf(ledger, "PLAN", e)).expected = SignalDay[e] + 1
    BY <2>1, PlanRead
  <2> DEFINE expected == The(RowsOf(ledger, "PLAN", e)).expected
  <2>3. Execution(e) = ExecuteT1Open(History(e), expected)
    BY <1>0 DEF Execution, Expected
  <2> HIDE DEF expected
  <2>4. /\ SignalDay[e] + 1 \in Sessions /\ EntryOf(e) # NoBar
        /\ OpenOutcome(EntryOf(e).open) = "EXECUTED"
        /\ Execution(e).origin = OriginOf(e)
    BY <1>0, <1>3, <2>1, <2>2, <2>3, ExecutionIsTrue DEF expected, TrueInv
  <2> QED BY <1>3, <2>1, <2>4 DEF ExecutedRow, RowIsTrue
<1>4. ASSUME NEW e \in Open, ReplayedExit(e) # NoExit, row = ClosedRow(e, ReplayedExit(e))
      PROVE  RowIsTrue(row)
  <2>1. e \in Events /\ Has(ledger, "EXECUTED", e)
    BY OpenIsExecuted
  <2>2. ReplayedExit(e) = Replay(OriginOf(e), Bars(e, LastSession)).exit
    BY <1>0, <1>4, <2>1, CloseIsTrue
  <2> QED BY <1>4, <2>1, <2>2 DEF ClosedRow, RowIsTrue
<1>5. ASSUME NEW e, row = Assessed(e) PROVE RowIsTrue(row)
  <2>1. row.type = "COVERAGE"
    BY <1>5 DEF Assessed, CoverageRow
  <2> QED BY <2>1 DEF RowIsTrue
<1> QED BY <1>1, <1>2, <1>3, <1>4, <1>5 DEF Written

LEMMA TrueInit == Init => TrueInv
<1> SUFFICES ASSUME Init PROVE TrueInv
  OBVIOUS
<1>1. 1 \in Sessions
  BY PaperAssumption DEF Sessions
<1> QED BY <1>1, IdleIsIdle DEF Init, TrueInv, WorldOK, RowsAreTrue

LEMMA TrueStep == Inv /\ TrueInv /\ [Next]_vars => TrueInv'
<1> SUFFICES ASSUME Inv, TrueInv, [Next]_vars PROVE TrueInv'
  OBVIOUS
<1>1. path' = path
  BY StepsOfARun
<1>2. \A r : RowIsTrue(r)' <=> RowIsTrue(r)
  BY <1>1 DEF RowIsTrue, EntryOf, OriginOf, Bars
<1>3. \A r \in ledger : RowIsTrue(r)
  BY DEF TrueInv, RowsAreTrue
<1>4. IsRecord(run) /\ today \in Sessions
  BY DEF Inv, TypeOK, IsRecord, TrueInv, WorldOK
<1>5. ASSUME ledger' = ledger \/ (\E row : RowIsTrue(row) /\ ledger' = ledger \cup {row}),
             today' \in Sessions,
             ~ run'.active \/ SamePass(run', run) \/ Start
      PROVE  TrueInv'
  <2>1. RowsAreTrue'
    BY <1>2, <1>3, <1>5 DEF RowsAreTrue
  <2>2. run'.active => run'.asOf \in Sessions /\ run'.feed \in [Events -> Feeds]
    <3>1. CASE SamePass(run', run)
      BY <3>1 DEF SamePass, TrueInv, WorldOK
    <3>2. CASE Start
      <4>1. PICK feed \in [Events -> Feeds], exact \in BOOLEAN :
              run' = [Idle EXCEPT !.active = TRUE, !.asOf = today, !.exact = exact,
                                  !.feed = feed, !.rows = ledger,
                                  !.fresh = {e \in NewEvents(feed) : Plannable(e, feed, exact)}]
        BY <3>2, Zenon DEF Start
      <4>2. run'.asOf = today /\ run'.feed = feed
        BY <4>1 DEF Idle
      <4> QED BY <1>4, <4>2
    <3> QED BY <1>5, <3>1, <3>2
  <2>3. path' \in [Events -> Paths]
    BY <1>1 DEF TrueInv, WorldOK
  <2> QED BY <1>5, <2>1, <2>2, <2>3 DEF TrueInv, WorldOK
<1>6. ASSUME NEW row, NEW after, Written(row, after), AppendEvent(row, after), today' = today
      PROVE  TrueInv'
  <2>1. RowIsTrue(row)
    BY <1>6, WrittenIsTrue
  <2>2. IsRecord(after) /\ (after = Idle \/ SamePass(after, run))
    BY <1>6, WriterRuns
  <2>3. /\ run' = Idle \/ SamePass(run', after)
        /\ ledger' = ledger \/ ledger' = ledger \cup {row}
    BY <1>6, <2>2, AppendLeaves
  <2>4. ~ run'.active \/ SamePass(run', run)
    BY <2>2, <2>3, IdleIsIdle DEF SamePass
  <2> QED BY <1>4, <1>5, <1>6, <2>1, <2>3, <2>4
<1>7. ASSUME NEW e, ledger' = ledger, today' = today, Quiet(e)
      PROVE  TrueInv'
  <2>1. SamePass(run', run)
    BY <1>4, <1>7, QuietLeaves
  <2> QED BY <1>4, <1>5, <1>7, <2>1
<1>8. CASE ledger' = ledger /\ today' = today /\ run' = Idle
  BY <1>4, <1>5, <1>8, IdleIsIdle
<1>9. CASE Start
  <2>1. ledger' = ledger /\ today' = today
    BY <1>9 DEF Start
  <2> QED BY <1>4, <1>5, <1>9, <2>1
<1>10. CASE ledger' = ledger /\ run' = run /\ (today' = today \/ NextSession)
  <2>1. today' \in Sessions
    BY <1>4, <1>10, PaperAssumption DEF NextSession, Sessions
  <2>2. SamePass(run', run)
    BY <1>10 DEF SamePass
  <2> QED BY <1>5, <1>10, <2>1, <2>2
<1> QED BY <1>6, <1>7, <1>8, <1>9, <1>10, StepsOfARun

\* No missed session, failed feed, crash or repeated run shows in the worksheet:
\* an execution is the open of the session after the signal, and a close is the
\* exit of the undisturbed replay of the whole path, days included that no run
\* had seen when it was written (_advance_pending, _advance_open).
THEOREM FactsHold == Spec => []FactsAreTrue
<1>1. Inv /\ TrueInv => FactsAreTrue
  <2> SUFFICES ASSUME TrueInv PROVE FactsAreTrue
    OBVIOUS
  <2>1. \A r \in Of(ledger, "EXECUTED") : RowIsTrue(r) /\ r.type = "EXECUTED"
    BY DEF Of, TrueInv, RowsAreTrue
  <2>2. ASSUME NEW r \in Of(ledger, "EXECUTED")
        PROVE  /\ r.origin.day = SignalDay[r.event] + 1 /\ EntryOf(r.event) # NoBar
               /\ r.origin.entry = EntryOf(r.event).open
               /\ OpenOutcome(EntryOf(r.event).open) = "EXECUTED"
    <3>1. /\ EntryOf(r.event) # NoBar /\ OpenOutcome(EntryOf(r.event).open) = "EXECUTED"
          /\ r.origin = OriginOf(r.event)
      BY <2>1 DEF RowIsTrue
    <3>2. /\ OriginOf(r.event).day = SignalDay[r.event] + 1
          /\ OriginOf(r.event).entry = EntryOf(r.event).open
      BY DEF OriginOf
    <3> QED BY <3>1, <3>2
  <2>3. ASSUME NEW r \in Of(ledger, "CLOSED"), NEW x \in RowsOf(ledger, "EXECUTED", r.event)
        PROVE  r.exit = Replay(x.origin, Bars(r.event, LastSession)).exit
    <3>1. RowIsTrue(r) /\ r.type = "CLOSED"
      BY DEF Of, TrueInv, RowsAreTrue
    <3>2. x \in Of(ledger, "EXECUTED") /\ x.event = r.event
      BY DEF RowsOf
    <3>3. x.origin = OriginOf(r.event)
      BY <2>1, <3>2 DEF RowIsTrue
    <3> QED BY <3>1, <3>3 DEF RowIsTrue
  <2> QED BY <2>2, <2>3, Zenon DEF FactsAreTrue, EntryOf
<1>2. Init => Inv /\ TrueInv
  BY InitHolds, TrueInit
<1>3. Inv /\ TrueInv /\ [Next]_vars => (Inv /\ TrueInv)'
  BY StepHolds, TrueStep
<1> QED BY <1>1, <1>2, <1>3, PTL DEF Spec

-----------------------------------------------------------------------------
(* What a coverage row vouches for.                                           *)

\* Up to a continuous row every session since its start has one.
CoverageOK ==
    \A c \in Covered(ledger) :
        /\ c.session \in Sessions /\ c.start \in Sessions /\ c.next = c.session + 1
        /\ c.status = "CONTINUOUS" =>
              \A s \in c.start..c.session : \E d \in Covered(ledger) : d.session = s

\* Every trade that has had its turn is up to date with the session of the run,
\* unless its turn failed or it is the one just opened; no trade has had a turn
\* before the plans.
PassOK ==
    run.active =>
        /\ run.fresh # {} => run.visited = {}
        /\ \E e : run.opened \subseteq {e}
        /\ \A e \in run.visited \ run.opened : SettledBy(e, run.asOf) \/ e \in run.failed

CoverInv == CoverageOK /\ PassOK

\* Once settled, a trade is settled until it gets a plan or is executed.
LEMMA SettledStays ==
    ASSUME NEW d \in Events, NEW s, SettledBy(d, s), path' = path, NEW row,
           ledger' = ledger \/ ledger' = ledger \cup {row},
           ledger' # ledger => row.type \in {"SKIPPED", "CLOSED", "COVERAGE"}
                               \/ (row.type \in {"PLAN", "EXECUTED"} /\ row.event # d)
    PROVE  SettledBy(d, s)'
<1>1. \A type : Has(ledger, type, d) => Has(ledger', type, d)
  BY DEF Has, RowsOf, Of
<1>2. RowsOf(ledger', "EXECUTED", d) = RowsOf(ledger, "EXECUTED", d)
  BY DEF RowsOf, Of
<1>3. Has(ledger', "PLAN", d) => Has(ledger, "PLAN", d)
  BY DEF Has, RowsOf, Of
<1>4. \A x : Replay(x.origin, Bars(d, s)')  = Replay(x.origin, Bars(d, s))
  BY DEF Bars
<1> QED BY <1>1, <1>2, <1>3, <1>4 DEF SettledBy

\* A trade that was skipped, or closed, or needs neither yet is settled.
LEMMA SkippedIsSettled ==
    ASSUME NEW e, NEW s, ~ Has(ledger, "EXECUTED", e),
           Has(ledger, "SKIPPED", e) \/ ~ Has(ledger, "PLAN", e) \/ ~ SignalDay[e] < s
    PROVE  SettledBy(e, s)
  BY DEF SettledBy, Has

LEMMA ClosedIsSettled ==
    ASSUME NEW e, NEW s, Has(ledger, "EXECUTED", e), Has(ledger, "CLOSED", e)
    PROVE  SettledBy(e, s)
  BY DEF SettledBy

\* A history that reaches the session is that of the path so far.
LEMMA UpToDate ==
    ASSUME Inv, TrueInv, run.active, NEW e \in Events,
           Has(ledger, "EXECUTED", e), Replayable(e), ReplayedExit(e) = NoExit
    PROVE  SettledBy(e, run.asOf)
<1> DEFINE s == run.asOf
<1>1. run.rows = ledger /\ s \in Sessions
  BY DEF Inv, OneWriter, TrueInv, WorldOK
<1>2. PICK b \in ToSet(History(e)) : b.day = s
  BY DEF Replayable, ExpectedBars
<1>3. History(e) = Bars(e, s)
  <2>1. path[e] \in Seq(Bar) /\ s \in 1..Len(path[e]) /\ s - 1 \in 0..Len(path[e]) /\ s \in Nat
    BY <1>1, PathsAreBars DEF TrueInv, Sessions
  <2>2. CASE run.feed[e] = "ok"
    BY <2>2 DEF History
  <2>3. CASE run.feed[e] = "stale"
    <3>1. b \in ToSet(Traded(path[e])[s - 1])
      BY <1>2, <2>3 DEF History, Bars
    <3>2. \A x : x \in ToSet(Traded(path[e])[s - 1])
                    <=> x # NoBar /\ \E j \in 1..(s - 1) : path[e][j] = x
      BY <2>1, TradedBars
    <3>3. b # NoBar /\ \E j \in 1..(s - 1) : path[e][j] = b
      BY <3>1, <3>2
    <3>4. PICK j \in 1..(s - 1) : path[e][j] = b
      BY <3>3
    <3>5. LastSession \in Nat
      BY PaperAssumption
    <3>6. j \in Sessions /\ j # s
      BY <1>1, <3>5 DEF Sessions
    <3>7. b.day = j
      BY <3>3, <3>4, <3>6, PathsAreBars DEF TrueInv
    <3> QED BY <1>2, <3>6, <3>7
  <2>4. CASE run.feed[e] \notin {"ok", "stale"}
    <3>1. History(e) = <<>>
      BY <2>4 DEF History
    <3> QED BY <1>2, <3>1 DEF ToSet
  <2> QED BY <2>2, <2>3, <2>4
<1>5. The(RowsOf(ledger, "EXECUTED", e)).origin = OriginOf(e)
      /\ \A x \in RowsOf(ledger, "EXECUTED", e) : x.origin = OriginOf(e)
  BY OriginRead
<1>6. Replay(OriginOf(e), Bars(e, s)).exit = NoExit
  BY <1>1, <1>3, <1>5 DEF ReplayedExit
<1> QED BY <1>5, <1>6 DEF SettledBy

\* A trade that awaits its execution.
LEMMA PendingIsPlanned ==
    ASSUME Inv, NEW e \in Pending
    PROVE  /\ run.active /\ run.rows = ledger /\ run.opened = {} /\ run.fresh = {}
           /\ e \in Events \ run.visited
           /\ Has(ledger, "PLAN", e) /\ ~ Has(ledger, "EXECUTED", e)
           /\ ~ Has(ledger, "SKIPPED", e) /\ ~ Has(ledger, "CLOSED", e)
<1>1. run.active /\ run.opened = {} /\ run.fresh = {} /\ e \in Events \ run.visited
      /\ Status(run.rows, e) = "PLAN"
  BY DEF Pending
<1>2. run.rows = ledger
  BY <1>1 DEF Inv, OneWriter
<1> QED BY <1>1, <1>2 DEF Status

-----------------------------------------------------------------------------
(* What a turn leaves.                                                        *)

\* The coverage rows are those of before, unless one is written.
LEMMA CoverageStays ==
    ASSUME CoverageOK, NEW row, ledger' = ledger \/ ledger' = ledger \cup {row},
           ledger' # ledger => row.type # "COVERAGE"
    PROVE  CoverageOK' /\ Covered(ledger') = Covered(ledger)
<1>1. Covered(ledger') = Covered(ledger)
  BY DEF Covered, Of
<1> QED BY <1>1 DEF CoverageOK

\* A run that goes on, when the trade that had its turn is left settled, or
\* opened and on its way.
LEMMA TurnIsSettled ==
    ASSUME PassOK, run.active, path' = path, SamePass(run', run), run'.fresh = {},
           run.visited \subseteq Events, NEW e \in Events, run'.visited = run.visited \cup {e},
           run.opened \subseteq {e}, run.failed \subseteq run'.failed,
           \/ run'.opened = {e}
           \/ run'.opened = {} /\ (SettledBy(e, run.asOf)' \/ e \in run'.failed),
           \A d \in Events \ {e} : SettledBy(d, run.asOf) => SettledBy(d, run.asOf)'
    PROVE  PassOK'
<1>2. run'.asOf = run.asOf
  BY DEF SamePass
<1>3. ASSUME NEW d \in run'.visited \ run'.opened
      PROVE  SettledBy(d, run.asOf)' \/ d \in run'.failed
  <2>1. CASE d = e
    BY <1>3, <2>1
  <2>2. CASE d # e
    <3>1. d \in run.visited \ run.opened /\ d \in Events \ {e}
      BY <1>3, <2>2
    <3> QED BY <1>3, <3>1 DEF PassOK
  <2> QED BY <2>1, <2>2
<1> QED BY <1>2, <1>3 DEF PassOK

\* A turn, of a trade that awaits its execution or of an open one, leaves every
\* trade that had one settled.
LEMMA TurnKeepsPass ==
    ASSUME Inv, TrueInv, CoverInv, NEW e \in Events, NEW row, NEW after,
           run.active, run.fresh = {}, run.opened \subseteq {e},
           path' = path, ledger' = ledger \/ ledger' = ledger \cup {row},
           SamePass(run', run), SameWork(run', after),
           after.fresh = {}, after.visited = run.visited \cup {e},
           run.failed \subseteq after.failed,
           \/ after.opened = {e} /\ row.type = "EXECUTED" /\ row.event = e
           \/ /\ after.opened = {} /\ (ledger' = ledger \/ row.type \in {"SKIPPED", "CLOSED"})
              /\ SettledBy(e, run.asOf)' \/ e \in after.failed
    PROVE  CoverInv'
<1>1. run'.asOf = run.asOf /\ run.visited \subseteq Events
  BY DEF SamePass, Inv, TypeOK
<1>2. ASSUME NEW d \in Events \ {e}, SettledBy(d, run.asOf) PROVE SettledBy(d, run.asOf)'
  <2>1. PICK s : s = run.asOf
    OBVIOUS
  <2>2. SettledBy(d, s)
    BY <1>2, <2>1
  <2>3. SettledBy(d, s)'
    BY <2>2, SettledStays
  <2> QED BY <1>1, <2>1, <2>3
<1>3. PassOK'
  BY <1>1, <1>2, TurnIsSettled DEF SameWork, CoverInv
<1>4. CoverageOK'
  BY CoverageStays DEF CoverInv
<1> QED BY <1>3, <1>4 DEF CoverInv

-----------------------------------------------------------------------------
(* The turn of an open trade, and of one that is passed over.                 *)

LEMMA OpenIsOnTurn ==
    ASSUME Inv, CoverInv, NEW e \in Open
    PROVE  /\ e \in Events /\ Has(ledger, "EXECUTED", e) /\ run.active /\ run.fresh = {}
           /\ run.opened \subseteq {e}
<1>1. e \in Events /\ Has(ledger, "EXECUTED", e) /\ run.active
  BY OpenIsExecuted
<1>2. CASE run.opened # {}
  <2>1. e \in run.opened
    BY <1>2 DEF Open
  <2>2. PICK x : run.opened \subseteq {x}
    BY <1>1 DEF CoverInv, PassOK
  <2>3. run.fresh = {}
    BY <1>2 DEF Inv, FreshIsActive
  <2> QED BY <1>1, <2>1, <2>2, <2>3
<1>3. CASE run.opened = {}
  BY <1>1, <1>3 DEF Open
<1> QED BY <1>1, <1>2, <1>3

\* What was settled under the rows of before is so under the same rows.
LEMMA SettledNow ==
    ASSUME NEW e \in Events, SettledBy(e, run.asOf), path' = path, run'.asOf = run.asOf, NEW row,
           ledger' = ledger \/ (ledger' = ledger \cup {row} /\ row.type \in {"SKIPPED", "CLOSED"})
    PROVE  SettledBy(e, run.asOf)'
<1>1. PICK s : s = run.asOf
  OBVIOUS
<1>2. SettledBy(e, s)
  BY <1>1
<1>3. SettledBy(e, s)'
  BY <1>2, SettledStays
<1> QED BY <1>1, <1>3

\* A trade that is passed over needs nothing yet; a failed one is reported.
LEMMA QuietHolds ==
    ASSUME Inv, TrueInv, CoverInv, NEW e, Quiet(e), path' = path, ledger' = ledger
    PROVE  CoverInv'
<1>1. IsRecord(run)
  BY DEF Inv, TypeOK, IsRecord
<1>2. /\ SamePass(run', run) /\ run'.fresh = run.fresh
      /\ run'.visited = run.visited \cup {e} /\ run'.opened = {}
      /\ run.failed \subseteq run'.failed
  BY <1>1, QuietLeaves
<1>3. ASSUME e \in Events, run.active, run.fresh = {}, run.opened \subseteq {e},
             SettledBy(e, run.asOf) \/ e \in run'.failed
      PROVE  CoverInv'
  <2>1. SettledBy(e, run.asOf)' \/ e \in run'.failed
    BY <1>2, <1>3, SettledNow DEF SamePass
  <2>2. SameWork(run', run')
    BY DEF SameWork
  <2>3. run'.fresh = {}
    BY <1>2, <1>3
  <2> QED BY <1>2, <1>3, <2>1, <2>2, <2>3, TurnKeepsPass
<1>4. ASSUME run' = Failed(e) PROVE e \in run'.failed
  <2>1. Failed(e).failed = run.failed \cup {e}
    BY <1>1, TurnLeaves
  <2>2. run'.failed = run.failed \cup {e}
    BY <1>4, <2>1
  <2> QED BY <2>2
<1>5. CASE e \in Pending
  <2>1. /\ run.active /\ run.rows = ledger /\ run.opened = {} /\ run.fresh = {} /\ e \in Events
        /\ Has(ledger, "PLAN", e) /\ ~ Has(ledger, "EXECUTED", e)
    BY <1>5, PendingIsPlanned
  <2>2. ASSUME PassedOver(e) PROVE SettledBy(e, run.asOf)
    <3>0. e \notin Open
      BY <2>1, OpenIsExecuted
    <3>1. run.asOf < SignalDay[e] + 1
      BY <2>1, <2>2, <3>0, PlanRead DEF PassedOver, Waits, Expected
    <3>2. ~ SignalDay[e] < run.asOf
      <4>1. SignalDay[e] \in Int /\ run.asOf \in Int
        BY <2>1, PaperAssumption DEF TrueInv, WorldOK, Sessions
      <4> QED BY <3>1, <4>1
    <3> QED BY <2>1, <3>2, SkippedIsSettled
  <2> QED BY <1>3, <1>4, <2>1, <2>2 DEF Quiet
<1>6. CASE e \in Open
  <2>1. /\ e \in Events /\ Has(ledger, "EXECUTED", e) /\ run.active /\ run.fresh = {}
        /\ run.opened \subseteq {e}
    BY <1>6, OpenIsOnTurn
  <2>2. ASSUME PassedOver(e) PROVE SettledBy(e, run.asOf)
    <3>1. e \notin Pending
      BY <2>1, PendingIsPlanned
    <3> QED BY <2>1, <2>2, <3>1, UpToDate DEF PassedOver
  <2> QED BY <1>3, <1>4, <2>1, <2>2 DEF Quiet
<1> QED BY <1>5, <1>6 DEF Quiet, PassedOver

\* A run that has ended vouches for nothing more.
LEMMA IdleHolds ==
    ASSUME run' = Idle
    PROVE  PassOK'
  BY IdleIsIdle DEF PassOK

\* A row of a trade, when it is appended, leaves the trade settled.
LEMMA TradeRowHolds ==
    ASSUME Inv, TrueInv, CoverInv, NEW row, NEW after, Written(row, after),
           AppendEvent(row, after), path' = path, row.type # "COVERAGE"
    PROVE  CoverInv' /\ Covered(ledger') = Covered(ledger)
<1>1. run.active /\ run.rows = ledger /\ IsRecord(after) /\ (after = Idle \/ SamePass(after, run))
  BY WriterRuns
<1>2. /\ run' = Idle \/ (SamePass(run', after) /\ SameWork(run', after))
      /\ ledger' = ledger \/ ledger' = ledger \cup {row}
      /\ run' # Idle => Known(run.rows, row) \/ row \in ledger'
  BY <1>1, AppendLeaves
<1>3. CoverageOK' /\ Covered(ledger') = Covered(ledger)
  BY <1>2, CoverageStays DEF CoverInv
<1>4. CASE run' = Idle
  BY <1>3, <1>4, IdleHolds DEF CoverInv
<1>5. ASSUME run' # Idle, NEW e \in run.fresh, row = PlanRow(e),
             after = [run EXCEPT !.fresh = @ \ {e}]
      PROVE  PassOK'
  <2>1. IsRecord(run)
    BY DEF Inv, TypeOK, IsRecord
  <2>2. run.visited = {} /\ run.opened = {}
    BY <1>1, <1>5 DEF CoverInv, PassOK, Inv, FreshIsActive
  <2>3. after.visited = {} /\ after.opened = {}
    BY <1>5, <2>1, <2>2, TurnLeaves
  <2>4. run'.visited = {} /\ run'.opened = {}
    BY <1>2, <1>5, <2>3 DEF SameWork
  <2> QED BY <2>4 DEF PassOK
<1>6. ASSUME run' # Idle, NEW e \in Pending, Due(e),
             \/ /\ after = Visited(e) /\ row.type = "SKIPPED" /\ row.event = e
             \/ /\ after = [Visited(e) EXCEPT !.opened = {e}]
                /\ row.type = "EXECUTED" /\ row.event = e
      PROVE  CoverInv'
  <2>1. /\ run.opened = {} /\ run.fresh = {} /\ e \in Events
        /\ Has(ledger, "PLAN", e) /\ ~ Has(ledger, "EXECUTED", e)
    BY <1>6, PendingIsPlanned
  <2>2. IsRecord(run)
    BY DEF Inv, TypeOK, IsRecord
  <2>3. /\ SamePass(after, run) /\ after.fresh = {} /\ after.visited = run.visited \cup {e}
        /\ after.failed = run.failed
        /\ (after.opened = {e} /\ row.type = "EXECUTED")
           \/ (after.opened = {} /\ row.type = "SKIPPED")
    <3> DEFINE executed == [Visited(e) EXCEPT !.opened = {e}]
    <3>1. /\ SamePass(Visited(e), run) /\ Visited(e).fresh = run.fresh
          /\ Visited(e).visited = run.visited \cup {e} /\ Visited(e).opened = {}
          /\ Visited(e).failed = run.failed /\ executed.failed = run.failed
          /\ SamePass(executed, run) /\ executed.fresh = run.fresh
          /\ executed.visited = run.visited \cup {e} /\ executed.opened = {e}
      BY <2>2, TurnLeaves
    <3>2. (after = Visited(e) /\ row.type = "SKIPPED")
          \/ (after = executed /\ row.type = "EXECUTED")
      BY <1>6
    <3> HIDE DEF executed
    <3> QED BY <2>1, <3>1, <3>2
  <2>4. SamePass(run', run) /\ SameWork(run', after)
    BY <1>2, <1>6, <2>3 DEF SamePass
  <2>5. ASSUME row.type = "SKIPPED" PROVE SettledBy(e, run.asOf)'
    <3>1. Has(ledger', "SKIPPED", e)
      BY <1>1, <1>2, <1>6, <2>5 DEF Known, Has, RowsOf, Of
    <3>2. ~ Has(ledger', "EXECUTED", e)
      BY <1>2, <2>1, <2>5 DEF Has, RowsOf, Of
    <3>3. RowsOf(ledger', "EXECUTED", e) = {}
      BY <3>2 DEF Has
    <3> QED BY <3>1, <3>3 DEF SettledBy
  <2> QED BY <1>1, <1>2, <1>6, <2>1, <2>3, <2>4, <2>5, TurnKeepsPass
<1>7. ASSUME run' # Idle, NEW e \in Open, row.type = "CLOSED", row.event = e, after = Visited(e)
      PROVE  CoverInv'
  <2>1. /\ e \in Events /\ Has(ledger, "EXECUTED", e) /\ run.active /\ run.fresh = {}
        /\ run.opened \subseteq {e}
    BY <1>7, OpenIsOnTurn
  <2>2. IsRecord(run)
    BY DEF Inv, TypeOK, IsRecord
  <2>3. /\ SamePass(after, run) /\ after.fresh = {} /\ after.visited = run.visited \cup {e}
        /\ after.opened = {} /\ after.failed = run.failed
    BY <1>7, <2>1, <2>2, TurnLeaves
  <2>4. SamePass(run', run) /\ SameWork(run', after)
    BY <1>2, <1>7, <2>3 DEF SamePass
  <2>5. SettledBy(e, run.asOf)'
    <3>1. Has(ledger', "CLOSED", e) /\ Has(ledger', "EXECUTED", e)
      BY <1>1, <1>2, <1>7, <2>1 DEF Known, Has, RowsOf, Of
    <3> QED BY <3>1 DEF SettledBy
  <2> QED BY <1>1, <1>2, <1>7, <2>1, <2>3, <2>4, <2>5, TurnKeepsPass
<1>8. CASE run' # Idle
  <2>1. ASSUME NEW e \in Present, row = Assessed(e) PROVE row.type = "COVERAGE"
    BY <2>1 DEF Assessed, CoverageRow
  <2>2. ASSUME NEW e \in Pending, NEW x, Due(e), after = Visited(e), row = SkippedRow(e, x)
        PROVE  CoverInv'
    <3>1. row.type = "SKIPPED" /\ row.event = e
      BY <2>2 DEF SkippedRow
    <3> QED BY <1>6, <1>8, <2>2, <3>1
  <2>3. ASSUME NEW e \in Pending, NEW x, Due(e), after = [Visited(e) EXCEPT !.opened = {e}],
               row = ExecutedRow(e, x)
        PROVE  CoverInv'
    <3>1. row.type = "EXECUTED" /\ row.event = e
      BY <2>3 DEF ExecutedRow
    <3> QED BY <1>6, <1>8, <2>3, <3>1
  <2>4. ASSUME NEW e \in Open, NEW x, after = Visited(e), row = ClosedRow(e, x)
        PROVE  CoverInv'
    <3>1. row.type = "CLOSED" /\ row.event = e
      BY <2>4 DEF ClosedRow
    <3> QED BY <1>7, <1>8, <2>4, <3>1
  <2>5. ASSUME NEW e \in run.fresh, row = PlanRow(e), after = [run EXCEPT !.fresh = @ \ {e}]
        PROVE  CoverInv'
    BY <1>3, <1>5, <1>8, <2>5 DEF CoverInv
  <2>6. CoverInv'
    BY <2>1, <2>2, <2>3, <2>4, <2>5, Zenon DEF Written
  <2> QED BY <1>3, <2>6
<1> QED BY <1>3, <1>4, <1>8

-----------------------------------------------------------------------------
(* The coverage row itself.                                                   *)

\* The newest session that has one.
LEMMA LatestIsCovered ==
    ASSUME CoverageOK, Covered(ledger) # {}
    PROVE  LatestCovered(ledger) \in Covered(ledger)
<1> DEFINE C == Covered(ledger)
           T == {c.session : c \in C}
<1>1. T \subseteq 1..LastSession /\ T # {} /\ LastSession \in Nat
  BY PaperAssumption DEF CoverageOK, Sessions
<1>2. PICK m \in T : \A t \in T : t <= m
  BY <1>1, LastIndex
<1>3. \E c \in C : \A d \in C : d.session <= c.session
  BY <1>2
<1> HIDE DEF C
<1>4. (CHOOSE c \in C : \A d \in C : d.session <= c.session) \in C
  BY <1>3, Zenon
<1> QED BY <1>4 DEF LatestCovered, C

\* A trade that no longer awaits a turn has nothing left to be done, or failed.
LEMMA DoneIsSettled ==
    ASSUME Inv, CoverInv, run.active, run.fresh = {}, Pending = {}, Open = {},
           NEW e \in Events
    PROVE  SettledBy(e, run.asOf) \/ e \in run.failed
<1>1. run.opened = {} /\ run.rows = ledger
  BY DEF Open, Inv, OneWriter
<1>2. CASE e \in run.visited
  BY <1>1, <1>2 DEF CoverInv, PassOK
<1>3. CASE e \notin run.visited
  <2>1. Status(ledger, e) # "PLAN" /\ Status(ledger, e) # "OPEN"
    BY <1>1, <1>3 DEF Pending, Open
  <2>2. CASE ~ Has(ledger, "PLAN", e)
    <3>1. ~ Has(ledger, "EXECUTED", e)
      BY <2>2 DEF Inv, OneFate
    <3> QED BY <2>2, <3>1, SkippedIsSettled
  <2>3. CASE Has(ledger, "CLOSED", e)
    <3>1. Has(ledger, "EXECUTED", e)
      BY <2>3 DEF Inv, OneFate
    <3> QED BY <2>3, <3>1, ClosedIsSettled
  <2>4. CASE Has(ledger, "SKIPPED", e)
    <3>1. ~ Has(ledger, "EXECUTED", e)
      BY <2>4 DEF Inv, OneFate
    <3> QED BY <2>4, <3>1, SkippedIsSettled
  <2>5. CASE Has(ledger, "PLAN", e) /\ ~ Has(ledger, "CLOSED", e) /\ ~ Has(ledger, "SKIPPED", e)
    BY <2>1, <2>5 DEF Status
  <2> QED BY <2>2, <2>3, <2>4, <2>5
<1> QED BY <1>2, <1>3

\* The fields of the row that an input leads to.
LEMMA AssessedRow ==
    ASSUME Inv, run.active, NEW e
    PROVE  /\ Assessed(e).type = "COVERAGE" /\ Assessed(e).session = run.asOf
           /\ Assessed(e).next = run.asOf + 1
           /\ Covered(ledger) = {} => Assessed(e).start = run.asOf
           /\ Covered(ledger) # {} =>
                 /\ Assessed(e).start = LatestCovered(ledger).start
                 /\ Assessed(e).status = "CONTINUOUS" =>
                       /\ LatestCovered(ledger).next = run.asOf
                       /\ \A c \in Covered(ledger) : c.status = "CONTINUOUS"
<1>1. run.rows = ledger
  BY DEF Inv, OneWriter
<1>2. Assessed(e).status = "CONTINUOUS" /\ Covered(ledger) # {}
        => Continuous(LatestCovered(ledger), e)
  BY <1>1 DEF Assessed, CoverageRow
<1>3. Continuous(LatestCovered(ledger), e) =>
          /\ LatestCovered(ledger).next = run.asOf
          /\ \A c \in Covered(ledger) : c.status = "CONTINUOUS"
  BY <1>1 DEF Continuous
<1>4. /\ Assessed(e).type = "COVERAGE" /\ Assessed(e).session = run.asOf
      /\ Assessed(e).next = run.asOf + 1
      /\ Covered(ledger) = {} => Assessed(e).start = run.asOf
      /\ Covered(ledger) # {} => Assessed(e).start = LatestCovered(ledger).start
  BY <1>1 DEF Assessed, CoverageRow
<1> QED BY <1>2, <1>3, <1>4

\* A row that says continuous follows the newest one without a gap.
LEMMA AssessedIsHonest ==
    ASSUME Inv, TrueInv, CoverageOK, run.active, NEW e, NEW s,
           Assessed(e).status = "CONTINUOUS", s \in Assessed(e).start..Assessed(e).session
    PROVE  s = run.asOf \/ \E d \in Covered(ledger) : d.session = s
<1> DEFINE row == Assessed(e)
           prior == LatestCovered(ledger)
<1>1. row.session = run.asOf /\ run.asOf \in Sessions
  BY AssessedRow DEF TrueInv, WorldOK
<1>2. CASE Covered(ledger) = {}
  <2>1. row.start = run.asOf
    BY <1>2, AssessedRow
  <2> HIDE DEF row
  <2>2. s \in run.asOf..run.asOf
    BY <1>1, <2>1 DEF row
  <2> QED BY <1>1, <2>2 DEF Sessions
<1>3. CASE Covered(ledger) # {}
  <2>1. /\ row.start = prior.start /\ prior.next = run.asOf /\ prior.status = "CONTINUOUS"
        /\ prior \in Covered(ledger)
    BY <1>3, AssessedRow, LatestIsCovered
  <2>2. /\ prior.session \in Sessions /\ prior.start \in Sessions
        /\ prior.next = prior.session + 1
        /\ \A r \in prior.start..prior.session : \E d \in Covered(ledger) : d.session = r
    BY <2>1 DEF CoverageOK
  <2>3. s \in prior.start..run.asOf
    BY <1>1, <2>1
  <2> HIDE DEF prior, row
  <2>4. s = run.asOf \/ s \in prior.start..prior.session
    BY <1>1, <2>1, <2>2, <2>3 DEF Sessions
  <2> QED BY <2>2, <2>4
<1> QED BY <1>2, <1>3

\* What is said of a coverage row when it is written.
Honest(c) ==
    /\ \A e \in Events : SettledBy(e, c.session) \/ e \in run.failed
    /\ c.status = "CONTINUOUS" =>
          \A s \in c.start..c.session : \E d \in Covered(ledger') : d.session = s

LEMMA CoverageRowHolds ==
    ASSUME Inv, TrueInv, CoverInv, NEW e, run.active, run.fresh = {},
           Pending = {}, Open = {}, run' = Idle,
           ledger' = ledger \/ ledger' = ledger \cup {Assessed(e)}
    PROVE  CoverInv' /\ \A c \in Covered(ledger') \ Covered(ledger) : Honest(c)
<1> DEFINE row == Assessed(e)
<1>1. /\ row.type = "COVERAGE" /\ row.session = run.asOf /\ row.next = run.asOf + 1
      /\ Covered(ledger) = {} => row.start = run.asOf
      /\ Covered(ledger) # {} => row.start = LatestCovered(ledger).start
  BY AssessedRow
<1>2. CoverageOK /\ run.asOf \in Sessions
  BY DEF CoverInv, TrueInv, WorldOK
<1>3. row.start \in Sessions
  BY <1>1, <1>2, LatestIsCovered DEF CoverageOK
<1>4. ASSUME row.status = "CONTINUOUS", NEW s \in row.start..row.session
      PROVE  s = run.asOf \/ \E d \in Covered(ledger) : d.session = s
  BY <1>2, <1>4, AssessedIsHonest
<1>5. \A d \in Events : SettledBy(d, run.asOf) \/ d \in run.failed
  BY DoneIsSettled
<1>6. PassOK'
  BY IdleHolds
<1> HIDE DEF row
<1>7. CASE ledger' = ledger
  BY <1>2, <1>6, <1>7 DEF CoverInv, CoverageOK, Covered, Of
<1>8. CASE ledger' = ledger \cup {row}
  <2>1. Covered(ledger') = Covered(ledger) \cup {row}
    BY <1>1, <1>8 DEF Covered, Of
  <2>2. row.status = "CONTINUOUS" =>
          \A s \in row.start..row.session : \E d \in Covered(ledger') : d.session = s
    BY <1>1, <1>4, <2>1
  <2>3. CoverageOK'
    BY <1>1, <1>2, <1>3, <2>1, <2>2 DEF CoverageOK
  <2>4. Honest(row)
    BY <1>1, <1>5, <2>2 DEF Honest
  <2> QED BY <1>6, <2>1, <2>3, <2>4 DEF CoverInv
<1> QED BY <1>7, <1>8 DEF row

LEMMA CoverInit == Init => CoverInv
  BY IdleIsIdle DEF Init, CoverInv, CoverageOK, PassOK, Covered, Of

\* A new run has had no turns.
LEMMA StartHolds ==
    ASSUME CoverInv, Start
    PROVE  CoverInv'
<1>1. PICK feed \in [Events -> Feeds], exact \in BOOLEAN :
        run' = [Idle EXCEPT !.active = TRUE, !.asOf = today, !.exact = exact,
                            !.feed = feed, !.rows = ledger,
                            !.fresh = {e \in NewEvents(feed) : Plannable(e, feed, exact)}]
  BY Zenon DEF Start
<1>2. run'.visited = {} /\ run'.opened = {}
  BY <1>1 DEF Idle
<1>3. ledger' = ledger
  BY DEF Start
<1> QED BY <1>2, <1>3 DEF CoverInv, CoverageOK, PassOK, Covered, Of

LEMMA CoverStep ==
    ASSUME Inv, TrueInv, CoverInv, [Next]_vars
    PROVE  CoverInv' /\ \A c \in Covered(ledger') \ Covered(ledger) : Honest(c)
<1>1. path' = path
  BY StepsOfARun
<1>2. ASSUME ledger' = ledger, CoverInv'
      PROVE  \A c \in Covered(ledger') \ Covered(ledger) : Honest(c)
  BY <1>2
<1>3. ASSUME NEW row, NEW after, Written(row, after), AppendEvent(row, after)
      PROVE  CoverInv' /\ \A c \in Covered(ledger') \ Covered(ledger) : Honest(c)
  <2>1. CASE row.type # "COVERAGE"
    <3>1. CoverInv' /\ Covered(ledger') = Covered(ledger)
      BY <1>1, <1>3, <2>1, TradeRowHolds
    <3> QED BY <3>1
  <2>2. CASE row.type = "COVERAGE"
    <3>1. /\ \A e, x : /\ SkippedRow(e, x).type # "COVERAGE"
                       /\ ExecutedRow(e, x).type # "COVERAGE"
                       /\ ClosedRow(e, x).type # "COVERAGE"
          /\ \A e : PlanRow(e).type # "COVERAGE"
      BY DEF SkippedRow, ExecutedRow, ClosedRow, PlanRow
    <3>2. PICK e \in Present : /\ run.active /\ run.exact /\ run.fresh = {}
                               /\ Pending = {} /\ Open = {}
                               /\ row = Assessed(e) /\ after = Idle
      BY <1>3, <2>2, <3>1 DEF Written
    <3>3. IsRecord(after)
      BY <1>3, WriterRuns
    <3>4. /\ run' = Idle \/ SamePass(run', after)
          /\ ledger' = ledger \/ ledger' = ledger \cup {Assessed(e)}
      BY <1>3, <3>2, <3>3, AppendLeaves
    <3>5. run' = Idle
      BY <1>3, <3>2, IdleIsIdle DEF AppendEvent, Noted, Broken
    <3> QED BY <3>2, <3>4, <3>5, CoverageRowHolds
  <2> QED BY <2>1, <2>2
<1>4. ASSUME ledger' = ledger, NEW e, Quiet(e)
      PROVE  CoverInv'
  BY <1>1, <1>4, QuietHolds
<1>5. ASSUME ledger' = ledger, run' = Idle PROVE CoverInv'
  BY <1>5, IdleHolds DEF CoverInv, CoverageOK, Covered, Of
<1>6. ASSUME Start PROVE CoverInv'
  BY <1>6, StartHolds
<1>7. ASSUME ledger' = ledger, run' = run PROVE CoverInv'
  <2>1. CoverageOK'
    BY <1>7 DEF CoverInv, CoverageOK, Covered, Of
  <2>2. PassOK'
    BY <1>1, <1>7 DEF CoverInv, PassOK, SettledBy, Has, RowsOf, Of, Bars
  <2> QED BY <2>1, <2>2 DEF CoverInv
<1>8. Start => ledger' = ledger
  BY DEF Start
<1> QED BY <1>2, <1>3, <1>4, <1>5, <1>6, <1>7, <1>8, StepsOfARun

\* A coverage row claims what is so when it is written: every trade has been
\* executed, skipped or closed as the bars of the session demand, or this run has
\* reported an error for it, and a continuous one leaves no session out since its
\* start; in whatever order the trades had their turns and whatever the runs
\* before left undone (process_daily, _record_coverage).
THEOREM CoverageHolds == Spec => CoverageIsHonest
<1>1. Init => Inv /\ TrueInv /\ CoverInv
  BY InitHolds, TrueInit, CoverInit
<1>2. Inv /\ TrueInv /\ CoverInv /\ [Next]_vars => (Inv /\ TrueInv /\ CoverInv)'
  BY StepHolds, TrueStep, CoverStep
<1>3. Inv /\ TrueInv /\ CoverInv /\ [Next]_vars =>
        [\A c \in Covered(ledger') \ Covered(ledger) :
            /\ \A e \in Events : SettledBy(e, c.session) \/ e \in run.failed
            /\ c.status = "CONTINUOUS" =>
                  \A s \in c.start..c.session : \E d \in Covered(ledger') : d.session = s]_vars
  BY CoverStep DEF Honest
<1> QED BY <1>1, <1>2, <1>3, PTL DEF Spec, CoverageIsHonest
=============================================================================
