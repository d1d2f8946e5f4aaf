-------------------------- MODULE SwingEngineProofs --------------------------
(* What the swing engine promises of a series that grows: it reads the bars   *)
(* from left to right, so that what was known of turning points on a bar is   *)
(* what any longer series says was known on it.  The loops of the model are   *)
(* recursive functions; that they have values follows by induction here, with *)
(* no operator as a parameter.                                                *)
EXTENDS SwingEngine, FiniteSetTheorems, WellFoundedInduction, TLAPS

\* Of some of the first n bars, one is the last.
LEMMA LastIndex ==
    ASSUME NEW n \in Nat, NEW T, T \subseteq 1..n, T # {}
    PROVE  \E m \in T : \A t \in T : t <= m
<1> DEFINE Above(m) == {t \in T : m < t}
           Aboves == {Above(m) : m \in T}
<1>1. IsFiniteSet(T)
  <2>1. IsFiniteSet(1..n)
    BY FS_Interval
  <2> QED BY <2>1, FS_Subset
<1>2. Aboves \subseteq FiniteSubsetsOf(T) /\ Aboves # {}
  <2>1. FiniteSubsetsOf(T) = SUBSET T
    BY <1>1, FS_FiniteSubsetsOfFinite
  <2>2. Aboves \subseteq SUBSET T
    OBVIOUS
  <2>3. PICK t \in T : TRUE
    OBVIOUS
  <2>4. Above(t) \in Aboves
    OBVIOUS
  <2> QED BY <2>1, <2>2, <2>4
<1>3. PICK A \in Aboves : \A B \in Aboves : ~(<<B, A>> \in StrictSubsetOrdering(T))
  <2> HIDE DEF Aboves
  <2> QED BY <1>1, <1>2, FS_StrictSubsetOrderingWellFounded, WFMin
<1>4. PICK m \in T : A = Above(m)
  OBVIOUS
<1>5. \A t \in T : t <= m
  <2> SUFFICES ASSUME NEW t \in T, m < t PROVE FALSE
    OBVIOUS
  <2>1. Above(t) \subseteq A /\ Above(t) # A
    <3>1. m \in Int /\ \A r \in T : r \in Int
      OBVIOUS
    <3>2. t \in A /\ t \notin Above(t)
      BY <1>4, <3>1
    <3>3. \A r \in Above(t) : m < r
      BY <3>1
    <3> QED BY <1>4, <3>2, <3>3
  <2>2. Above(t) \in Aboves /\ A \subseteq T /\ Above(t) \subseteq T
    BY <1>4
  <2>3. <<Above(t), A>> \in StrictSubsetOrdering(T)
    BY <2>1, <2>2, <1>1, FS_Subset DEF StrictSubsetOrdering, FiniteSubsetsOf
  <2> QED BY <1>3, <2>2, <2>3
<1> QED BY <1>5

\* Induction up to n, over a set: nothing here takes an operator.
LEMMA Induction ==
    ASSUME NEW n \in Nat, NEW G \in SUBSET (0..n), 0 \in G,
           \A m \in 1..n : m - 1 \in G => m \in G
    PROVE  \A m \in 0..n : m \in G
<1> DEFINE T == {m \in 1..(n + 1) : \A k \in 0..(m - 1) : k \in G}
<1>1. T \subseteq 1..(n + 1) /\ T # {} /\ n + 1 \in Nat
  <2>1. 1 \in T
    OBVIOUS
  <2>2. T \subseteq 1..(n + 1)
    OBVIOUS
  <2> HIDE DEF T
  <2> QED BY <2>1, <2>2
<1>2. PICK m \in T : \A t \in T : t <= m
  <2> HIDE DEF T
  <2> QED BY <1>1, LastIndex
<1>3. m = n + 1
  <2> SUFFICES ASSUME m # n + 1 PROVE FALSE
    OBVIOUS
  <2>1. m \in 1..n /\ m - 1 \in G /\ \A k \in 0..(m - 1) : k \in G
    OBVIOUS
  <2>2. m \in G
    BY <2>1
  <2>3. \A k \in 0..((m + 1) - 1) : k \in G
    BY <2>1, <2>2
  <2>4. m + 1 \in T
    BY <2>1, <2>3
  <2> QED BY <1>2, <2>1, <2>4
<1> QED BY <1>3

\* f tells the state after each of n turns of a loop.
IsRun(f, n, a, turn) == f[0] = a /\ \A i \in 1..n : f[i] = turn[i][f[i - 1]]

\* A loop of n turns has a run.
LEMMA LoopRuns ==
    ASSUME NEW n \in Nat, NEW S, NEW a \in S, NEW turn \in [1..n -> [S -> S]]
    PROVE  \E f \in [0..n -> S] : IsRun(f, n, a, turn)
<1> DEFINE G == {m \in 0..n : \E f \in [0..n -> S] : IsRun(f, m, a, turn)}
<1>1. 0 \in G
  <2>1. IsRun([i \in 0..n |-> a], 0, a, turn)
    BY DEF IsRun
  <2>2. [i \in 0..n |-> a] \in [0..n -> S] /\ 0 \in 0..n
    OBVIOUS
  <2> QED BY <2>1, <2>2
<1>2. ASSUME NEW m \in 1..n, m - 1 \in G PROVE m \in G
  <2>1. PICK f \in [0..n -> S] : IsRun(f, m - 1, a, turn)
    BY <1>2
  <2> DEFINE g == [f EXCEPT ![m] = turn[m][f[m - 1]]]
  <2>2. turn[m][f[m - 1]] \in S /\ g \in [0..n -> S]
    OBVIOUS
  <2>3. g[0] = a
    BY <2>1 DEF IsRun
  <2>4. ASSUME NEW i \in 1..m PROVE g[i] = turn[i][g[i - 1]]
    <3>1. CASE i = m
      BY <3>1
    <3>2. CASE i # m
      BY <3>2, <2>1 DEF IsRun
    <3> QED BY <3>1, <3>2
  <2> HIDE DEF g
  <2>5. IsRun(g, m, a, turn)
    BY <2>3, <2>4 DEF IsRun
  <2> QED BY <2>2, <2>5
<1>3. n \in G
  <2>1. G \in SUBSET (0..n) /\ n \in 0..n
    OBVIOUS
  <2> HIDE DEF G
  <2>2. \A m \in 1..n : m - 1 \in G => m \in G
    BY <1>2
  <2> QED BY <1>1, <2>1, <2>2, Induction
<1> QED BY <1>3

-----------------------------------------------------------------------------
(* What is known of a list of swings.                                         *)

\* The filter goes through the swings one by one.
LEMMA KeptRun ==
    ASSUME NEW S, NEW s \in Seq(S), NEW j
    PROVE  /\ Kept(s, j)[0] = <<>>
           /\ \A k \in 1..Len(s) : Kept(s, j)[k] =
                  Sifted(Kept(s, j)[k - 1], s[k], j)
           /\ \A k \in 0..Len(s) : Kept(s, j)[k] \in Seq(S)
<1> DEFINE n == Len(s)
           turn == [k \in 1..n |-> [t \in Seq(S) |-> Sifted(t, s[k], j)]]
           Follows(f) == f = [k \in 0..n |-> IF k = 0 THEN <<>> ELSE Sifted(f[k - 1], s[k], j)]
<1>1. n \in Nat /\ <<>> \in Seq(S) /\ \A k \in 1..n : s[k] \in S
  OBVIOUS
<1>2. \A k \in 1..n : \A t \in Seq(S) : Sifted(t, s[k], j) \in Seq(S)
  BY <1>1 DEF Sifted
<1>3. turn \in [1..n -> [Seq(S) -> Seq(S)]] /\ \A k \in 1..n : \A t \in Seq(S) : turn[k][t] = Sifted(t, s[k], j)
  BY <1>2
<1> HIDE DEF turn
<1>4. PICK f \in [0..n -> Seq(S)] : f[0] = <<>> /\ \A k \in 1..n : f[k] = turn[k][f[k - 1]]
  <2>1. \E f \in [0..n -> Seq(S)] : IsRun(f, n, <<>>, turn)
    <3> HIDE DEF n
    <3> QED BY <1>1, <1>3, LoopRuns
  <2> QED BY <2>1 DEF IsRun
<1>5. Follows(f)
  <2> DEFINE g == [k \in 0..n |-> IF k = 0 THEN <<>> ELSE Sifted(f[k - 1], s[k], j)]
  <2>1. \A k \in 1..n : f[k - 1] \in Seq(S)
    BY <1>1
  <2>2. \A k \in 1..n : f[k] = Sifted(f[k - 1], s[k], j)
    BY <1>3, <1>4, <2>1
  <2>3. \A k \in 0..n : f[k] = g[k]
    BY <1>1, <1>4, <2>2
  <2> QED BY <2>3
<1> DEFINE h == Kept(s, j)
<1>6. Follows(h)
  BY <1>5 DEF Kept
<1> HIDE DEF h, n
<1>7. h[0] = <<>> /\ \A k \in 1..n : h[k] = Sifted(h[k - 1], s[k], j)
  BY <1>1, <1>6
<1>8. \A k \in 0..n : h[k] \in Seq(S)
  <2> DEFINE Q == Seq(S)
             G == {k \in 0..n : h[k] \in Q}
  <2>0. h[0] \in Q /\ \A k \in 1..n : \A t \in Q : Sifted(t, s[k], j) \in Q
    BY <1>1, <1>2, <1>7
  <2> HIDE DEF Q
  <2>1. G \in SUBSET (0..n) /\ 0 \in G
    BY <1>1, <2>0
  <2>2. \A m \in 1..n : m - 1 \in G => m \in G
    BY <1>1, <2>0, <1>7
  <2>3. \A m \in 0..n : m \in G
    <3> HIDE DEF G
    <3> QED BY <1>1, <2>1, <2>2, Induction
  <2> QED BY <2>3 DEF Q
<1> QED BY <1>7, <1>8 DEF n, h

\* Lists that begin alike are filtered alike that far.
LEMMA KeptPrefix ==
    ASSUME NEW S, NEW r \in Seq(S), NEW s \in Seq(S), NEW j,
           NEW m \in Nat, m <= Len(r), m <= Len(s), \A k \in 1..m : r[k] = s[k]
    PROVE  \A k \in 0..m : Kept(r, j)[k] = Kept(s, j)[k]
<1> DEFINE G == {k \in 0..m : Kept(r, j)[k] = Kept(s, j)[k]}
<1>1. G \in SUBSET (0..m) /\ 0 \in G
  BY KeptRun
<1>2. ASSUME NEW k \in 1..m, k - 1 \in G PROVE k \in G
  <2>1. k \in 1..Len(r) /\ k \in 1..Len(s) /\ r[k] = s[k]
    OBVIOUS
  <2>2. Kept(r, j)[k] = Sifted(Kept(r, j)[k - 1], r[k], j)
    BY <2>1, KeptRun
  <2>3. Kept(s, j)[k] = Sifted(Kept(s, j)[k - 1], s[k], j)
    BY <2>1, KeptRun
  <2> QED BY <1>2, <2>1, <2>2, <2>3
<1>3. \A k \in 0..m : k \in G
  <2> HIDE DEF G
  <2> QED BY <1>1, <1>2, Induction
<1> QED BY <1>3

-----------------------------------------------------------------------------
(* The list of swings after each bar.                                         *)

\* A swing of a series.
Swing(series) ==
    [kind : {"HIGH", "LOW"},
     price : {series[k].high : k \in DOMAIN series} \cup {series[k].low : k \in DOMAIN series},
     index : DOMAIN series, confirmed : Nat]

\* The swings after bar i: they alternate and ascend, all but the last of them
\* are confirmed, and the last one had its window completed.
Swings(series, i) ==
    {s \in Seq(Swing(series)) :
        /\ \A k \in 1..(Len(s) - 1) : /\ s[k].kind # s[k + 1].kind
                                      /\ s[k].index < s[k + 1].index
                                      /\ KnownBy(s[k], i)
        /\ s # <<>> => /\ s[Len(s)].confirmed = NotYet
                       /\ s[Len(s)].index + Lookback <= i}

\* A turning point is provisional and stands at its bar.
LEMMA PivotTyped ==
    ASSUME NEW B, NEW series \in Seq(B), NEW i \in DOMAIN series
    PROVE  \/ PivotAt(series, i) = <<>>
           \/ \E p \in Swing(series) : /\ PivotAt(series, i) = <<p>>
                                       /\ p.index = i /\ p.confirmed = NotYet
<1> DEFINE top == Pivot("HIGH", series[i].high, i)
           bottom == Pivot("LOW", series[i].low, i)
<1>1. /\ top \in Swing(series) /\ top.index = i /\ top.confirmed = NotYet
      /\ bottom \in Swing(series) /\ bottom.index = i /\ bottom.confirmed = NotYet
  BY DEF Pivot, Swing, NotYet
<1>2. PivotAt(series, i) \in {<<top>>, <<bottom>>, <<>>}
  BY DEF PivotAt
<1> HIDE DEF top, bottom
<1> QED BY <1>1, <1>2

\* Absorbing the turning point of the window that bar i completes keeps the
\* order, and tells nothing new of the bars before.
LEMMA AbsorbKeeps ==
    ASSUME NEW B, NEW series \in Seq(B), NEW i \in Nat, NEW s \in Swings(series, i - 1),
           NEW p \in Swing(series), p.confirmed = NotYet, p.index + Lookback = i
    PROVE  /\ Absorb(s, p) \in Swings(series, i)
           /\ \A j \in 0..(i - 1) : Confirmed(Absorb(s, p), j) = Confirmed(s, j)
<1> DEFINE r == Absorb(s, p)
           n == Len(s)
           S == Swing(series)
<1>0. /\ i \in Nat /\ i # 0 /\ NotYet = 0 /\ n \in Nat /\ s \in Seq(S)
      /\ \A k \in 1..n : s[k] \in S /\ s[k].index \in Nat /\ s[k].confirmed \in Nat
  <2>1. s \in Seq(S)
    BY DEF Swings
  <2>2. DOMAIN series \subseteq Nat
    OBVIOUS
  <2>3. \A x \in S : x.index \in Nat /\ x.confirmed \in Nat
    BY <2>2 DEF Swing
  <2>4. \A k \in 1..n : s[k] \in S
    BY <2>1
  <2>5. p.index \in Nat /\ p.index # 0
    BY DEF Swing
  <2> QED BY <2>1, <2>3, <2>4, <2>5, LookbackAssumption DEF NotYet
<1>a. /\ \A k \in 1..(n - 1) : /\ s[k].kind # s[k + 1].kind
                               /\ s[k].index < s[k + 1].index
                               /\ KnownBy(s[k], i - 1)
      /\ s # <<>> => /\ s[n].confirmed = NotYet
                     /\ s[n].index + Lookback <= i - 1
  BY DEF Swings
<1>b. \A x \in S : KnownBy(x, i - 1) => KnownBy(x, i)
  BY <1>0 DEF KnownBy, Swing
<1>c. p.index \in Nat /\ Lookback \in Nat
  BY <1>0, LookbackAssumption DEF Swing
<1> HIDE DEF S
<1>1. CASE s = <<>>
  <2>1. r = <<p>>
    BY <1>1 DEF Absorb
  <2>2. r \in Swings(series, i)
    BY <2>1, <1>c DEF Swings, S
  <2>3. Len(r) = 1 /\ r[1] = p /\ r \in Seq(S) /\ n = 0
    <3>1. p \in S
      BY DEF S
    <3> HIDE DEF r
    <3> QED BY <1>1, <2>1, <3>1
  <2>4. ASSUME NEW j \in 0..(i - 1) PROVE Confirmed(r, j) = Confirmed(s, j)
    <3>1. Kept(r, j)[1] = Sifted(Kept(r, j)[0], p, j)
      <4> DEFINE k == 1
      <4>1. k \in 1..Len(r) /\ k - 1 = 0
        BY <2>3
      <4> HIDE DEF r, k
      <4>2. Kept(r, j)[k] = Sifted(Kept(r, j)[k - 1], r[k], j)
        BY <2>3, <4>1, KeptRun
      <4> QED BY <2>3, <4>1, <4>2 DEF k
    <3>2. Kept(r, j)[0] = <<>> /\ Kept(s, j)[0] = <<>>
      BY <2>3, <1>0, KeptRun
    <3>3. Kept(r, j)[1] = Kept(r, j)[0]
      BY <3>1 DEF Sifted, KnownBy
    <3> QED BY <2>3, <3>2, <3>3 DEF Confirmed
  <2> QED BY <2>2, <2>4
<1>2. CASE s # <<>> /\ s[n].kind # p.kind
  <2> DEFINE closed == [s[n] EXCEPT !.confirmed = i]
  <2>1. n \in 1..n /\ s[n] \in S /\ s[n].confirmed = NotYet
    BY <1>0, <1>2, <1>a
  <2>2. r = Append([s EXCEPT ![n] = closed], p)
    BY <1>2 DEF Absorb
  <2>3. /\ closed \in S /\ closed.confirmed = i
        /\ closed.index = s[n].index /\ closed.kind = s[n].kind
    BY <1>0, <2>1 DEF Swing, S
  <2> HIDE DEF closed, r
  <2>4. /\ r \in Seq(S) /\ Len(r) = n + 1 /\ r[n + 1] = p /\ r[n] = closed
        /\ \A k \in 1..(n - 1) : r[k] = s[k]
    BY <1>0, <2>1, <2>2, <2>3 DEF S
  <2>5. ASSUME NEW k \in 1..n
        PROVE  r[k].kind # r[k + 1].kind /\ r[k].index < r[k + 1].index /\ KnownBy(r[k], i)
    <3>1. CASE k = n
      <4>1. s[n].index < p.index
        BY <1>0, <1>2, <1>a, <1>c, <2>1
      <4> QED BY <3>1, <4>1, <1>0, <1>2, <2>3, <2>4 DEF KnownBy
    <3>2. CASE k \in 1..(n - 1)
      <4>1. /\ r[k] = s[k] /\ r[k + 1].kind = s[k + 1].kind
            /\ r[k + 1].index = s[k + 1].index
        <5>1. CASE k + 1 = n
          BY <3>2, <5>1, <2>3, <2>4
        <5>2. CASE k + 1 # n
          <6>1. k + 1 \in 1..(n - 1)
            BY <3>2, <5>2
          <6> QED BY <3>2, <6>1, <2>4
        <5> QED BY <5>1, <5>2
      <4>2. s[k] \in S
        BY <1>0
      <4> QED BY <3>2, <4>1, <4>2, <1>a, <1>b
    <3> QED BY <3>1, <3>2
  <2>6. r \in Swings(series, i)
    <3>1. \A k \in 1..(Len(r) - 1) : k \in 1..n
      BY <1>0, <2>4
    <3>2. r[Len(r)].confirmed = NotYet /\ r[Len(r)].index + Lookback <= i
      BY <1>0, <1>c, <2>4
    <3> QED BY <2>4, <2>5, <3>1, <3>2 DEF Swings, S
  <2>7. ASSUME NEW j \in 0..(i - 1) PROVE Confirmed(r, j) = Confirmed(s, j)
    <3>1. n - 1 \in Nat /\ n - 1 <= Len(r) /\ n - 1 <= Len(s) /\ n - 1 \in 0..(n - 1)
      BY <2>1, <2>4
    <3>2. Kept(r, j)[n - 1] = Kept(s, j)[n - 1]
      <4> DEFINE m == n - 1
      <4>1. /\ r \in Seq(S) /\ s \in Seq(S) /\ m \in Nat /\ m \in 0..m
            /\ m <= Len(r) /\ m <= Len(s) /\ \A k \in 1..m : r[k] = s[k]
        BY <1>0, <2>4, <3>1
      <4> HIDE DEF m
      <4>2. Kept(r, j)[m] = Kept(s, j)[m]
        BY <4>1, KeptPrefix
      <4> QED BY <4>2 DEF m
    <3>3. n \in 1..Len(r) /\ n + 1 \in 1..Len(r) /\ (n + 1) - 1 = n
      BY <2>1, <2>4
    <3>4. ~ KnownBy(closed, j) /\ ~ KnownBy(p, j) /\ ~ KnownBy(s[n], j)
      BY <1>0, <2>1, <2>3 DEF KnownBy
    <3>5. Kept(r, j)[n] = Sifted(Kept(r, j)[n - 1], r[n], j)
      BY <2>4, <3>3, KeptRun
    <3>6. Kept(r, j)[n + 1] = Sifted(Kept(r, j)[n], r[n + 1], j)
      BY <2>4, <3>3, KeptRun
    <3>7. Kept(s, j)[n] = Sifted(Kept(s, j)[n - 1], s[n], j)
      BY <1>0, <2>1, KeptRun
    <3>8. Kept(r, j)[n + 1] = Kept(s, j)[n]
      BY <2>4, <3>2, <3>4, <3>5, <3>6, <3>7 DEF Sifted
    <3> QED BY <2>4, <3>8 DEF Confirmed
  <2> QED BY <2>6, <2>7 DEF r
<1>3. CASE s # <<>> /\ s[n].kind = p.kind /\ MoreExtreme(p, s[n])
  <2>1. n \in 1..n /\ s[n] \in S /\ s[n].confirmed = NotYet
    BY <1>0, <1>3, <1>a
  <2>2. r = [s EXCEPT ![n] = p]
    BY <1>3 DEF Absorb
  <2> HIDE DEF r
  <2>3. /\ r \in Seq(S) /\ Len(r) = n /\ r[n] = p
        /\ \A k \in 1..(n - 1) : r[k] = s[k]
    BY <1>0, <2>1, <2>2 DEF S
  <2>4. ASSUME NEW k \in 1..(n - 1)
        PROVE  r[k].kind # r[k + 1].kind /\ r[k].index < r[k + 1].index /\ KnownBy(r[k], i)
    <3>1. r[k] = s[k] /\ s[k] \in S /\ KnownBy(s[k], i)
      BY <1>0, <1>a, <1>b, <2>3
    <3>2. r[k + 1].kind = s[k + 1].kind /\ s[k].index < r[k + 1].index
      <4>1. CASE k + 1 = n
        <5>1. s[k].index < s[n].index /\ s[n].index < p.index
          BY <1>0, <1>3, <1>a, <1>c, <2>1, <4>1
        <5>2. s[k].index \in Nat /\ s[n].index \in Nat
          BY <1>0, <2>1
        <5>3. s[k].index < p.index
          BY <5>1, <5>2, <1>c
        <5> QED BY <4>1, <5>3, <1>3, <2>3
      <4>2. CASE k + 1 # n
        <5>1. k + 1 \in 1..(n - 1)
          BY <4>2
        <5> QED BY <5>1, <2>3, <1>a
      <4> QED BY <4>1, <4>2
    <3> QED BY <3>1, <3>2, <1>a
  <2>5. r \in Swings(series, i)
    <3>1. r[Len(r)].confirmed = NotYet /\ r[Len(r)].index + Lookback <= i
      BY <1>0, <1>c, <2>3
    <3> QED BY <2>3, <2>4, <3>1 DEF Swings, S
  <2>6. ASSUME NEW j \in 0..(i - 1) PROVE Confirmed(r, j) = Confirmed(s, j)
    <3>1. n - 1 \in Nat /\ n - 1 <= Len(r) /\ n - 1 <= Len(s) /\ n - 1 \in 0..(n - 1)
      BY <2>1, <2>3
    <3>2. Kept(r, j)[n - 1] = Kept(s, j)[n - 1]
      <4> DEFINE m == n - 1
      <4>1. /\ r \in Seq(S) /\ s \in Seq(S) /\ m \in Nat /\ m \in 0..m
            /\ m <= Len(r) /\ m <= Len(s) /\ \A k \in 1..m : r[k] = s[k]
        BY <1>0, <2>3, <3>1
      <4> HIDE DEF m
      <4>2. Kept(r, j)[m] = Kept(s, j)[m]
        BY <4>1, KeptPrefix
      <4> QED BY <4>2 DEF m
    <3>3. n \in 1..Len(r) /\ ~ KnownBy(p, j) /\ ~ KnownBy(s[n], j)
      BY <2>1, <2>3 DEF KnownBy
    <3>4. Kept(r, j)[n] = Sifted(Kept(r, j)[n - 1], r[n], j)
      BY <2>3, <3>3, KeptRun
    <3>5. Kept(s, j)[n] = Sifted(Kept(s, j)[n - 1], s[n], j)
      BY <1>0, <2>1, KeptRun
    <3>6. Kept(r, j)[n] = Kept(s, j)[n]
      BY <2>3, <3>2, <3>3, <3>4, <3>5 DEF Sifted
    <3> QED BY <2>3, <3>6 DEF Confirmed
  <2> QED BY <2>5, <2>6 DEF r
<1>4. CASE s # <<>> /\ s[n].kind = p.kind /\ ~ MoreExtreme(p, s[n])
  <2>1. r = s
    BY <1>4 DEF Absorb
  <2>2. s[n].index + Lookback <= i
    <3>1. n \in 1..n
      BY <1>0, <1>4
    <3> QED BY <1>0, <1>4, <1>a, <1>c, <3>1
  <2>3. s \in Swings(series, i)
    BY <1>0, <1>4, <1>a, <1>b, <2>2 DEF Swings, S
  <2> QED BY <2>1, <2>3
<1> QED BY <1>1, <1>2, <1>3, <1>4

\* Bar i changes nothing of what was known before it.
LEMMA RecognisedKeeps ==
    ASSUME NEW B, NEW series \in Seq(B), NEW i \in 1..Len(series), NEW s \in Swings(series, i - 1)
    PROVE  /\ Recognised(series, s, i) \in Swings(series, i)
           /\ \A j \in 0..(i - 1) : Confirmed(Recognised(series, s, i), j) = Confirmed(s, j)
<1> DEFINE S == Swing(series)
<1>0. s \in Swings(series, i)
  <2>1. s \in Seq(S) /\ \A k \in 1..Len(s) : s[k] \in S
    BY DEF Swings
  <2>2. /\ \A k \in 1..(Len(s) - 1) : /\ s[k].kind # s[k + 1].kind
                                      /\ s[k].index < s[k + 1].index
                                      /\ KnownBy(s[k], i - 1)
        /\ s # <<>> => /\ s[Len(s)].confirmed = NotYet
                       /\ s[Len(s)].index + Lookback <= i - 1
    BY DEF Swings
  <2>3. \A x \in S : /\ x.index \in Int
                     /\ KnownBy(x, i - 1) => KnownBy(x, i)
                     /\ x.index + Lookback <= i - 1 => x.index + Lookback <= i
    BY LookbackAssumption DEF KnownBy, Swing
  <2>4. s # <<>> => Len(s) \in 1..Len(s)
    BY <2>1
  <2> HIDE DEF S
  <2> QED BY <2>1, <2>2, <2>3, <2>4 DEF Swings, S
<1>1. CASE i <= 2 * Lookback
  BY <1>0, <1>1 DEF Recognised
<1>2. CASE ~(i <= 2 * Lookback)
  <2> DEFINE k == i - Lookback
             found == PivotAt(series, k)
  <2>1. k \in DOMAIN series /\ k + Lookback = i /\ i \in Nat
    BY <1>2, LookbackAssumption
  <2> HIDE DEF k
  <2>2. CASE found = <<>>
    BY <1>0, <1>2, <2>2 DEF Recognised, k
  <2>3. ASSUME NEW p \in Swing(series), found = <<p>>, p.index = k, p.confirmed = NotYet
        PROVE  Recognised(series, s, i) = Absorb(s, p)
    <3>1. found # <<>> /\ found[1] = p
      BY <2>3
    <3> QED BY <1>2, <3>1 DEF Recognised, k
  <2>4. ASSUME NEW p \in Swing(series), p.confirmed = NotYet, p.index = k
        PROVE  /\ Absorb(s, p) \in Swings(series, i)
               /\ \A j \in 0..(i - 1) : Confirmed(Absorb(s, p), j) = Confirmed(s, j)
    BY <2>1, <2>4, AbsorbKeeps
  <2>5. found = <<>> \/ \E p \in Swing(series) : found = <<p>> /\ p.index = k /\ p.confirmed = NotYet
    BY <2>1, PivotTyped
  <2> HIDE DEF found
  <2> QED BY <2>2, <2>3, <2>4, <2>5
<1> QED BY <1>1, <1>2

\* The loop of the engine has its run.
LEMMA SwingsRun ==
    ASSUME NEW B, NEW series \in Seq(B)
    PROVE  /\ SwingsAfter(series)[0] = <<>>
           /\ \A i \in 1..Len(series) :
                  SwingsAfter(series)[i] = Recognised(series, SwingsAfter(series)[i - 1], i)
           /\ \A i \in 0..Len(series) : SwingsAfter(series)[i] \in Swings(series, i)
<1> DEFINE n == Len(series)
           Upto(m, f) == f[0] = <<>> /\ \A i \in 1..m : f[i] = Recognised(series, f[i - 1], i)
           G == {m \in 0..n : \E f : Upto(m, f)}
           Follows(f) == f = [i \in 0..n |-> IF i = 0 THEN <<>> ELSE Recognised(series, f[i - 1], i)]
<1>1. n \in Nat /\ n \in 0..n /\ 0 \in 0..n
  OBVIOUS
<1> HIDE DEF n
<1>2. G \in SUBSET (0..n) /\ 0 \in G
  <2>1. Upto(0, [i \in {0} |-> <<>>])
    OBVIOUS
  <2> HIDE DEF Upto
  <2> QED BY <1>1, <2>1
<1>3. ASSUME NEW m \in 1..n, m - 1 \in G PROVE m \in G
  <2>1. PICK f : Upto(m - 1, f)
    BY <1>3
  <2> DEFINE g == [i \in 0..m |-> IF i < m THEN f[i] ELSE Recognised(series, f[m - 1], m)]
  <2>2. Upto(m, g)
    <3>1. m \in Nat /\ m # 0
      BY <1>1
    <3>2. ASSUME NEW i \in 1..m PROVE g[i] = Recognised(series, g[i - 1], i)
      <4>1. g[i - 1] = f[i - 1]
        BY <3>1
      <4>2. CASE i = m
        BY <4>1, <4>2, <3>1
      <4>3. CASE i # m
        BY <4>1, <4>3, <3>1, <2>1
      <4> QED BY <4>2, <4>3
    <3> QED BY <2>1, <3>1, <3>2
  <2> HIDE DEF Upto, g
  <2> QED BY <2>2
<1>4. PICK f : Upto(n, f)
  <2> HIDE DEF G
  <2>1. \A m \in 0..n : m \in G
    BY <1>1, <1>2, <1>3, Induction
  <2> QED BY <1>1, <2>1 DEF G
<1>5. Follows([i \in 0..n |-> f[i]])
  BY <1>1, <1>4
<1> DEFINE h == SwingsAfter(series)
<1>6. Follows(h)
  BY <1>5 DEF SwingsAfter, n
<1> HIDE DEF h
<1>7. h[0] = <<>> /\ \A i \in 1..n : h[i] = Recognised(series, h[i - 1], i)
  BY <1>1, <1>6
<1>8. \A m \in 0..n : h[m] \in Swings(series, m)
  <2> DEFINE H == {m \in 0..n : h[m] \in Swings(series, m)}
  <2>1. H \in SUBSET (0..n) /\ 0 \in H
    <3>1. <<>> \in Swings(series, 0)
      BY DEF Swings
    <3> QED BY <1>1, <1>7, <3>1
  <2>2. \A m \in 1..n : m - 1 \in H => m \in H
    BY <1>1, <1>7, RecognisedKeeps DEF n
  <2>3. \A m \in 0..n : m \in H
    <3> HIDE DEF H
    <3> QED BY <1>1, <2>1, <2>2, Induction
  <2> QED BY <2>3
<1> QED BY <1>7, <1>8 DEF n, h

\* Two series agree on their first n bars.
AgreeUpTo(n, a, b) == n <= Len(a) /\ n <= Len(b) /\ \A k \in 1..n : a[k] = b[k]

\* The engine reads a series from left to right only.
LEMMA SwingsArePrefixes ==
    ASSUME NEW B, NEW a \in Seq(B), NEW b \in Seq(B), NEW n \in Nat, AgreeUpTo(n, a, b)
    PROVE  \A i \in 0..n : SwingsAfter(a)[i] = SwingsAfter(b)[i]
<1> DEFINE G == {i \in 0..n : SwingsAfter(a)[i] = SwingsAfter(b)[i]}
<1>1. G \in SUBSET (0..n) /\ 0 \in G
  BY SwingsRun
<1>2. ASSUME NEW m \in 1..n, m - 1 \in G PROVE m \in G
  <2>1. m \in 1..Len(a) /\ m \in 1..Len(b)
    BY DEF AgreeUpTo
  <2>2. ASSUME NEW s PROVE Recognised(a, s, m) = Recognised(b, s, m)
    <3>1. CASE m <= 2 * Lookback
      BY <3>1 DEF Recognised
    <3>2. CASE ~(m <= 2 * Lookback)
      <4> DEFINE k == m - Lookback
      <4>1. k \in 1..n /\ \A d \in 1..Lookback : k - d \in 1..n /\ k + d \in 1..n
        BY <3>2, LookbackAssumption
      <4>2. a[k] = b[k] /\ \A d \in 1..Lookback : a[k - d] = b[k - d] /\ a[k + d] = b[k + d]
        BY <4>1 DEF AgreeUpTo
      <4> HIDE DEF k
      <4>3. PivotAt(a, k) = PivotAt(b, k)
        BY <4>2 DEF PivotAt, IsSwingHigh, IsSwingLow
      <4> QED BY <4>3 DEF Recognised, k
    <3> QED BY <3>1, <3>2
  <2>3. SwingsAfter(a)[m] = Recognised(a, SwingsAfter(a)[m - 1], m)
    BY <2>1, SwingsRun
  <2>4. SwingsAfter(b)[m] = Recognised(b, SwingsAfter(b)[m - 1], m)
    BY <2>1, SwingsRun
  <2> QED BY <1>2, <2>2, <2>3, <2>4
<1>3. \A m \in 0..n : m \in G
  <2> HIDE DEF G
  <2> QED BY <1>1, <1>2, Induction
<1> QED BY <1>3

\* What a series tells of one of its bars, every longer one tells too.
LEMMA LongerSeries ==
    ASSUME NEW B, NEW a \in Seq(B), NEW b \in Seq(B), AgreeUpTo(Len(a), a, b)
    PROVE  \A j \in 0..Len(a) : Confirmed(FindSwings(b), j) = Confirmed(FindSwings(a), j)
<1> SUFFICES ASSUME NEW j \in 0..Len(a)
             PROVE  Confirmed(FindSwings(b), j) = Confirmed(FindSwings(a), j)
  OBVIOUS
<1> DEFINE n == Len(a)
           m == Len(b) - n
           G == {d \in 0..m : Confirmed(SwingsAfter(b)[n + d], j) = Confirmed(FindSwings(a), j)}
<1>1. n \in Nat /\ m \in Nat /\ n + m = Len(b) /\ j \in 0..n
  BY DEF AgreeUpTo
<1> HIDE DEF n, m
<1>2. G \in SUBSET (0..m) /\ 0 \in G
  <2>1. SwingsAfter(b)[n] = SwingsAfter(a)[n]
    BY <1>1, SwingsArePrefixes DEF n
  <2>2. n + 0 = n /\ 0 \in 0..m
    BY <1>1
  <2> QED BY <2>1, <2>2 DEF FindSwings, n
<1>3. ASSUME NEW d \in 1..m, d - 1 \in G PROVE d \in G
  <2> DEFINE i == n + d
  <2>1. i \in 1..Len(b) /\ i - 1 \in 0..Len(b) /\ i - 1 = n + (d - 1) /\ j \in 0..(i - 1) /\ d \in 0..m
    BY <1>1
  <2> HIDE DEF i
  <2>2. /\ SwingsAfter(b)[i - 1] \in Swings(b, i - 1)
        /\ SwingsAfter(b)[i] = Recognised(b, SwingsAfter(b)[i - 1], i)
    BY <2>1, SwingsRun
  <2>3. Confirmed(SwingsAfter(b)[i], j) = Confirmed(SwingsAfter(b)[i - 1], j)
    BY <2>1, <2>2, RecognisedKeeps
  <2>4. Confirmed(SwingsAfter(b)[i], j) = Confirmed(FindSwings(a), j)
    BY <1>3, <2>1, <2>3
  <2> QED BY <2>1, <2>4 DEF i
<1>4. \A d \in 0..m : d \in G
  <2> HIDE DEF G
  <2> QED BY <1>1, <1>2, <1>3, Induction
<1>5. Confirmed(SwingsAfter(b)[n + m], j) = Confirmed(FindSwings(a), j)
  <2>1. m \in 0..m
    BY <1>1
  <2>2. m \in G
    <3> HIDE DEF G
    <3> QED BY <1>4, <2>1, Zenon
  <2> QED BY <2>2, Zenon
<1> QED BY <1>1, <1>5 DEF FindSwings

-----------------------------------------------------------------------------
(* What a reader may use on the last bar of a series.                         *)

\* The longer of two prefixes that agree is the shorter one and an element.
LEMMA PrefixGrows ==
    ASSUME NEW S, NEW s \in Seq(S), NEW r \in Seq(S), NEW m \in Nat, m <= Len(s), m < Len(r),
           \A k \in 1..m : r[k] = s[k]
    PROVE  SubSeq(r, 1, m + 1) = Append(SubSeq(s, 1, m), r[m + 1])
<1> DEFINE u == SubSeq(r, 1, m + 1)
           v == SubSeq(s, 1, m)
<1>1. u \in Seq(S) /\ Len(u) = m + 1 /\ \A k \in 1..(m + 1) : u[k] = r[k]
  OBVIOUS
<1>2. v \in Seq(S) /\ Len(v) = m /\ \A k \in 1..m : v[k] = s[k]
  OBVIOUS
<1>3. r[m + 1] \in S
  OBVIOUS
<1> HIDE DEF u, v
<1>4. /\ Append(v, r[m + 1]) \in Seq(S) /\ Len(Append(v, r[m + 1])) = m + 1
      /\ \A k \in 1..m : Append(v, r[m + 1])[k] = v[k]
      /\ Append(v, r[m + 1])[m + 1] = r[m + 1]
  BY <1>2, <1>3
<1>5. \A k \in 1..(m + 1) : u[k] = Append(v, r[m + 1])[k]
  BY <1>1, <1>2, <1>4
<1> QED BY <1>1, <1>4, <1>5 DEF u, v

\* All swings but the last are known.
LEMMA AllButLastKnown ==
    ASSUME NEW B, NEW series \in Seq(B), NEW i \in Nat, NEW s \in Swings(series, i)
    PROVE  Confirmed(s, i) = SubSeq(s, 1, Len(s) - 1)
<1> DEFINE S == Swing(series)
           n == Len(s)
           G == {k \in 0..n : k < n => Kept(s, i)[k] = SubSeq(s, 1, k)}
<1>1. /\ s \in Seq(S) /\ n \in Nat
      /\ \A k \in 1..(n - 1) : KnownBy(s[k], i)
      /\ n # 0 => s[n].confirmed = NotYet
  <2>1. s \in Seq(S)
    BY DEF Swings
  <2> QED BY <2>1 DEF Swings
<1> HIDE DEF S
<1>2. G \in SUBSET (0..n) /\ 0 \in G
  <2>1. Kept(s, i)[0] = <<>> /\ SubSeq(s, 1, 0) = <<>>
    BY <1>1, KeptRun
  <2>2. 0 \in 0..n /\ Kept(s, i)[0] = SubSeq(s, 1, 0)
    BY <1>1, <2>1
  <2>3. 0 \in G
    BY <2>2
  <2> QED BY <2>3
<1>3. ASSUME NEW k \in 1..n, k - 1 \in G PROVE k \in G
  <2> SUFFICES ASSUME k < n PROVE Kept(s, i)[k] = SubSeq(s, 1, k)
    BY <1>1
  <2>1. Kept(s, i)[k] = Sifted(Kept(s, i)[k - 1], s[k], i)
    BY <1>1, KeptRun
  <2>2. KnownBy(s[k], i) /\ Kept(s, i)[k - 1] = SubSeq(s, 1, k - 1)
    BY <1>1, <1>3
  <2>3. Append(SubSeq(s, 1, k - 1), s[k]) = SubSeq(s, 1, k)
    BY <1>1
  <2> QED BY <2>1, <2>2, <2>3 DEF Sifted
<1>4. \A k \in 0..n : k \in G
  <2> HIDE DEF G
  <2> QED BY <1>1, <1>2, <1>3, Induction
<1>5. CASE n = 0
  <2>1. Kept(s, i)[n] = <<>> /\ SubSeq(s, 1, n - 1) = <<>>
    BY <1>1, <1>5, KeptRun
  <2> QED BY <2>1 DEF Confirmed
<1>6. CASE n # 0
  <2>1. n \in 1..n /\ n - 1 \in 0..n /\ n - 1 < n
    BY <1>1, <1>6
  <2>2. Kept(s, i)[n] = Sifted(Kept(s, i)[n - 1], s[n], i)
    BY <1>1, <2>1, KeptRun
  <2>3. Kept(s, i)[n - 1] = SubSeq(s, 1, n - 1)
    BY <1>4, <2>1
  <2>4. ~ KnownBy(s[n], i)
    BY <1>1, <1>6 DEF KnownBy
  <2> QED BY <2>2, <2>3, <2>4 DEF Sifted, Confirmed
<1> QED BY <1>5, <1>6

\* A bar closes at most the last swing and begins at most one.
LEMMA RecognisedGrows ==
    ASSUME NEW B, NEW series \in Seq(B), NEW i \in 1..Len(series), NEW S, NEW s \in Seq(S)
    PROVE  LET r == Recognised(series, s, i)
           IN  /\ Len(r) = Len(s) \/ Len(r) = Len(s) + 1
               /\ \A k \in 1..(Len(s) - 1) : r[k] = s[k]
<1> DEFINE n == Len(s)
           Grown(r) == (Len(r) = n \/ Len(r) = n + 1) /\ \A k \in 1..(n - 1) : r[k] = s[k]
<1>1. n \in Nat /\ Grown(s)
  OBVIOUS
<1>2. ASSUME NEW p PROVE Grown(Absorb(s, p))
  <2>1. CASE s = <<>>
    <3>1. Absorb(s, p) = <<p>> /\ n = 0
      BY <2>1 DEF Absorb
    <3> QED BY <3>1
  <2>2. CASE s # <<>> /\ s[n].kind # p.kind
    <3> DEFINE closed == [s[n] EXCEPT !.confirmed = p.index + Lookback]
               T == S \cup {closed, p}
    <3>1. Absorb(s, p) = Append([s EXCEPT ![n] = closed], p)
      BY <2>2 DEF Absorb
    <3>2. s \in Seq(T) /\ closed \in T /\ p \in T /\ n \in 1..n
      <4>1. s \in Seq(T)
        BY SMT
      <4>2. n \in 1..n
        BY <1>1, <2>2
      <4> QED BY <4>1, <4>2
    <3> HIDE DEF T, closed
    <3>3. [s EXCEPT ![n] = closed] \in Seq(T) /\ Len([s EXCEPT ![n] = closed]) = n
      BY <3>2
    <3>4. \A k \in 1..(n - 1) : [s EXCEPT ![n] = closed][k] = s[k]
      BY <3>2
    <3> DEFINE c == [s EXCEPT ![n] = closed]
    <3>5. c \in Seq(T) /\ Len(c) = n /\ \A k \in 1..(n - 1) : c[k] = s[k]
      BY <3>3, <3>4
    <3> HIDE DEF c
    <3>6. Len(Append(c, p)) = n + 1 /\ \A k \in 1..(n - 1) : Append(c, p)[k] = s[k]
      BY <1>1, <3>2, <3>5
    <3> QED BY <3>1, <3>6 DEF c
  <2>3. CASE s # <<>> /\ s[n].kind = p.kind /\ MoreExtreme(p, s[n])
    <3> DEFINE T == S \cup {p}
    <3>1. Absorb(s, p) = [s EXCEPT ![n] = p]
      BY <2>3 DEF Absorb
    <3>2. s \in Seq(T) /\ p \in T
      BY SMT
    <3> HIDE DEF T
    <3> QED BY <1>1, <3>1, <3>2
  <2>4. CASE s # <<>> /\ s[n].kind = p.kind /\ ~ MoreExtreme(p, s[n])
    BY <1>1, <2>4 DEF Absorb
  <2> QED BY <2>1, <2>2, <2>3, <2>4
<1> HIDE DEF Grown
<1>3. Grown(Recognised(series, s, i))
  BY <1>1, <1>2 DEF Recognised
<1> QED BY <1>3 DEF Grown

KnownSwings(series) == Confirmed(FindSwings(series), Len(series))

\* Swings alternate, and come in the order of their bars.
InOrder(s) ==
    \A k \in 1..(Len(s) - 1) : s[k].kind # s[k + 1].kind /\ s[k].index < s[k + 1].index

LEMMA KnownInOrder ==
    ASSUME NEW B, NEW series \in Seq(B)
    PROVE  KnownSwings(series) \in Seq(Swing(series)) /\ InOrder(KnownSwings(series))
<1> DEFINE n == Len(series)
           s == FindSwings(series)
           S == Swing(series)
<1>1. n \in Nat /\ n \in 0..n
  OBVIOUS
<1>2. s \in Swings(series, n)
  BY <1>1, SwingsRun DEF FindSwings
<1> HIDE DEF s
<1>3. KnownSwings(series) = SubSeq(s, 1, Len(s) - 1)
  BY <1>1, <1>2, AllButLastKnown DEF KnownSwings, s
<1>4. s \in Seq(S) /\ \A k \in 1..(Len(s) - 1) : s[k].kind # s[k + 1].kind /\ s[k].index < s[k + 1].index
  BY <1>2 DEF Swings
<1> HIDE DEF S
<1>5. SubSeq(s, 1, Len(s) - 1) \in Seq(S)
  BY <1>4
<1>6. InOrder(SubSeq(s, 1, Len(s) - 1))
  <2> DEFINE k0 == SubSeq(s, 1, Len(s) - 1)
  <2>1. \A k \in 1..Len(k0) : k \in 1..(Len(s) - 1) /\ k0[k] = s[k]
    BY <1>4
  <2>2. Len(k0) \in Nat
    BY <1>4
  <2> HIDE DEF k0
  <2>3. \A k \in 1..(Len(k0) - 1) : k \in 1..Len(k0) /\ k + 1 \in 1..Len(k0)
    BY <2>2
  <2>4. InOrder(k0)
    BY <1>4, <2>1, <2>3 DEF InOrder
  <2> QED BY <2>4 DEF k0
<1> QED BY <1>3, <1>5, <1>6 DEF S

\* One more bar makes at most one more swing known, and changes none.
LEMMA KnownGrows ==
    ASSUME NEW B, NEW a \in Seq(B), NEW b \in Seq(B), AgreeUpTo(Len(a), a, b), Len(b) = Len(a) + 1
    PROVE  \/ KnownSwings(b) = KnownSwings(a)
           \/ \E x \in Swing(b) : KnownSwings(b) = Append(KnownSwings(a), x)
<1> DEFINE n == Len(a)
           s == FindSwings(a)
           r == FindSwings(b)
           S == Swing(a) \cup Swing(b)
<1>1. n \in Nat /\ n \in 0..n /\ n + 1 \in 1..Len(b) /\ (n + 1) - 1 = n /\ n + 1 \in 0..Len(b) /\ n + 1 \in Nat
  OBVIOUS
<1>2. s = SwingsAfter(b)[n]
  BY <1>1, SwingsArePrefixes DEF FindSwings
<1>3. r = Recognised(b, s, n + 1)
  BY <1>1, <1>2, SwingsRun DEF FindSwings
<1>4. s \in Swings(a, n) /\ r \in Swings(b, n + 1)
  BY <1>1, SwingsRun DEF FindSwings
<1> HIDE DEF s, r
<1>5. /\ KnownSwings(a) = SubSeq(s, 1, Len(s) - 1)
      /\ KnownSwings(b) = SubSeq(r, 1, Len(r) - 1)
  BY <1>1, <1>4, AllButLastKnown DEF KnownSwings, s, r
<1>6. s \in Seq(Swing(a)) /\ r \in Seq(Swing(b))
  BY <1>4 DEF Swings
<1>7. /\ Len(r) = Len(s) \/ Len(r) = Len(s) + 1
      /\ \A k \in 1..(Len(s) - 1) : r[k] = s[k]
  BY <1>1, <1>3, <1>6, RecognisedGrows
<1>8. CASE Len(r) = Len(s)
  <2>1. SubSeq(r, 1, Len(r) - 1) = SubSeq(s, 1, Len(s) - 1)
    BY <1>6, <1>7, <1>8
  <2> QED BY <1>5, <2>1
<1>9. CASE Len(r) = Len(s) + 1 /\ Len(s) = 0
  <2>1. SubSeq(r, 1, Len(r) - 1) = <<>> /\ SubSeq(s, 1, Len(s) - 1) = <<>>
    BY <1>6, <1>9
  <2> QED BY <1>5, <2>1
<1>10. CASE Len(r) = Len(s) + 1 /\ Len(s) # 0
  <2> DEFINE m == Len(s)
  <2>1. m \in Nat /\ m # 0 /\ m \in 1..Len(r) /\ Len(r) - 1 = m
    BY <1>6, <1>10
  <2>2. r[m] \in Swing(b)
    BY <1>6, <2>1
  <2>3. SubSeq(r, 1, m) = Append(SubSeq(s, 1, m - 1), r[m])
    <3> DEFINE k == m - 1
    <3>1. s \in Seq(S) /\ r \in Seq(S)
      BY <1>6, SMT
    <3>2. k \in Nat /\ k + 1 = m /\ k <= Len(s) /\ k < Len(r) /\ \A j \in 1..k : r[j] = s[j]
      <4>1. \A j \in 1..k : r[j] = s[j]
        BY <1>7
      <4>2. Len(s) \in Nat /\ Len(r) = Len(s) + 1
        BY <1>6, <1>10
      <4> QED BY <2>1, <4>1, <4>2
    <3> HIDE DEF S, k
    <3>3. SubSeq(r, 1, k + 1) = Append(SubSeq(s, 1, k), r[k + 1])
      BY <3>1, <3>2, PrefixGrows
    <3> QED BY <3>2, <3>3 DEF k
  <2> QED BY <1>5, <2>1, <2>2, <2>3
<1> QED BY <1>7, <1>8, <1>9, <1>10, <1>6
=============================================================================
