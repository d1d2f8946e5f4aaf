--------------------------- MODULE MCDecisionChain ---------------------------
(***************************************************************************)
(* Instances of DecisionChain for TLC. An event is named for its symbol    *)
(* (a, b, c are 1, 2, 3) and its session; symbols 1 and 2 share a risk     *)
(* group. The limits are scaled down to two units in total and one per     *)
(* group: the total binds with three symbols, the group limit with two.    *)
(***************************************************************************)
EXTENDS DecisionChain

LOCAL INSTANCE SequencesExt
LOCAL INSTANCE TLC

CONSTANTS a1, a2, a3, b1, c2, g, h, r1, r2, r3, r4

TwoSymbols   == {a1, a3, b1}
ThreeSymbols == {a1, a2, b1, c2}

MCSymbolOf == [e \in Events |-> CASE e \in {a1, a2, a3} -> 1 [] e = b1 -> 2 [] OTHER -> 3]
MCSignalOf == [e \in Events |-> CASE e \in {a1, b1} -> 1 [] e = a3 -> 3 [] OTHER -> 2]
MCGroupOf  == [e \in Events |-> IF e = c2 THEN h ELSE g]
MCRank     == [e \in Events |-> CASE e = b1 -> 1 [] e = c2 -> 2 [] e = a1 -> 3 [] OTHER -> 4]

LateBar == {<<1, 2>>}
NoGap   == {}

AnyRun == Permutations(Runs)

\* The loop of PortfolioRiskEngine.reserve, as written: the candidates in the
\* order of candidate_order_key, each admitted against what is taken so far.
ReserveLoop(taken, candidates) ==
    LET order == SetToSortSeq(candidates, LAMBDA c, d : Rank[c] < Rank[d])
        Take(c, S) == IF Admits(S, c) THEN S \cup {c} ELSE S
    IN  FoldLeft(LAMBDA S, c : Take(c, S), taken, order) \ taken

ASSUME \A taken, candidates \in SUBSET Events :
         taken \cap candidates = {} =>
           \A G \in SUBSET candidates :
             IsReservation(taken, candidates, G) <=> G = ReserveLoop(taken, candidates)

=============================================================================
