---------------------------- MODULE PortfolioRisk ----------------------------
(***************************************************************************)
(* The capacity gate of trading/portfolio_risk.py. Every reservation and   *)
(* every open position weighs one unit of BASE_RISK_FRACTION of the        *)
(* account's allocation budget; MAX_TOTAL_OPEN_RISK_FRACTION is four units *)
(* and MAX_RISK_PER_GROUP_FRACTION two. A position is named by the event   *)
(* that opened it.                                                         *)
(***************************************************************************)
EXTENDS Integers, FiniteSets

CONSTANTS
    Events,         \* CONFIRMED events of SETUP_01 and SETUP_02
    SymbolOf,       \* the symbol of an event
    GroupOf,        \* the accepted risk group of an event's symbol
    UnknownGroup,   \* no accepted group
    Rank,           \* candidate_order_key: R/R quality, planned R/R, symbol
    MaxUnits,
    MaxGroupUnits

ASSUME PortfolioAssumption ==
    /\ IsFiniteSet(Events)
    /\ Rank \in [Events -> Nat]
    /\ \A c, d \in Events : Rank[c] = Rank[d] => c = d
    /\ MaxUnits \in Nat
    /\ MaxGroupUnits \in Nat

InGroup(S, g) == {x \in S : GroupOf[x] = g}

OnePerSymbol(S) == \A x, y \in S : SymbolOf[x] = SymbolOf[y] => x = y

\* What the limits mean for a set of reservations and positions.
WithinLimits(S) ==
    /\ Cardinality(S) <= MaxUnits
    /\ \A x \in S : GroupOf[x] # UnknownGroup =>
                      Cardinality(InGroup(S, GroupOf[x])) <= MaxGroupUnits
    /\ OnePerSymbol(S)

\* The branch of reserve that sets RESERVED for candidate c when S is taken.
Admits(S, c) ==
    /\ \A x \in S : SymbolOf[x] # SymbolOf[c]
    /\ GroupOf[c] # UnknownGroup
    /\ Cardinality(InGroup(S, GroupOf[c])) + 1 <= MaxGroupUnits
    /\ Cardinality(S) + 1 <= MaxUnits

\* reserve: the candidates are taken in the order of Rank, each against the
\* existing positions and the reservations made before it.
IsReservation(existing, candidates, G) ==
    /\ G \subseteq candidates
    /\ \A c \in candidates :
         c \in G <=> Admits(existing \cup {g \in G : Rank[g] < Rank[c]}, c)

=============================================================================
