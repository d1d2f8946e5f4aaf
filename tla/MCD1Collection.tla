--------------------------- MODULE MCD1Collection ---------------------------
(* Instances of D1Collection for TLC: a scheduled run and one by hand. *)
EXTENDS D1Collection

CONSTANTS CN, US, scheduled, byHand

BothMarkets == {CN, US}
TwoRuns     == {scheduled, byHand}

\* CN goes beyond its activation window, US up to a session inside it.
UntilWindowEnds == [m \in BothMarkets |-> IF m = CN THEN 4 ELSE 2]
WholeCalendar   == [m \in Markets |-> 2 * LastSession + 1]

\* An empty store with and without the activation records, evidence of either
\* market.
SomePasts == [legacy : {{}, BothMarkets}, foreign : {{}}]
             \cup [legacy : {BothMarkets}, foreign : {{CN}, {US}}]
AnyPast   == [legacy : SUBSET Markets, foreign : SUBSET Markets]

=============================================================================
