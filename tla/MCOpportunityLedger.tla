------------------------ MODULE MCOpportunityLedger ------------------------
(* Two events of one symbol on successive sessions.                           *)
EXTENDS OpportunityLedger

CONSTANTS a1, a2, a

MCSymbolOf == [e \in Events |-> a]
MCConfirmed == [e \in Events |-> IF e = a1 THEN 1 ELSE 2]
MCLevels == [target |-> 2, stop |-> 0]

\* Down to the stop, or up to the target.
MCBars == {[high |-> 1, low |-> 0], [high |-> 2, low |-> 1]}
=============================================================================
