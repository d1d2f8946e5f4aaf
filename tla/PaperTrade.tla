----------------------------- MODULE PaperTrade -----------------------------
(* What the paper ledger promises about every planned trade: one plan, one    *)
(* fate.  A plan is executed or skipped, never both and never twice; only an  *)
(* executed trade is closed, and what was recorded stays.                     *)
CONSTANT Events

VARIABLE fate

Fates == {"NONE", "PLAN", "OPEN", "SKIPPED", "CLOSED"}

\* The fate of e after the step follows from the new function; TLC looks there
\* first.
Become(e, before, after) ==
    /\ fate[e] = before /\ fate'[e] = after
    /\ fate' = [fate EXCEPT ![e] = after]

Init == fate = [e \in Events |-> "NONE"]

Next == \E e \in Events : \/ Become(e, "NONE", "PLAN")
                          \/ Become(e, "PLAN", "OPEN")
                          \/ Become(e, "PLAN", "SKIPPED")
                          \/ Become(e, "OPEN", "CLOSED")

Spec == Init /\ [][Next]_fate
=============================================================================
