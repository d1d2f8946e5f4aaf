--------------------------- MODULE SessionEvidence ---------------------------
(***************************************************************************)
(* What the D1 store promises about prospective evidence: one snapshot per *)
(* market and session, bound once and never replaced, and no report of     *)
(* success about a session that is not bound to the snapshot reported.     *)
(***************************************************************************)
CONSTANTS Keys, Snapshots, None

VARIABLES evidence, reported

vars == <<evidence, reported>>

Init ==
    /\ evidence \in [Keys -> Snapshots \cup {None}]
    /\ reported = {}

\* The value at k follows from the new function; TLC looks there first.
Bind(k, x) ==
    /\ evidence[k] = None /\ evidence'[k] = x
    /\ evidence' = [evidence EXCEPT ![k] = x]
    /\ UNCHANGED reported

Report(k) ==
    /\ evidence[k] # None
    /\ reported' = reported \cup {<<k, evidence[k]>>}
    /\ UNCHANGED evidence

Next == \E k \in Keys : Report(k) \/ \E x \in Snapshots : Bind(k, x)

Spec == Init /\ [][Next]_vars

=============================================================================
