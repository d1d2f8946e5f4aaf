-------------------------- MODULE FinalNotification --------------------------
(***************************************************************************)
(* What the marker protocol promises about the final report: a session is  *)
(* held by at most one run, for ever, and only its holder delivers, once.  *)
(* A claim whose outcome the claimer never learned is lost: the session    *)
(* stays closed and nobody delivers.                                       *)
(***************************************************************************)
CONSTANTS Runs, Sessions, Nobody, Lost

VARIABLES holder, delivered

vars == <<holder, delivered>>

Init ==
    /\ holder = [s \in Sessions |-> Nobody]
    /\ delivered = {}

Claim(s, r) ==
    /\ holder[s] = Nobody
    /\ holder' = [holder EXCEPT ![s] = r]
    /\ UNCHANGED delivered

Deliver(s) ==
    /\ holder[s] \in Runs
    /\ s \notin delivered
    /\ delivered' = delivered \cup {s}
    /\ UNCHANGED holder

Next == \E s \in Sessions : Deliver(s) \/ \E r \in Runs \cup {Lost} : Claim(s, r)

Spec == Init /\ [][Next]_vars

=============================================================================
