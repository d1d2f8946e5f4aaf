--------------------------- MODULE ObservationLog ---------------------------
(* What the opportunity ledger promises of every confirmed event: it is born  *)
(* once, and then has one row for each of the sessions that follow, in their  *)
(* order, written once.  Only the newest row can hold an observation: what    *)
(* lies before it and was not written in time is an explicit gap.  The rows   *)
(* of a kind are a set, so that a second one would show.                      *)
EXTENDS Naturals

CONSTANTS Events, Tracking

VARIABLES
    birth,      \* the birth rows of an event: none or one
    log         \* the rows of its k-th session: none or one

IsOne(rows) == \E x \in rows : rows = {x}

Birth ==
    /\ \A e \in Events : birth'[e] = birth[e] \/ (birth[e] = {} /\ IsOne(birth'[e]))
    /\ UNCHANGED log

New(e, k) == log[e][k] = {} /\ log'[e][k] # {}

\* Rows are added behind the last one of their event, and stay.
Observe ==
    /\ \A e \in Events, k \in 1..Tracking :
          /\ log'[e][k] = log[e][k] \/ (New(e, k) /\ IsOne(log'[e][k]))
          /\ New(e, k) => /\ birth[e] # {}
                          /\ k > 1 => log'[e][k - 1] # {}
          /\ New(e, k) /\ k < Tracking /\ log'[e][k + 1] # {}
                => \A x \in log'[e][k] : x.status = "MISSED_OBSERVATION_SESSION"
    /\ UNCHANGED birth

Init ==
    /\ birth = [e \in Events |-> {}]
    /\ log = [e \in Events |-> [k \in 1..Tracking |-> {}]]

Next == Birth \/ Observe

Spec == Init /\ [][Next]_<<birth, log>>
=============================================================================
