--------------------------- MODULE ReservationBook ---------------------------
(***************************************************************************)
(* What the strategy risk ledger of an account promises: an event is       *)
(* proposed once, reserved only as an entry proposal and only where the    *)
(* capacity limits allow it, settled once as a fill or a release, and a    *)
(* fill stays open until its position leaves.                              *)
(***************************************************************************)
EXTENDS PortfolioRisk

CONSTANT Entry      \* events whose decision is ENTRY_ALLOWED

VARIABLE book       \* per event: where it is in its life

Life == {<<"unseen", "proposed">>, <<"proposed", "reserved">>,
         <<"reserved", "open">>, <<"reserved", "released">>, <<"open", "left">>}

Taken(b) == {e \in Events : b[e] \in {"reserved", "open"}}

BookInit == book = [e \in Events |-> "unseen"]

Advance(e) ==
    /\ <<book[e], book'[e]>> \in Life
    /\ book' = [book EXCEPT ![e] = book'[e]]
    /\ book'[e] = "reserved" => e \in Entry /\ WithinLimits(Taken(book'))

BookSpec == BookInit /\ [][\E e \in Events : Advance(e)]_book

=============================================================================
