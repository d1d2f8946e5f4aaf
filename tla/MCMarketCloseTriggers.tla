------------------------ MODULE MCMarketCloseTriggers ------------------------
(***************************************************************************)
(* Instances of MarketCloseTriggers for TLC.                               *)
(***************************************************************************)
EXTENDS MarketCloseTriggers

ThreeDays     == 1 .. 3
FirstAndThird == {1, 3}

=============================================================================
