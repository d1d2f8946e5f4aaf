--------------------------- MODULE MCHoldingsSheets ---------------------------
(* Instances of the market-data spreadsheet.                               *)
EXTENDS HoldingsSheets

CONSTANTS s1, s2, asia

OneGroup == [p \in Pipelines |-> Symbols]
AllModes == {"latest", "full"}
LatestOnly == {"latest"}

==============================================================================
