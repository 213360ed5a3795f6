------------------------- MODULE MCAggregationOrder -------------------------
(* AggregationOrder for the strategies a game can register. *)
EXTENDS AggregationOrder

CONSTANTS c1, c2, p1, p2

\* coop states (some on a threshold), the board's states, and every group
GameStrategies ==
  {sync(0, "DIFFERENT"), sync(2, "DIFFERENT"), sync(0, "NONE"), sync(0, "OTHERS"), sync(0, "ALL")}
=============================================================================
