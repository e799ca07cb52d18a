--------------------------- MODULE MCRiskManager ---------------------------
(* A small Risk Manager for TLC: two days of four slots, three of them in  *)
(* the session, one-point wins and losses.                                 *)
EXTENDS RiskManager

MCPnls == {-1, 0, 1}

\* One order within every size limit and one that breaks the value limit.
MCOrders ==
  {[quantity |-> 1, value |-> 1, capital |-> NoValue],
   [quantity |-> 1, value |-> 3, capital |-> NoValue]}
=============================================================================
