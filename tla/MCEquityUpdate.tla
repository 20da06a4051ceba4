--------------------------- MODULE MCEquityUpdate ---------------------------
(* A three-day account with amounts on both sides of the noise threshold.  *)
EXTENDS EquityUpdate

MCPnlSteps == {-2, 1}

MCFlowSteps == {3}
=============================================================================
