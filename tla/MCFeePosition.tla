--------------------------- MODULE MCFeePosition ---------------------------
(* Amounts for TLC: a gain, a loss, a deposit and a withdrawal. *)
EXTENDS FeePosition, TLC

MCPnl == {2, -1}
MCFlows == {3, -3}
MCSymmetry == Permutations(Callers)

=============================================================================
