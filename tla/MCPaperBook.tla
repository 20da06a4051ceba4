---------------------------- MODULE MCPaperBook ----------------------------
\* Two strategies, of which the id of one is part of the other's; a staking leg
\* marked by its exchange rate (1 is 60), at 1.2 or not at all, and a perpetual
\* of the same coin marked in USD or not.
EXTENDS PaperBook

PaperStrategies == {"carry", "carry-eth"}
PaperDeclared == {"carry-eth", "idle"}
PaperPartOf == {<<"carry", "carry-eth">>}
PaperCoins == [leg \in Legs |-> "ETH"]
PaperVenues == [stake |-> "lido", perp |-> "okx"]
PaperPrices == [stake |-> {60}, perp |-> {120, 180}]
PaperMarks == [stake |-> {0, 60, 72}, perp |-> {0, 180}]
PaperDeltas == {2, -1}

=============================================================================
