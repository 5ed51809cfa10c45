--------------------------- MODULE MCRiskManager ----------------------------
(* RiskManager with three coins and two orders, from short to long.          *)
EXTENDS RiskManager, TLC

CONSTANTS btc, eth, sol, k1, k2

AskedFor == -1..2
Positions == -1..2
Dollars == -1..3
Symmetry == Permutations(Symbols) \cup Permutations(Slots)
=============================================================================
