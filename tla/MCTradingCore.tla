--------------------------- MODULE MCTradingCore ----------------------------
(* TradingCore with small sets of symbols and order slots.                 *)
EXTENDS TradingCore, TLC

CONSTANTS btc, eth, o1, o2

Long == {1}
Symmetry == Permutations(Oids) \cup Permutations(Symbols)
=============================================================================
