-------------------------- MODULE MCReconciliation --------------------------
(* TradingCore and the judge of its reconciler with small sets.            *)
EXTENDS Reconciliation

CONSTANTS btc, eth, o1, o2

Long == {1}
=============================================================================
