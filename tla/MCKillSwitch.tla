---------------------------- MODULE MCKillSwitch ----------------------------
(* The kill switch under its operators, if any, on small accounts: two     *)
(* orders in two coins, or one order.                                      *)
EXTENDS TelegramCommands, TLC

CONSTANTS o1, o2, btc, eth, watchdog, reconciler, operator

TwoCoins == o1 :> btc @@ o2 :> eth
OneOrder == o1 :> btc
=============================================================================
