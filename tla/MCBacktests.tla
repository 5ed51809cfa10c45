---------------------------- MODULE MCBacktests -----------------------------
(* The backtests of one coin over a short history.                         *)
EXTENDS Backtests

CONSTANT btc

MCScores == {-4, -2, 0, 3}
=============================================================================
