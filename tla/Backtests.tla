----------------------------- MODULE Backtests ------------------------------
(***************************************************************************)
(* The two backtest scripts, src/scripts/run_backtest.py and               *)
(* run_funding_backtest.py: download or read the history, then simulate    *)
(* over what came back.  A script may be run again at a later time, over   *)
(* the files it left.                                                      *)
(***************************************************************************)
EXTENDS HistoryCache, BacktestSimulator, FundingSimulator

VARIABLE ran  \* whether the history that was loaded has gone to a simulator

vars == <<cacheVars, simVars, fundingVars, ran>>

Init == CacheInit /\ SimInit /\ FundingInit /\ ran = FALSE

Sorted(times) ==
  CHOOSE s \in [1..Cardinality(times) -> times] :
    \A i, j \in DOMAIN s : i < j => s[i] < s[j]

(* The loaders of all coins find the same windows.  A script that starts   *)
(* knows nothing of the run before it.                                     *)
Load ==
  /\ CacheNext
  /\ loader = "candles" => todo = {} /\ coin = NoCoin
  /\ loader = "funding" => rows = <<>>
  /\ ran' = (ran /\ step' = step)
  /\ IF step # "loading" /\ step' = "loading"
     THEN RunSimulation([c \in Coins |-> <<>>]) /\ Simulate(<<>>)
     ELSE UNCHANGED <<simVars, fundingVars>>

RunCandles ==
  /\ step = "done" /\ loader = "candles" /\ ~ran
  /\ RunSimulation([c \in Coins |-> Sorted({r.bar : r \in got})])
  /\ ran' = TRUE
  /\ UNCHANGED <<cacheVars, fundingVars>>

RunFunding ==
  /\ step = "done" /\ loader = "funding" /\ ~ran
  /\ Simulate(Sorted({r.bar : r \in got}))
  /\ ran' = TRUE
  /\ UNCHANGED <<cacheVars, simVars>>

Next ==
  \/ Load \/ RunCandles \/ RunFunding
  \/ SimNext /\ UNCHANGED <<cacheVars, fundingVars, ran>>
  \/ FundingNext /\ UNCHANGED <<cacheVars, simVars, ran>>

Spec == Init /\ [][Next]_vars

-----------------------------------------------------------------------------
(* Properties                                                              *)

(* A trade is held for time_stop_bars + 1 ROWS at most (bars_held counts   *)
(* rows, simulator.py:234).  It lasts longer than that in TIME only where  *)
(* a bar is missing between its ends, and a bar can only be missing        *)
(* because a file of the cache was written before that bar was over.       *)
LongTradesHaveGaps ==
  \A r \in trades :
    /\ r.held \in 1..(TimeStop + 1)
    /\ r.exit - r.entry > r.held =>
         \E b \in (r.entry + 1)..(r.exit - 1) :
           EarlyFile(b) /\ \A k \in DOMAIN candles[r.coin] : candles[r.coin][k] # b
=============================================================================
