--------------------------- MODULE Reconciliation ----------------------------
(***************************************************************************)
(* A judge over the tasks of TradingCore: was the reconciler right?  It    *)
(* adds one history variable and constrains nothing: it notes whether the  *)
(* cache was true when a pass of check_once (reconciler.py) began, and     *)
(* whether the account has stayed as it was since.                         *)
(***************************************************************************)
EXTENDS TradingCore

VARIABLE pass  \* history: of the reconciler's pass, if there is one

judgedVars == <<vars, pass>>

(* The cache tells the account.                                            *)
CacheTrue == cachePos = pos /\ cacheOrders = Resting

(* The step leaves the account alone: the positions, and which orders rest.*)
AccountStays == pos' = pos /\ Resting' = Resting

Judge ==
  pass' = CASE rec'.at \in {"idle", "dead"} -> "none"
            [] rec.at = "idle" /\ rec'.at # "idle" -> IF CacheTrue THEN "true" ELSE "untrue"
            [] OTHER -> IF AccountStays THEN pass ELSE "moved"

JudgedInit == Init /\ pass = "none"
JudgedNext == Next /\ Judge
JudgedSpec == JudgedInit /\ [][JudgedNext]_judgedVars
FairJudgedSpec == JudgedSpec /\ Fairness

-----------------------------------------------------------------------------
(* Properties                                                              *)

(* On an account that does not move during its pass the reconciler is      *)
(* right, whatever refreshes and cancels overlap it: it halts for a        *)
(* divergence only if the cache it began with was untrue, and finds none   *)
(* only if it was true (reconciler.py:73-98).  An order of the router's    *)
(* own that comes to rest during the pass moves the account.               *)
ReconcilerIsRight ==
  /\ rec.at = "halt" => pass # "true"
  /\ rec.at = "note" => pass # "untrue"
=============================================================================
