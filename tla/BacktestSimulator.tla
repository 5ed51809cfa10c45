------------------------- MODULE BacktestSimulator --------------------------
(***************************************************************************)
(* The backtest of strategy A (src/src/backtest/simulator.py): one walk    *)
(* over the candles of each coin, one step per bar.                        *)
(*                                                                         *)
(* The indicators of a bar are arbitrary, as in MeanReversion, and so are  *)
(* its open price (usable or not), the sizing (possible or not) and the    *)
(* draw that decides whether an order fills.  Prices and profits are left  *)
(* out.                                                                    *)
(***************************************************************************)
EXTENDS Integers, Sequences, FiniteSets

CONSTANTS
  Coins,        \* the coins of the backtest
  NoCoin,       \* stands for "none"
  TimeStop,     \* time_stop_bars
  ZEntry, ZTarget, ZStop, \* thresholds on the z-score
  Scores        \* the z-scores a bar may have

ASSUME SimulatorAssumption ==
  /\ IsFiniteSet(Coins) /\ NoCoin \notin Coins
  /\ {TimeStop, ZEntry, ZTarget, ZStop} \subseteq Nat
  /\ Scores \subseteq Int

VARIABLES
  candles,   \* the times of the bars of each coin, in order
  todo,      \* the coins still to walk
  coin,      \* the coin of the present walk
  t,         \* the index of its present bar
  position,  \* side and entry_idx of the open position
  trades,    \* the rows of the trades frame
  skipped,   \* skipped_signals
  signals,   \* history: the entry signals acted upon
  dropped    \* history: positions open at the end of a walk

walk == <<todo, coin, t, position>>
result == <<trades, skipped, signals, dropped>>
simVars == <<candles, walk, result>>

Indicators ==
  [known : BOOLEAN, z : Scores, rsi : {"oversold", "neutral", "overbought"}]

Flat == [side |-> "none", entry |-> 0]

SimInit ==
  /\ candles = [c \in Coins |-> <<>>]
  /\ todo = {} /\ coin = NoCoin /\ t = 0 /\ position = Flat
  /\ trades = {} /\ skipped = 0 /\ signals = 0 /\ dropped = 0

-----------------------------------------------------------------------------
(* compute_signals.  A definition that no action uses is a variant, as in  *)
(* KillSwitch.                                                             *)

(* The z-score as a long position sees it.                                 *)
Signed(side, z) == IF side = "long" THEN z ELSE -z

EntrySide(i) ==
  IF ~i.known THEN "none"
  ELSE IF i.z <= -ZEntry /\ i.rsi = "oversold" THEN "long"
  ELSE IF i.z >= ZEntry /\ i.rsi = "overbought" THEN "short"
  ELSE "none"

(* Why a position is left at a bar: stop, target, time stop.  Bars without *)
(* indicators count for the time stop only.                                *)
ReasonLate(side, held, i) ==
  IF i.known /\ Signed(side, i.z) <= -ZStop THEN "stop"
  ELSE IF i.known /\ Signed(side, i.z) >= ZTarget THEN "target"
  ELSE IF held > TimeStop + 1 THEN "time_stop"
  ELSE "none"

ReasonOneSided(side, held, i) ==
  IF i.known /\ Signed(side, i.z) <= -ZStop THEN "stop"
  ELSE IF i.known /\ i.z >= ZTarget THEN "target"
  ELSE IF held > TimeStop THEN "time_stop"
  ELSE "none"

Reason(side, held, i) ==
  IF i.known /\ Signed(side, i.z) <= -ZStop THEN "stop"
  ELSE IF i.known /\ Signed(side, i.z) >= ZTarget THEN "target"
  ELSE IF held > TimeStop THEN "time_stop"
  ELSE "none"

-----------------------------------------------------------------------------
(* run_simulation and _simulate_symbol                                     *)

RunSimulation(frames) ==
  /\ candles' = frames
  /\ todo' = {c \in Coins : frames[c] # <<>>}
  /\ coin' = NoCoin /\ t' = 0 /\ position' = Flat
  /\ trades' = {} /\ skipped' = 0 /\ signals' = 0 /\ dropped' = 0

Walk(c) ==
  /\ coin = NoCoin /\ c \in todo
  /\ coin' = c /\ todo' = todo \ {c}
  /\ t' = 0
  /\ UNCHANGED <<candles, position, result>>

Time(index) == candles[coin][index + 1]

AtBar == coin # NoCoin /\ t < Len(candles[coin])
Holding == position.side # "none"
Held == t - position.entry
NextBar == t' = t + 1 /\ UNCHANGED <<candles, todo, coin, dropped>>

(* An exit takes the whole bar: no entry on it.                            *)
Exit(i) ==
  /\ AtBar /\ Holding
  /\ Reason(position.side, Held, i) # "none"
  /\ trades' = trades \cup
       {[coin |-> coin, side |-> position.side, entry |-> Time(position.entry),
         exit |-> Time(t), held |-> Held,
         reason |-> Reason(position.side, Held, i)]}
  /\ position' = Flat
  /\ NextBar /\ UNCHANGED <<skipped, signals>>

Stay(i) ==
  /\ AtBar /\ Holding
  /\ Reason(position.side, Held, i) = "none"
  /\ NextBar /\ UNCHANGED <<position, trades, skipped, signals>>

NoEntry(i, open) ==
  /\ AtBar /\ ~Holding
  /\ EntrySide(i) = "none" \/ ~open
  /\ NextBar /\ UNCHANGED <<position, trades, skipped, signals>>

(* The open is usable, but the draw says the order does not fill, or it    *)
(* cannot be sized.                                                        *)
Skip(i) ==
  /\ AtBar /\ ~Holding
  /\ EntrySide(i) # "none"
  /\ skipped' = skipped + 1 /\ signals' = signals + 1
  /\ NextBar /\ UNCHANGED <<position, trades>>

EnterWhileHolding(i) ==
  /\ AtBar
  /\ EntrySide(i) # "none"
  /\ position' = [side |-> EntrySide(i), entry |-> t]
  /\ signals' = signals + 1
  /\ NextBar /\ UNCHANGED <<trades, skipped>>

Enter(i) ==
  /\ AtBar /\ ~Holding
  /\ EntrySide(i) # "none"
  /\ position' = [side |-> EntrySide(i), entry |-> t]
  /\ signals' = signals + 1
  /\ NextBar /\ UNCHANGED <<trades, skipped>>

(* A position still open is no trade.                                      *)
WalkEnds ==
  /\ coin # NoCoin /\ t = Len(candles[coin])
  /\ coin' = NoCoin
  /\ position' = Flat
  /\ dropped' = IF Holding THEN dropped + 1 ELSE dropped
  /\ UNCHANGED <<candles, todo, t, trades, skipped, signals>>

SimNext ==
  \/ \E c \in Coins : Walk(c)
  \/ \E i \in Indicators :
       \/ Exit(i) \/ Stay(i) \/ Skip(i) \/ Enter(i)
       \/ \E open \in BOOLEAN : NoEntry(i, open)
  \/ WalkEnds

-----------------------------------------------------------------------------
(* Properties                                                              *)

(* The trades of a coin never overlap and never share a bar ("at most one  *)
(* open position", simulator.py:199), and every entry signal acted upon is *)
(* a trade, a skipped signal, the open position, or one of the positions   *)
(* left open at the end of a walk, which the result does not mention.      *)
WalkAccounted ==
  /\ \A a, b \in trades :
       a.coin = b.coin /\ a # b => a.exit < b.entry \/ b.exit < a.entry
  /\ signals = Cardinality(trades) + skipped + dropped + (IF Holding THEN 1 ELSE 0)

(* The verdict of the live strategy on a position (mean_reversion.py).     *)
LiveLeaves(side, held, z) ==
  \/ (IF z < 0 THEN -z ELSE z) > ZStop
  \/ held > TimeStop
  \/ Signed(side, z) >= ZTarget

(* The z-scores on which the two may disagree: on the stop itself, which   *)
(* the walk takes and the live strategy does not, and beyond the stop on   *)
(* the side of the profit, where the walk knows the target only.           *)
Disputed(side, z) ==
  Signed(side, z) = -ZStop \/ (ZStop < Signed(side, z) /\ Signed(side, z) < ZTarget)

(* Where the walk holds a position it leaves it exactly when the live      *)
(* strategy would ask for flat, given the same count of bars and z-score:  *)
(* they test the stop differently, yet no other z-score tells them apart,  *)
(* and with the default thresholds only the stop itself does.              *)
LeavesAsLive ==
  AtBar /\ Holding =>
    \A i \in Indicators : i.known /\ ~Disputed(position.side, i.z) =>
      (Reason(position.side, Held, i) # "none" <=> LiveLeaves(position.side, Held, i.z))
=============================================================================
