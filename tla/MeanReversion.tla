--------------------------- MODULE MeanReversion ----------------------------
(***************************************************************************)
(* Strategy A for one coin: the bars of the candle store, the evaluation   *)
(* of each closed bar by src/src/strategies/mean_reversion.py in           *)
(* _maybe_evaluate_symbol (src/src/main.py), and what becomes of its       *)
(* target.                                                                 *)
(*                                                                         *)
(* The strategy decides on the position in the tracker's cache, which is   *)
(* refreshed only after it has decided, and by the reconciler, too, so the *)
(* position it counts the bars of may be gone, new, or turned round.  The  *)
(* indicators are whatever the prices make them.  Sizes are signed         *)
(* integers at one constant price.  How orders are capped, sent and        *)
(* cancelled, what the reconciler compares and how a halt proceeds is the  *)
(* subject of the other modules: here orders fill or end, and the flag     *)
(* comes and goes, at any time.                                            *)
(***************************************************************************)
EXTENDS CandleStore

CONSTANTS
  Window,       \* sma_window
  TimeStop,     \* time_stop_bars
  ZEntry,       \* z_entry
  ZTarget,      \* z_target
  ZStop,        \* z_stop
  Scores,       \* z-scores that may come
  Sizes,        \* what _compute_size may make of equity and volatility
  MaxSize,      \* caps.max_position_notional_pct * equity
  Slots,        \* room for resting orders (caps.max_open_orders)
  LastInterval, \* bound: the last interval in which a trade happens
  MaxTrades     \* bound: trades in an interval

ASSUME StrategyAssumption ==
  /\ {Window, TimeStop, ZEntry, ZTarget, ZStop} \subseteq Nat
  /\ Scores \subseteq Int /\ Sizes \subseteq Nat /\ MaxSize \in Nat
  /\ LastInterval \in Nat /\ MaxTrades \in Nat \ {0}

VARIABLES
  closed,   \* _SymbolState.last_closed_bar_open_ms, None as -1
  counting, \* whether _SymbolState.entry_open_ms is set
  held,     \* _SymbolState.bars_held
  tracked,  \* size of the coin in PositionTracker._positions
  pos,      \* exchange: its position
  orders,   \* exchange: its resting order in each slot
  at,       \* what each task awaits
  seen,     \* the position a refresh of each task has read and not yet written
  target,   \* what the bar-close task will submit
  halted,   \* KillSwitch._halted
  saw       \* history: refreshes for a bar that wrote a position, with no
            \* refresh in between, the reconciler's included, that wrote none

exchange == <<pos, orders>>
counter == <<counting, held>>
refreshing == <<at, seen>>
vars == <<bars, closed, counter, tracked, exchange, refreshing, target, halted, saw>>

Tasks == {"bar", "rec"}

Abs(n) == IF n < 0 THEN -n ELSE n
Smaller(m, n) == IF m < n THEN m ELSE n

(* Bounds: beyond them neither the code nor a property tells apart.        *)
MaxHeld == TimeStop + 1
MaxSaw == TimeStop + 2

NoOrder == [size |-> 0, reduceOnly |-> FALSE]
Order == [size : Int, reduceOnly : BOOLEAN]

TypeOK ==
  /\ bars \in Seq(Bar) /\ Len(bars) <= History
  /\ closed \in Nat \cup {-1}
  /\ counting \in BOOLEAN /\ held \in 0..MaxHeld
  /\ tracked \in Int /\ pos \in Int
  /\ orders \in [Slots -> Order]
  /\ at \in [Tasks -> {"idle", "read", "write"}]
  /\ seen \in [Tasks -> Int]
  /\ target \in Int
  /\ halted \in BOOLEAN
  /\ saw \in 0..MaxSaw

(* The account may hold the coin from before the start.                    *)
Init ==
  /\ bars = <<>>
  /\ closed = -1
  /\ counting = FALSE /\ held = 0
  /\ pos \in {0} \cup Sizes \cup {-n : n \in Sizes}
  /\ tracked = pos
  /\ orders = [k \in Slots |-> NoOrder]
  /\ at = [t \in Tasks |-> "idle"] /\ seen = [t \in Tasks |-> 0]
  /\ target = 0
  /\ halted = FALSE
  /\ saw = 0

-----------------------------------------------------------------------------
(* The evaluation of a bar.  A definition that no action uses is a variant, *)
(* as in KillSwitch.                                                       *)

Crossed(position, z) ==
  (position > 0 /\ z >= ZTarget) \/ (position < 0 /\ z <= -ZTarget)

ExitsWithoutTimeStop(position, bars_held, z) == Abs(z) > ZStop \/ Crossed(position, z)

(* Stop, time stop, target.                                                *)
Exits(position, bars_held, z) ==
  \/ Abs(z) > ZStop
  \/ bars_held > TimeStop
  \/ Crossed(position, z)

Signal(z, rsi, size) ==
  IF z < -ZEntry /\ rsi = "oversold" THEN size
  ELSE IF z > ZEntry /\ rsi = "overbought" THEN -size
  ELSE 0

(* Exits first, then hold; entries only from flat.                         *)
Wanted(position, bars_held, z, rsi, size) ==
  IF position = 0 THEN Signal(z, rsi, size)
  ELSE IF Exits(position, bars_held, z) THEN 0 ELSE position

(* What evaluate() may answer: without enough bars, or without an          *)
(* indicator, the target is flat, position or not.                         *)
Verdicts(closes, position, bars_held) ==
  {0} \cup {Wanted(position, bars_held, z, rsi, size) :
              z \in {z \in Scores : closes > Window},
              rsi \in {"oversold", "between", "overbought"}, size \in Sizes}

LatestInProgress == Len(bars)

(* The bar to evaluate: the last one is still in progress.                 *)
LatestClosed == Len(bars) - 1

UnhandledIfAny == LatestClosed \in DOMAIN bars

Unhandled ==
  /\ LatestClosed \in DOMAIN bars
  /\ bars[LatestClosed].interval # closed

(* The first bar with a position starts the count.                         *)
HeldNow == IF tracked # 0 /\ counting THEN Smaller(held + 1, MaxHeld) ELSE 0

(* A bar has closed since the last look.                                   *)
Evaluate ==
  /\ at["bar"] = "idle" /\ ~halted
  /\ Unhandled
  /\ closed' = bars[LatestClosed].interval
  /\ counting' = (tracked # 0)
  /\ held' = HeldNow
  /\ at' = [at EXCEPT !["bar"] = "read"]
  /\ target' \in Verdicts(LatestClosed, tracked, held')
  /\ UNCHANGED <<bars, tracked, exchange, seen, halted, saw>>

(* PositionTracker.refresh, first read: user_state.                        *)
Read(task) ==
  /\ at[task] = "read"
  /\ at' = [at EXCEPT ![task] = "write"]
  /\ seen' = [seen EXCEPT ![task] = pos]
  /\ UNCHANGED <<bars, closed, counter, tracked, exchange, target, halted, saw>>

(* The end of a refresh, after which its reads are forgotten.              *)
Refreshed(task) ==
  /\ at' = [at EXCEPT ![task] = "idle"]
  /\ seen' = [seen EXCEPT ![task] = 0]

(* The second read has come and the cache is written.                      *)
Write(task) ==
  /\ at[task] = "write"
  /\ tracked' = seen[task]
  /\ Refreshed(task)

(* The journal or the refresh raises: the bar has had its turn.            *)
EvaluationFails ==
  /\ at["bar"] \in {"read", "write"}
  /\ Refreshed("bar")
  /\ target' = 0
  /\ UNCHANGED <<bars, closed, counter, tracked, exchange, halted, saw>>

BarWrites ==
  /\ Write("bar")
  /\ saw' = IF tracked' = 0 THEN 0 ELSE Smaller(saw + 1, MaxSaw)
  /\ target' = 0

(* The target is suppressed, met already, without a quote, or refused.     *)
Dropped ==
  /\ BarWrites
  /\ UNCHANGED <<bars, closed, counter, exchange, halted>>

ReduceOnly(current) == Abs(target) < Abs(current) /\ target * current >= 0

(* An order for the difference between target and refreshed position.      *)
Submit(k) ==
  /\ BarWrites
  /\ ~halted
  /\ orders[k] = NoOrder
  /\ Abs(target) <= MaxSize
  /\ LET size == target - tracked'
     IN /\ size # 0
        /\ orders' = [orders EXCEPT ![k] =
                        [size |-> size, reduceOnly |-> ReduceOnly(tracked')]]
  /\ UNCHANGED <<bars, closed, counter, pos, halted>>

-----------------------------------------------------------------------------
(* The stream, the exchange and the reconciler.                            *)

Trade(interval) ==
  /\ bars # <<>> /\ Newest.interval = interval => Newest.trades < MaxTrades
  /\ OnTrade(interval)
  /\ UNCHANGED <<closed, counter, tracked, exchange, refreshing, target, halted, saw>>

Sign(n) == IF n < 0 THEN -1 ELSE 1

Fill(k) ==
  LET order == orders[k]
      unit  == Sign(order.size)
  IN /\ order.size # 0
     /\ order.reduceOnly => pos * unit < 0
     /\ pos' = pos + unit
     /\ orders' = [orders EXCEPT ![k] =
                     IF order.size = unit THEN NoOrder ELSE [order EXCEPT !.size = @ - unit]]
     /\ UNCHANGED <<bars, closed, counter, tracked, refreshing, target, halted, saw>>

(* Cancelled as stale, by a halt, or by the exchange.                      *)
OrderEnds(k) ==
  /\ orders[k] # NoOrder
  /\ orders' = [orders EXCEPT ![k] = NoOrder]
  /\ UNCHANGED <<bars, closed, counter, tracked, pos, refreshing, target, halted, saw>>

(* The reconciler refreshes the cache, too.                                *)
RecStart ==
  /\ at["rec"] = "idle" /\ ~halted
  /\ at' = [at EXCEPT !["rec"] = "read"]
  /\ UNCHANGED <<bars, closed, counter, tracked, exchange, seen, target, halted, saw>>

(* A difference, in this coin or another, halts.                           *)
RecWrites ==
  /\ Write("rec")
  /\ saw' = IF tracked' = 0 THEN 0 ELSE saw
  /\ halted' \in {halted, TRUE}
  /\ UNCHANGED <<bars, closed, counter, exchange, target>>

RecFails ==
  /\ at["rec"] \in {"read", "write"}
  /\ Refreshed("rec")
  /\ halted' = TRUE
  /\ UNCHANGED <<bars, closed, counter, tracked, exchange, target, saw>>

Resume ==
  /\ halted
  /\ halted' = FALSE
  /\ UNCHANGED <<bars, closed, counter, tracked, exchange, refreshing, target, saw>>

-----------------------------------------------------------------------------
Next ==
  \/ Evaluate \/ EvaluationFails \/ Dropped
  \/ \E interval \in 0..LastInterval : Trade(interval)
  \/ \E k \in Slots : Submit(k) \/ Fill(k) \/ OrderEnds(k)
  \/ \E task \in Tasks : Read(task)
  \/ RecStart \/ RecWrites \/ RecFails \/ Resume

Spec == Init /\ [][Next]_vars

-----------------------------------------------------------------------------
(* Properties                                                              *)

(* Every closed bar is evaluated at most once, and never after a later     *)
(* one, whatever trades come late and whatever bars have been given up     *)
(* (main.py:488-498, candle_store.py:64-92).                               *)
EachBarOnce == [][Evaluate => closed' > closed]_vars

(* What was evaluated was final: no bar up to the one last evaluated       *)
(* changes afterwards, and none appears among them.                        *)
EvaluatedBarsFinal ==
  [][\A j \in DOMAIN bars' :
       bars'[j].interval <= closed => \E i \in DOMAIN bars : bars'[j] = bars[i]]_vars

(* "Time stop: position held > 4 bars" (SPEC.md:22) bounds the holding     *)
(* although the count runs on a cache that lags and that two tasks write:  *)
(* once the refreshes for TimeStop + 2 bars have found the coin in the     *)
(* account, and no refresh between them missed it, it is asked flat, in    *)
(* this bar and every later one, even if it was closed, topped up or       *)
(* turned round where no refresh looked (main.py:501-518).                 *)
TimeStopAsksFlat ==
  [][Evaluate /\ saw >= TimeStop + 2 => target' = 0]_vars
=============================================================================
