---------------------------- MODULE RiskManager -----------------------------
(***************************************************************************)
(* check_order of src/src/risk/manager.py behind the OrderRouter that      *)
(* builds its inputs (src/src/execution/order_router.py), over the life of *)
(* an account: orders are approved, sent, rest, fill in parts and go, and  *)
(* prices move.                                                            *)
(*                                                                         *)
(* The router refreshes its cache right before the check, so the inputs    *)
(* here are the account itself; what may happen in between, and the halt   *)
(* flag, are the subject of TradingCore.  Ratios are integers and every    *)
(* quotient is multiplied out, as the comparisons of Decimals are exact.   *)
(***************************************************************************)
EXTENDS Integers, Sequences, FiniteSetsExt

CONSTANTS
  Symbols,        \* config.symbols
  Slots,          \* places for resting orders
  Targets,        \* target sizes a strategy may ask for
  Prices,         \* prices a symbol may have
  StartEquity,    \* equity of the account at the start of the day, flat
  Equities,       \* bound: the equities that are followed
  Sizes,          \* bound: the sizes that are followed
  Window,         \* the 60 seconds of the rate limit, in units of time
  RiskBp,         \* caps.max_risk_per_trade_pct, in hundredths of a percent
  NotionalPct,    \* caps.max_position_notional_pct
  MaxLeverage,    \* caps.max_account_leverage
  MaxPositions,   \* caps.max_concurrent_positions
  MaxOpenOrders,  \* caps.max_open_orders
  MaxPerMinute    \* caps.max_orders_per_minute

ASSUME CapsAssumption ==
  /\ IsFiniteSet(Symbols) /\ IsFiniteSet(Slots)
  /\ Targets \subseteq Int /\ Prices \subseteq Nat \ {0}
  /\ StartEquity \in Equities \ {0} /\ StartEquity \in Nat /\ Equities \subseteq Int
  /\ {Window, RiskBp, NotionalPct, MaxLeverage, MaxPositions, MaxOpenOrders,
      MaxPerMinute} \subseteq Nat

VARIABLES
  pos,       \* signed size of each symbol
  mark,      \* its price
  near,      \* symbols less than liquidation_buffer_pct from liquidation
  equity,    \* marginSummary.accountValue
  orders,    \* the resting order in each slot
  recent,    \* OrderRouter._recent_submissions: how many of each age
  accepted,  \* history: orders the exchange took, by age
  moved,     \* history: some price has changed
  doubled    \* history: two orders in one symbol have rested at a time

vars == <<pos, mark, near, equity, orders, recent, accepted, moved, doubled>>

Abs(n) == IF n < 0 THEN -n ELSE n
Sign(n) == IF n < 0 THEN -1 ELSE 1

NoOrder == [symbol |-> "none"]
Resting == {k \in Slots : orders[k] # NoOrder}
Held == {s \in Symbols : pos[s] # 0}

Ages == 0..Window
Within(counts) == SumFunctionOnSet(counts, Ages)

Init ==
  /\ pos = [s \in Symbols |-> 0]
  /\ mark \in [Symbols -> Prices]
  /\ near = {}
  /\ equity = StartEquity
  /\ orders = [k \in Slots |-> NoOrder]
  /\ recent = [a \in Ages |-> 0]
  /\ accepted = [a \in Ages |-> 0]
  /\ moved = FALSE /\ doubled = FALSE

-----------------------------------------------------------------------------
(* The intent the router makes of a target.  A definition that nothing     *)
(* uses is a variant, as in KillSwitch.                                    *)

ReduceOnlyKeepingSign(current, target) ==
  /\ current # 0
  /\ Abs(target) < Abs(current)
  /\ target * current > 0

(* reduce_only iff the order strictly shrinks the position and keeps its   *)
(* sign or flattens it.                                                    *)
ReduceOnly(current, target) ==
  /\ current # 0
  /\ Abs(target) < Abs(current)
  /\ target * current >= 0

(* The order from the present size to the target, at the touch; a target   *)
(* already reached needs none.                                             *)
Intent(s, target) ==
  [symbol |-> s, size |-> target - pos[s], price |-> mark[s],
   reduceOnly |-> ReduceOnly(pos[s], target)]

(* What _build_account_state hands over.  An account without equity is     *)
(* taken to have one dollar.  Losses are never filled in: they keep the    *)
(* defaults of AccountState.                                               *)
Account ==
  [equity |-> IF equity > 0 THEN equity ELSE 1, dailyPnl |-> 0, weeklyPnl |-> 0, paused |-> FALSE,
   recent |-> Within(recent), openOrders |-> Cardinality(Resting),
   pos |-> pos, mark |-> mark, near |-> near]

-----------------------------------------------------------------------------
(* check_order                                                             *)

(* The size after a full fill: a reduce-only order shrinks and never flips.*)
PostFill(intent, current) ==
  LET new == current + intent.size
  IN IF ~intent.reduceOnly THEN new
     ELSE IF new * current <= 0 THEN 0
     ELSE IF Abs(new) > Abs(current) THEN current ELSE new

PostFillPositionsOfOthers(intent, account) ==
  {s \in Symbols \ {intent.symbol} : account.pos[s] # 0}

(* The symbols with a position, and the account's notional, once it filled.*)
PostFillPositions(intent, account) ==
  {s \in Symbols \ {intent.symbol} : account.pos[s] # 0}
    \cup {s \in {intent.symbol} : PostFill(intent, account.pos[s]) # 0}

(* The sum of what each symbol is worth.                                   *)
PostFillNotional(intent, account) ==
  SumFunctionOnSet(
    [s \in Symbols |->
       IF s = intent.symbol THEN Abs(PostFill(intent, account.pos[s])) * intent.price
                            ELSE Abs(account.pos[s]) * account.mark[s]],
    Symbols)

(* _estimated_risk_dollars: 30 basis points of the order's notional.       *)
TooMuchRisk(intent, account) ==
  30 * Abs(intent.size) * intent.price > RiskBp * account.equity

TooLarge(intent, account) ==
  100 * Abs(PostFill(intent, account.pos[intent.symbol])) * intent.price
    > NotionalPct * account.equity

(* Every cap, in the order in which the code tests them.                   *)
Broken(code, intent, account) ==
  CASE code = "daily_loss_limit"    -> -50 * account.dailyPnl >= account.equity
    [] code = "weekly_loss_limit"   -> -20 * account.weeklyPnl >= account.equity
    [] code = "consecutive_losers_pause" -> account.paused
    [] code = "rate_limit"          -> account.recent >= MaxPerMinute
    [] code = "max_open_orders"     -> account.openOrders >= MaxOpenOrders
    [] code = "max_risk_per_trade"  ->
         ~intent.reduceOnly /\ TooMuchRisk(intent, account)
    [] code = "max_position_notional" -> TooLarge(intent, account)
    [] code = "max_concurrent_positions" ->
         Cardinality(PostFillPositions(intent, account)) > MaxPositions
    [] code = "max_leverage"        ->
         PostFillNotional(intent, account) > MaxLeverage * account.equity
    [] code = "liquidation_buffer"  ->
         /\ ~intent.reduceOnly
         /\ \E s \in account.near : account.pos[s] # 0

Codes == <<"daily_loss_limit", "weekly_loss_limit", "consecutive_losers_pause",
           "rate_limit", "max_open_orders", "max_risk_per_trade",
           "max_position_notional", "max_concurrent_positions", "max_leverage",
           "liquidation_buffer">>

(* The first cap that is broken names the rejection.                       *)
CheckOrder(intent, account) ==
  LET broken == {i \in 1..Len(Codes) : Broken(Codes[i], intent, account)}
  IN IF broken = {} THEN "approved" ELSE Codes[Min(broken)]

-----------------------------------------------------------------------------
(* The router sends an approved order, and once more if it would take.     *)

Count(counts, n) == [counts EXCEPT ![0] = @ + n]

Approved(s, target) ==
  /\ target # pos[s]
  /\ CheckOrder(Intent(s, target), Account) = "approved"

(* The exchange takes the order at the first or the second attempt; only   *)
(* then does the router note the time.                                     *)
Submit(k, s, target) ==
  /\ k \notin Resting
  /\ Approved(s, target)
  /\ orders' = [orders EXCEPT ![k] = Intent(s, target)]
  /\ recent' = Count(recent, 1)
  /\ accepted' = Count(accepted, 1)
  /\ doubled' = (doubled \/ \E j \in Resting : orders[j].symbol = s)
  /\ UNCHANGED <<pos, mark, near, equity, moved>>

(* The first attempt fails, or both would take: nothing is noted, although *)
(* one or two requests were sent.                                          *)
SubmitFails(s, target) == Approved(s, target) /\ UNCHANGED vars

TrimmedEarly(counts) ==
  [a \in Ages |-> IF a \in {0, Window} THEN 0 ELSE counts[a - 1]]

(* A time stamp more than 60 seconds old no longer counts.                 *)
Trimmed(counts) == [a \in Ages |-> IF a = 0 THEN 0 ELSE counts[a - 1]]

Older(counts) == [a \in Ages |-> IF a = 0 THEN 0 ELSE counts[a - 1]]

TimePasses ==
  /\ recent' = Trimmed(recent)
  /\ accepted' = Older(accepted)
  /\ UNCHANGED <<pos, mark, near, equity, orders, moved, doubled>>

-----------------------------------------------------------------------------
(* The exchange, external.                                                 *)

Gone(k) == [orders EXCEPT ![k] = NoOrder]

(* One unit of an order fills at its price, when the market is there.      *)
Fill(k) ==
  /\ k \in Resting
  /\ LET o    == orders[k]
         unit == Sign(o.size)
     IN /\ unit * mark[o.symbol] <= unit * o.price
        /\ o.reduceOnly => pos[o.symbol] * unit < 0
        /\ pos' = [pos EXCEPT ![o.symbol] = @ + unit]
        /\ equity' = equity + unit * (mark[o.symbol] - o.price)
        /\ pos'[o.symbol] \in Sizes /\ equity' \in Equities
        /\ orders' = IF o.size = unit THEN Gone(k)
                     ELSE [orders EXCEPT ![k].size = @ - unit]
  /\ UNCHANGED <<mark, near, recent, accepted, moved, doubled>>

(* Cancelled, or a reduce-only order that has nothing left to reduce.      *)
Leave(k) ==
  /\ k \in Resting
  /\ orders' = Gone(k)
  /\ UNCHANGED <<pos, mark, near, equity, recent, accepted, moved, doubled>>

PriceMoves(s) ==
  /\ \E p \in Prices \ {mark[s]} :
       /\ mark' = [mark EXCEPT ![s] = p]
       /\ equity' = equity + pos[s] * (p - mark[s])
  /\ equity' \in Equities
  /\ near' \in {near \cap Held, (near \cup {s}) \cap Held}
  /\ moved' = TRUE
  /\ UNCHANGED <<pos, orders, recent, accepted, doubled>>

-----------------------------------------------------------------------------
Next ==
  \/ \E s \in Symbols, target \in Targets :
       \/ SubmitFails(s, target)
       \/ \E k \in Slots : Submit(k, s, target)
  \/ TimePasses
  \/ \E k \in Slots : Fill(k) \/ Leave(k)
  \/ \E s \in Symbols : PriceMoves(s)

Spec == Init /\ [][Next]_vars

-----------------------------------------------------------------------------
(* Properties                                                              *)

(* What the cap lets one position be worth.                                *)
Share == (NotionalPct * equity) \div 100

(* check_order judges each order as if no other rested (manager.py:241-281)*)
(* and so the account may exceed the caps of RISK.md:9, 10 and 14 by what  *)
(* rests, but by no more, through partial fills, flips and cancels.  The   *)
(* other resting orders add a position each to the cap, wherever prices    *)
(* go.  While none has moved, and no symbol has had two orders at a time,  *)
(* each position is within its cap and each other order adds one cap's     *)
(* worth to the leverage.                                                  *)
ExposureWithinCaps ==
  Held # {} =>
    /\ Cardinality(Held) <= MaxPositions + MaxOpenOrders - 1
    /\ ~moved /\ ~doubled =>
         /\ \A s \in Symbols : Abs(pos[s]) * mark[s] <= Share
         /\ SumFunctionOnSet([s \in Symbols |-> Abs(pos[s]) * mark[s]], Symbols)
              <= MaxLeverage * equity + (MaxOpenOrders - 1) * Share

(* No 60 seconds see more orders come to rest than the cap allows, at      *)
(* whichever attempt they were taken (manager.py:216, order_router.py:332).*)
AcceptedWithinRate == Within(accepted) <= MaxPerMinute

(* A position can be closed however its price has moved: an order to zero  *)
(* is never refused for its own risk or size, or for a position close to   *)
(* liquidation (manager.py:233, 246, 290; order_router.py:209-217).  When  *)
(* the equity is gone the account is checked as if it had a dollar         *)
(* (order_router.py:254), so that an order that is approved leaves no      *)
(* position worth more than the cap's share of one.                        *)
CloseIsNeverTooBig ==
  /\ \A s \in Held :
       CheckOrder(Intent(s, 0), Account)
         \notin {"max_risk_per_trade", "max_position_notional", "liquidation_buffer"}
  /\ equity <= 0 =>
       \A s \in Symbols, target \in Targets :
         Approved(s, target) => 100 * Abs(target) * mark[s] <= NotionalPct
=============================================================================
