-------------------------- MODULE FundingSimulator --------------------------
(***************************************************************************)
(* The backtest of strategy B (src/src/backtest/funding_simulator.py): one *)
(* step per row of the funding history, sorted by tick and coin.           *)
(*                                                                         *)
(* Rates and costs are in parts of Unit of the notional, and a leg is one  *)
(* Legs-th of the equity; with an initial equity that they divide often    *)
(* enough the arithmetic is exact, as that of the code is but for          *)
(* rounding.                                                               *)
(***************************************************************************)
EXTENDS Integers, Sequences, FiniteSets, Functions

CONSTANTS
  Unit, Legs,
  Rates,          \* the funding rates a row may have
  Threshold,      \* funding_threshold
  CaptureCost,    \* fees and slippage of four maker fills
  FailureCosts,   \* what a maker fill, a taker fill and slippage may cost
  InitialEquity

ASSUME CostsAssumption ==
  /\ {Unit, Legs} \subseteq Nat \ {0}
  /\ Rates \subseteq Int /\ FailureCosts \subseteq Nat
  /\ {Threshold, CaptureCost, InitialEquity} \subseteq Nat

VARIABLES
  rows,         \* the rows not yet simulated
  attempts,     \* one CaptureAttempt per row simulated
  equity,       \* the equity after them
  failureCost   \* config: the cost of an unhedged leg

fundingVars == <<rows, attempts, equity, failureCost>>

FundingInit ==
  /\ rows = <<>> /\ attempts = <<>>
  /\ equity = InitialEquity
  /\ failureCost \in FailureCosts

-----------------------------------------------------------------------------
(* A definition that no action uses is a variant, as in KillSwitch.        *)

Skipped ==
  [outcome |-> "skipped", notional |-> 0, received |-> 0, costs |-> 0, net |-> 0]

Made(outcome, notional, received, costs) ==
  [outcome |-> outcome, notional |-> notional, received |-> received,
   costs |-> costs, net |-> received - costs]

(* Both legs fill and are held through the tick.                           *)
Success(notional, rate) ==
  Made("success", notional, (notional * rate) \div Unit, (notional * CaptureCost) \div Unit)

(* One leg fills and is unwound at the market.                             *)
FillFailure(notional) ==
  Made("fill_failure", notional, 0, (notional * failureCost) \div Unit)

Simulate(ticks) ==
  /\ rows' = ticks
  /\ attempts' = <<>> /\ equity' = InitialEquity
  /\ UNCHANGED failureCost

Book(attempt) ==
  /\ rows # <<>>
  /\ rows' = Tail(rows)
  /\ attempts' = Append(attempts, attempt)
  /\ equity' = equity + attempt.net
  /\ UNCHANGED failureCost

PassOver(rate) ==
  /\ equity <= 0 \/ rate <= Threshold
  /\ Book(Skipped)

TryOnCredit(rate) ==
  /\ rate > Threshold
  /\ \/ Book(Success(equity \div Legs, rate))
     \/ Book(FillFailure(equity \div Legs))

(* Above the threshold half of the equity goes into each leg.              *)
Try(rate) ==
  /\ equity > 0 /\ rate > Threshold
  /\ \/ Book(Success(equity \div Legs, rate))
     \/ Book(FillFailure(equity \div Legs))

FundingNext == \E rate \in Rates : PassOver(rate) \/ Try(rate)

(* equity_curve: the initial equity and the equity after each attempt.     *)
Curve(i) == InitialEquity + SumFunctionOnSet([k \in 1..i |-> attempts[k].net], 1..i)

Count(outcome) == Cardinality({k \in 1..Len(attempts) : attempts[k].outcome = outcome})

Total(amount) ==
  SumFunctionOnSet([k \in 1..Len(attempts) |-> attempts[k][amount]], 1..Len(attempts))

-----------------------------------------------------------------------------
(* Properties                                                              *)

(* The aggregates of the report belong together: each row is skipped,      *)
(* captured or failed, the curve ends with the final equity, and that is   *)
(* the initial equity with what was received less what was paid.  No       *)
(* attempt is made without equity ("no equity", :207), so an account that  *)
(* has lost everything stays as it is, and none puts more than half of the *)
(* equity of its time into a leg.                                          *)
AttemptsAddUp ==
  /\ Count("skipped") + Count("success") + Count("fill_failure") = Len(attempts)
  /\ Curve(Len(attempts)) = equity
  /\ equity = InitialEquity + Total("received") - Total("costs")
  /\ \A i \in DOMAIN attempts :
       IF attempts[i].outcome = "skipped"
       THEN Curve(i) = Curve(i - 1)
       ELSE Curve(i - 1) > 0 /\ attempts[i].notional * Legs <= Curve(i - 1)
=============================================================================
