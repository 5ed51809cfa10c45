-------------------------- MODULE CapitalAllocator --------------------------
(***************************************************************************)
(* allocate() of src/src/execution/capital_allocator.py: how much more     *)
(* notional each strategy may open, given what all of them use.            *)
(*                                                                         *)
(* Shares are percents, so that amounts are counted in hundredths of the   *)
(* unit of equity and every product below is exact, as Decimal's are.      *)
(***************************************************************************)
EXTENDS Integers, FiniteSetsExt

CONSTANTS
  Strategies,  \* keys of strategy_max_pct
  MaxPct,      \* strategy_max_pct
  BufferPct    \* buffer_pct

LOCAL AllShares == SumFunctionOnSet(MaxPct, Strategies)

(* __post_init__ refuses a configuration that promises more than there is. *)
ASSUME SharesAssumption ==
  /\ IsFiniteSet(Strategies)
  /\ MaxPct \in [Strategies -> 0..100]
  /\ BufferPct \in 0..100
  /\ AllShares + BufferPct <= 100

Larger(m, n) == IF m < n THEN n ELSE m
Smaller(m, n) == IF m < n THEN m ELSE n

(* What a strategy with `share` may still open when it uses `own` and the  *)
(* others use `others`, out of the `deployable` equity less buffer.        *)
Nominal(share, own) == Larger(0, share - own)
Residual(deployable, own, others) == Larger(0, deployable - others - own)

(* A variant, as in KillSwitch.                                            *)
AvailableOfEither(share, deployable, own, others) ==
  Larger(Nominal(share, own), Residual(deployable, own, others))

Available(share, deployable, own, others) ==
  Smaller(Nominal(share, own), Residual(deployable, own, others))

Deployable(equity) == 100 * equity - equity * BufferPct
Share(equity, s) == equity * MaxPct[s]

(* One allocation per configured strategy; negative usage counts as none,  *)
(* and without equity nobody gets anything.                                *)
Allocate(equity, used) ==
  [s \in Strategies |->
     LET own    == Larger(0, used[s])
         others == SumFunctionOnSet([t \in Strategies |-> Larger(0, used[t])],
                                    Strategies \ {s})
         open   == Available(Share(equity, s), Deployable(equity), own, others)
     IN IF equity <= 0
        THEN [used |-> 0, available |-> 0, degraded |-> FALSE]
        ELSE [used |-> own, available |-> open,
              degraded |-> open < Nominal(Share(equity, s), own)]]
=============================================================================
