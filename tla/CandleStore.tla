---------------------------- MODULE CandleStore -----------------------------
(***************************************************************************)
(* The bars of one coin in src/src/marketdata/candle_store.py, built from  *)
(* the stream of trades.                                                   *)
(*                                                                         *)
(* A bar is known by the interval it opens in, and its prices and volume   *)
(* by the number of trades they summarise: two bars of an interval differ  *)
(* iff one has seen more trades.  An interval without trades has no bar.   *)
(***************************************************************************)
EXTENDS Integers, Sequences

CONSTANT History  \* how many bars are kept

ASSUME HistoryAssumption == History \in Nat \ {0}

VARIABLE bars     \* CandleStore._bars[coin]

Bar == [interval : Nat, trades : Nat \ {0}]

Newest == bars[Len(bars)]

(* A definition that no action uses is a variant, as in KillSwitch.        *)
KeptAll(seq) == seq

(* deque(maxlen=history): the oldest bar makes room.                       *)
Kept(seq) == IF Len(seq) > History THEN Tail(seq) ELSE seq

OpenBar(interval) == Kept(Append(bars, [interval |-> interval, trades |-> 1]))

(* The bars after a trade: it opens a bar, joins the newest one, or is     *)
(* late and ignored.                                                       *)
Folded(interval) ==
  IF bars = <<>> \/ Newest.interval < interval THEN OpenBar(interval)
  ELSE IF Newest.interval = interval
       THEN [bars EXCEPT ![Len(bars)].trades = @ + 1]
       ELSE bars

OnTrade(interval) == bars' = Folded(interval)
=============================================================================
