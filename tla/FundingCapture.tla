--------------------------- MODULE FundingCapture ---------------------------
(***************************************************************************)
(* Strategy B: the funding-capture state machine of                        *)
(* src/src/strategies/funding_capture.py, driven by the scheduler loop of  *)
(* src/src/main.py with the rates of the oracle                            *)
(* (src/src/execution/funding_rate_oracle.py), and sharing the account     *)
(* with strategy A through CapitalAllocator.                               *)
(*                                                                         *)
(* Time is counted in units of 30 seconds.  The scheduler runs every 5     *)
(* seconds, so at least once in every unit.  A coin's times are kept as    *)
(* what the code computes from them: how long its entry has waited, and    *)
(* how long ago its funding tick was (negative while it is ahead).         *)
(*                                                                         *)
(* Today main.py never tells the machine the sizes of its legs and sends   *)
(* no order for it: it observes, and no leg ever fills.  Fill and Unwind   *)
(* stand for a caller that does, as funding_capture.py asks of its caller  *)
(* and as its tests do; none of them need happen.                          *)
(***************************************************************************)
EXTENDS CapitalAllocator

CONSTANTS
  Coins,       \* config.symbols
  Hour,        \* units between funding ticks
  PreTick,     \* pre_tick_seconds
  Slack,       \* the 60 seconds either side of it
  FillWindow,  \* fill_window_seconds
  PostMin,     \* post_tick_min_seconds
  LegPct,      \* notional_per_leg_pct
  Equity,      \* account equity
  Draws        \* target notionals strategy A may ask for

A == "mean_reversion"
B == "funding_capture"

ASSUME ScheduleAssumption ==
  /\ IsFiniteSet(Coins)
  /\ {A, B} = Strategies
  /\ {Hour, PreTick, Slack, FillWindow, PostMin, LegPct, Equity} \subseteq Nat
  /\ Slack < PreTick /\ PreTick + Slack < Hour
  /\ Draws \subseteq Nat

(* Nothing in the code enforces this; its defaults satisfy it.  A pair is  *)
(* entered so long before the tick that its window ends, and its holding   *)
(* begins, before the time to exit.                                        *)
ASSUME WindowsAssumption == FillWindow + Slack + 2 <= PreTick + PostMin

VARIABLES
  st,      \* LiveSystem._funding_state
  oracle,  \* FundingRateOracle._latest: is the rate high, units to its tick
  left,    \* units to the next top of the hour
  due,     \* whether the scheduler has yet to run in this unit of time
  aUsed,   \* LiveSystem._a_used_notional
  halted   \* KillSwitch._halted

vars == <<st, oracle, left, due, aUsed, halted>>

(* Bounds: ages stop counting where no comparison can tell them apart.     *)
MaxWait == FillWindow + 2
MaxAge  == PostMin + 1

Idle == [phase |-> "idle", target |-> 0, waited |-> 0, sinceTick |-> 0,
         perp |-> "flat", spot |-> "flat"]

(* What evaluate() makes up for a coin without a rate: one that cannot     *)
(* trigger an entry.                                                       *)
NoRate == [hot |-> FALSE, left |-> Hour]

Init ==
  /\ st = [c \in Coins |-> Idle]
  /\ oracle = [c \in Coins |-> NoRate]
  /\ left \in 1..Hour
  /\ due = FALSE
  /\ aUsed = 0
  /\ halted = FALSE

-----------------------------------------------------------------------------
(* The allocator, as both strategies ask it.                               *)

(* b_used: what the machine calls its targets, routed or not.              *)
Pledged == SumFunctionOnSet([c \in Coins |-> st[c].target], Coins)

Allocation(strategy) ==
  Allocate(Equity, [s \in Strategies |-> IF s = A THEN aUsed ELSE Pledged])[strategy]

-----------------------------------------------------------------------------
(* evaluate_symbol: the next state of a coin, by phase.  A definition that *)
(* nothing uses is a variant, as in KillSwitch.                            *)

Exit(s) == [s EXCEPT !.phase = "exit_pending"]

HoldingWithoutExit(s, available) ==
  IF 2 * available < s.target THEN Exit(s) ELSE s

(* Bail out when the headroom is less than half of what is held; otherwise *)
(* hold until a minute after the tick.                                     *)
Holding(s, available) ==
  IF 2 * available < s.target \/ s.sinceTick >= PostMin THEN Exit(s) ELSE s

BothLegsFlat(s) == s.perp = "flat" /\ s.spot = "flat"

(* Each to 99 % of the target at least, in its direction.                  *)
BothLegsFilled(s) == s.perp = "full" /\ s.spot = "full"

(* Both legs flat: the pair and its pledge are over.                       *)
ExitPending(s) == IF BothLegsFlat(s) THEN Idle ELSE s

EntryPendingOneLeg(s) ==
  IF s.perp = "full" \/ s.spot = "full" THEN [s EXCEPT !.phase = "holding"]
  ELSE IF s.waited > FillWindow THEN Exit(s) ELSE s

(* Both legs within the window, or unwind.                                 *)
EntryPending(s) ==
  IF BothLegsFilled(s) THEN [s EXCEPT !.phase = "holding"]
  ELSE IF s.waited > FillWindow THEN Exit(s) ELSE s

(* The entry window is a minute either side of pre_tick before the tick.   *)
InWindow(rate) == rate.hot /\ rate.left \in (PreTick - Slack)..(PreTick + Slack)

EnterStayingIdle(s, rate, notional) ==
  [phase |-> s.phase, target |-> notional, waited |-> 0,
   sinceTick |-> -rate.left, perp |-> s.perp, spot |-> s.spot]

(* notional is the magnitude of target_notional, whose sign is the perp's. *)
Enter(s, rate, notional) ==
  [phase |-> "entry_pending", target |-> notional, waited |-> 0,
   sinceTick |-> -rate.left, perp |-> s.perp, spot |-> s.spot]

FromIdleEarly(s, rate, available) ==
  LET notional == Smaller(Equity * LegPct, available)
  IN IF rate.hot /\ rate.left <= PreTick + Slack /\ notional > 0
     THEN Enter(s, rate, notional) ELSE s

(* Sized by notional_per_leg_pct, capped by the allocator.                 *)
FromIdle(s, rate, available) ==
  LET notional == Smaller(Equity * LegPct, available)
  IN IF InWindow(rate) /\ notional > 0 THEN Enter(s, rate, notional) ELSE s

Evaluate(s, rate, available) ==
  CASE s.phase = "idle"          -> FromIdle(s, rate, available)
    [] s.phase = "entry_pending" -> EntryPending(s)
    [] s.phase = "holding"       -> Holding(s, available)
    [] s.phase = "exit_pending"  -> ExitPending(s)

-----------------------------------------------------------------------------
(* The scheduler loop: every coin is evaluated against one allocation.     *)
(* Its decisions are journalled; without a spot adapter none is sent.      *)
FundingTick ==
  /\ ~halted
  /\ due
  /\ LET available == Allocation(B).available
     IN st' = [c \in Coins |-> Evaluate(st[c], oracle[c], available)]
  /\ due' = FALSE
  /\ UNCHANGED <<oracle, left, aUsed, halted>>

(* The decisions that come with targets, and so with a journal row.        *)
Journalled(s, next) ==
  \/ next.phase \in {"entry_pending", "exit_pending"}
  \/ s.phase = "holding" /\ next.phase = "holding"

(* A coin's state is stored before its row is awaited.  A row that raises  *)
(* ends the run, with the coins after it as they were; the loop goes on    *)
(* and runs again five seconds later.                                      *)
FundingTickBreaksOff ==
  /\ ~halted
  /\ due
  /\ LET next == [c \in Coins |-> Evaluate(st[c], oracle[c], Allocation(B).available)]
     IN \E stored \in SUBSET Coins :
          /\ \E c \in stored : Journalled(st[c], next[c])
          /\ st' = [c \in Coins |-> IF c \in stored THEN next[c] ELSE st[c]]
  /\ UNCHANGED <<oracle, left, due, aUsed, halted>>

(* A poll replaces all rates; a coin the answer leaves out has none.  A    *)
(* poll that fails leaves the old ones, whose tick may by then be over.    *)
Poll ==
  /\ \E answered \in SUBSET Coins : \E hot \in SUBSET answered :
       oracle' = [c \in Coins |-> IF c \in answered
                                  THEN [hot |-> c \in hot, left |-> left]
                                  ELSE NoRate]
  /\ UNCHANGED <<st, left, due, aUsed, halted>>

(* The bar loop lets A have a target within what it uses and may add.      *)
Draw(target) ==
  /\ ~halted
  /\ target <= Allocation(A).available + Allocation(A).used
  /\ aUsed' = target
  /\ UNCHANGED <<st, oracle, left, due, halted>>

Halt ==
  /\ ~halted
  /\ halted' = TRUE
  /\ UNCHANGED <<st, oracle, left, due, aUsed>>

Aged(s) ==
  IF s.phase = "idle" THEN s
  ELSE [s EXCEPT !.waited = Smaller(@ + 1, MaxWait), !.sinceTick = Smaller(@ + 1, MaxAge)]

(* The loop is not late by a whole unit: what it awaits, the journal, is   *)
(* local, and of the six runs in a unit one at least gets to its end.  The *)
(* oracle's ticks stay where they are as time goes by.                     *)
TimePasses ==
  /\ ~due \/ halted
  /\ due' = TRUE
  /\ left' = IF left = 1 THEN Hour ELSE left - 1
  /\ oracle' = [c \in Coins |->
       IF oracle[c] = NoRate THEN NoRate
       ELSE [oracle[c] EXCEPT !.left = Larger(@ - 1, 0)]]
  /\ st' = [c \in Coins |-> Aged(st[c])]
  /\ UNCHANGED <<aUsed, halted>>

-----------------------------------------------------------------------------
(* The legs, external: what a caller that routes the targets reports.      *)

Report(s, leg, size) ==
  IF leg = "perp" THEN [s EXCEPT !.perp = size] ELSE [s EXCEPT !.spot = size]

Fill(c, leg) ==
  /\ st[c].phase = "entry_pending" /\ st[c][leg] # "full"
  /\ \E size \in {"part", "full"} : st' = [st EXCEPT ![c] = Report(@, leg, size)]
  /\ UNCHANGED <<oracle, left, due, aUsed, halted>>

Unwind(c, leg) ==
  /\ st[c].phase = "exit_pending" /\ st[c][leg] # "flat"
  /\ st' = [st EXCEPT ![c] = Report(@, leg, "flat")]
  /\ UNCHANGED <<oracle, left, due, aUsed, halted>>

-----------------------------------------------------------------------------
Next ==
  \/ FundingTick \/ FundingTickBreaksOff \/ Poll \/ Halt \/ TimePasses
  \/ \E target \in Draws : Draw(target)
  \/ \E c \in Coins, leg \in {"perp", "spot"} : Fill(c, leg) \/ Unwind(c, leg)

(* Time passes, the loop runs, and an unwind is filled in the end; rates,  *)
(* entries and A's targets need not come.                                  *)
Fairness ==
  /\ WF_vars(TimePasses) /\ WF_vars(FundingTick)
  /\ \A c \in Coins, leg \in {"perp", "spot"} : WF_vars(Unwind(c, leg))

Spec == Init /\ [][Next]_vars
FairSpec == Spec /\ Fairness

-----------------------------------------------------------------------------
(* Properties                                                              *)

(* The buffer is kept: what A uses and B has pledged for a coin together   *)
(* never exceed the equity less the buffer (capital_allocator.py:6),       *)
(* whichever of the two draws first.  Of all of B's pledges this does not  *)
(* hold: one run of the loop grants every coin the same available notional *)
(* (main.py:420).                                                          *)
BufferKept == \A c \in Coins : aUsed + st[c].target <= Deployable(Equity)

(* An entry is for the coming funding tick, and in its window, however old *)
(* the oracle's rates are (funding_capture.py:307-311).                    *)
EntersForNextTick ==
  [][\A c \in Coins :
       st[c].phase = "idle" /\ st'[c].phase = "entry_pending" =>
         st'[c].sinceTick = -left]_vars

(* "If one fills and the other doesn't within 90 seconds ... unwind"       *)
(* (SPEC.md:45-47): outside a halt, a pair of which a leg is missing is    *)
(* never left to wait longer than the window and one run of the loop.      *)
HalfPairBounded ==
  \A c \in Coins :
    ~halted /\ st[c].phase # "exit_pending" /\ st[c].perp # st[c].spot =>
      st[c].waited <= FillWindow + 1

(* "1-2 minutes after the tick close both legs" (SPEC.md:48): outside a    *)
(* halt no pair is held beyond the run of the loop after the first minute, *)
(* even when the oracle has lost the coin's rate (funding_capture.py:342). *)
ExitsOnTime ==
  \A c \in Coins :
    ~halted /\ st[c].phase = "holding" => st[c].sinceTick <= PostMin

(* Capital does not stay pledged: a pair that was entered, or in           *)
(* observation only pretended to be, gives its notional back unless the    *)
(* system halts (funding_capture.py:249-301).                              *)
PledgesEnd ==
  \A c \in Coins : (st[c].target > 0) ~> (st[c].target = 0 \/ halted)
=============================================================================
