----------------------- MODULE FundingCaptureProofs ------------------------
(***************************************************************************)
(* Proofs about FundingCapture, for any number of coins, any windows that  *)
(* satisfy its assumptions, and any notional the allocator may grant.      *)
(***************************************************************************)
EXTENDS FundingCapture, SumLemmas

Phases == {"idle", "entry_pending", "holding", "exit_pending"}
Legs == {"flat", "part", "full"}
Rates == [hot : BOOLEAN, left : 0..Hour]

(* The fields of a coin's state, whatever its notional.                    *)
Pair(s) ==
  s \in [phase : Phases, target : {s.target}, waited : 0..MaxWait,
         sinceTick : Int, perp : Legs, spot : Legs]

(* What the phases promise about times and legs when the loop has yet to   *)
(* run (k = 1) or has run (k = 0) in this unit of time.                    *)
InTime(s, k) ==
  /\ s.phase = "idle" => s.perp = "flat" /\ s.spot = "flat"
  /\ s.phase = "entry_pending" =>
       /\ s.waited <= FillWindow + k
       /\ s.sinceTick <= s.waited - (PreTick - Slack)
  /\ s.phase = "holding" =>
       /\ s.perp = "full" /\ s.spot = "full"
       /\ s.sinceTick <= PostMin - 1 + k

Runs == IF due THEN 1 ELSE 0

(* A rate whose tick is still to come is about the next tick, old or not.  *)
OracleInv ==
  /\ left \in 1..Hour
  /\ oracle \in [Coins -> Rates]
  /\ \A c \in Coins : oracle[c].hot /\ oracle[c].left > 0 => oracle[c].left = left

PairsInv ==
  /\ due \in BOOLEAN
  /\ st = [c \in Coins |-> st[c]]
  /\ \A c \in Coins : Pair(st[c])
  /\ ~halted => \A c \in Coins : InTime(st[c], Runs)

LEMMA Numbers ==
  /\ Hour \in Nat /\ PreTick \in Nat /\ Slack \in Nat /\ FillWindow \in Nat
  /\ PostMin \in Nat /\ Slack < PreTick /\ PreTick + Slack < Hour
  /\ FillWindow + Slack + 2 <= PreTick + PostMin
  BY ScheduleAssumption, WindowsAssumption

-----------------------------------------------------------------------------
(* The state machine.                                                      *)

(* An entry keeps the distance to its tick.                                *)
LEMMA EnterInTime ==
  ASSUME NEW s, Pair(s), s.phase = "idle", s.perp = "flat", s.spot = "flat",
         NEW rate \in Rates, InWindow(rate), NEW notional
  PROVE  /\ Pair(Enter(s, rate, notional))
         /\ InTime(Enter(s, rate, notional), 0)
         /\ Enter(s, rate, notional).sinceTick = -rate.left
  <1> DEFINE e == Enter(s, rate, notional)
  <1>2. rate.left \in Nat /\ rate.left >= PreTick - Slack
    BY Numbers DEF Rates, InWindow
  <1>1. e = [phase |-> "entry_pending", target |-> notional, waited |-> 0,
             sinceTick |-> -rate.left, perp |-> s.perp, spot |-> s.spot]
    BY DEF Enter
  <1> HIDE DEF e
  <1>3. Pair(e)
    <2>1. s.perp \in Legs /\ s.spot \in Legs /\ -rate.left \in Int /\ 0 \in 0..MaxWait
      BY <1>2, Numbers DEF Pair, MaxWait
    <2>2. e.target = notional
      BY <1>1
    <2> QED BY <1>1, <2>1, <2>2 DEF Pair, Phases
  <1>4. InTime(e, 0) /\ e.sinceTick = -rate.left
    BY <1>1, <1>2, Numbers DEF InTime
  <1> QED BY <1>3, <1>4 DEF e

(* A run of the loop brings every coin up to date.                         *)
LEMMA EvaluateInTime ==
  ASSUME NEW s, Pair(s), NEW k \in {0, 1}, InTime(s, k),
         NEW rate \in Rates, NEW available
  PROVE  LET r == Evaluate(s, rate, available)
         IN /\ Pair(r)
            /\ InTime(r, 0)
            /\ s.phase = "idle" /\ r.phase = "entry_pending" =>
                 rate.hot /\ rate.left > 0 /\ r.sinceTick = -rate.left
  <1> DEFINE r == Evaluate(s, rate, available)
  <1> USE Numbers
  <1>a. s.phase \in Phases /\ s.waited \in Nat /\ s.sinceTick \in Int
    BY DEF Pair, MaxWait
  <1>x. ASSUME Pair(s) PROVE Pair(Exit(s)) /\ InTime(Exit(s), 0) /\ Exit(s).phase = "exit_pending"
    <2>1. Exit(s) = [phase |-> "exit_pending", target |-> s.target, waited |-> s.waited,
                     sinceTick |-> s.sinceTick, perp |-> s.perp, spot |-> s.spot]
      BY DEF Exit, Pair
    <2> QED BY <2>1 DEF Pair, InTime, Phases
  <1>1. CASE s.phase = "idle"
    <2>1. r = FromIdle(s, rate, available)
      BY <1>1 DEF Evaluate
    <2>2. CASE r = s
      BY <1>1, <2>2 DEF InTime
    <2>3. ASSUME InWindow(rate), NEW notional, r = Enter(s, rate, notional)
          PROVE  /\ Pair(r) /\ InTime(r, 0)
                 /\ rate.hot /\ rate.left > 0 /\ r.sinceTick = -rate.left
      <3>1. rate.hot /\ rate.left > 0
        BY <2>3 DEF InWindow, Rates
      <3> QED BY <1>1, <2>3, <3>1, EnterInTime DEF InTime
    <2> QED BY <1>1, <2>1, <2>2, <2>3 DEF FromIdle
  <1>2. CASE s.phase = "entry_pending"
    <2>1. r = EntryPending(s)
      BY <1>2 DEF Evaluate
    <2>2. CASE s.perp = "full" /\ s.spot = "full"
      <3>1. r = [phase |-> "holding", target |-> s.target, waited |-> s.waited,
                 sinceTick |-> s.sinceTick, perp |-> s.perp, spot |-> s.spot]
        BY <2>1, <2>2 DEF EntryPending, BothLegsFilled, Pair
      <3>2. s.sinceTick <= PostMin - 1
        BY <1>a, <1>2 DEF InTime
      <3> HIDE DEF r
      <3>3. Pair(r) /\ InTime(r, 0)
        BY <2>2, <3>1, <3>2 DEF Pair, InTime, Phases
      <3> QED BY <1>2, <3>3 DEF r
    <2>3. CASE ~(s.perp = "full" /\ s.spot = "full") /\ s.waited > FillWindow
      BY <1>x, <1>2, <2>1, <2>3 DEF EntryPending, BothLegsFilled
    <2>4. CASE ~(s.perp = "full" /\ s.spot = "full") /\ ~(s.waited > FillWindow)
      BY <1>a, <1>2, <2>1, <2>4 DEF EntryPending, BothLegsFilled, InTime
    <2> QED BY <2>2, <2>3, <2>4
  <1>3. CASE s.phase = "holding"
    <2>1. r = Holding(s, available)
      BY <1>3 DEF Evaluate
    <2>2. CASE r = Exit(s)
      BY <1>x, <1>3, <2>2
    <2>3. CASE r = s /\ ~(s.sinceTick >= PostMin)
      BY <1>a, <1>3, <2>3 DEF InTime
    <2> QED BY <2>1, <2>2, <2>3 DEF Holding
  <1>4. CASE s.phase = "exit_pending"
    <2>1. r = Idle \/ r = s
      BY <1>4 DEF Evaluate, ExitPending, BothLegsFlat
    <2>2. Pair(Idle) /\ InTime(Idle, 0) /\ Idle.phase = "idle"
      BY DEF Pair, InTime, Idle, Phases, Legs, MaxWait
    <2> QED BY <1>4, <2>1, <2>2 DEF InTime
  <1> QED BY <1>a, <1>1, <1>2, <1>3, <1>4 DEF Phases

(* What holds after a run of the loop holds before the next.               *)
LEMMA InTimeStill ==
  ASSUME NEW s, Pair(s), InTime(s, 0)
  PROVE  InTime(s, 1)
  BY Numbers DEF Pair, InTime, MaxWait

(* A run that breaks off has evaluated some coins and left the others.     *)
LEMMA BreaksOff ==
  ASSUME FundingTickBreaksOff
  PROVE  \E stored \in SUBSET Coins :
           st' = [c \in Coins |->
                    IF c \in stored THEN Evaluate(st[c], oracle[c], Allocation(B).available)
                    ELSE st[c]]
  <1> DEFINE granted == Allocation(B).available
             next == [c \in Coins |-> Evaluate(st[c], oracle[c], granted)]
  <1>1. PICK stored \in SUBSET Coins :
          st' = [c \in Coins |-> IF c \in stored THEN next[c] ELSE st[c]]
    BY DEF FundingTickBreaksOff
  <1>2. \A c \in Coins : next[c] = Evaluate(st[c], oracle[c], granted)
    OBVIOUS
  <1> HIDE DEF next
  <1> QED BY <1>1, <1>2

(* A unit of time makes every coin one unit older.                         *)
LEMMA AgedInTime ==
  ASSUME NEW s, Pair(s)
  PROVE  Pair(Aged(s)) /\ (InTime(s, 0) => InTime(Aged(s), 1))
  <1> USE Numbers
  <1>a. s.phase \in Phases /\ s.waited \in Nat /\ s.sinceTick \in Int
    BY DEF Pair, MaxWait
  <1>1. CASE s.phase = "idle"
    BY <1>1 DEF Aged, InTime
  <1>2. CASE s.phase # "idle"
    <2> DEFINE w == Smaller(s.waited + 1, MaxWait)
               t == Smaller(s.sinceTick + 1, MaxAge)
    <2>1. Aged(s) = [phase |-> s.phase, target |-> s.target, waited |-> w,
                     sinceTick |-> t, perp |-> s.perp, spot |-> s.spot]
      BY <1>2 DEF Aged, Pair
    <2>2. /\ w \in 0..MaxWait /\ t \in Int
          /\ w <= s.waited + 1 /\ t <= s.sinceTick + 1
          /\ s.waited <= FillWindow => w = s.waited + 1
      BY <1>a DEF Smaller, MaxWait, MaxAge
    <2> HIDE DEF w, t
    <2>3. Pair(Aged(s))
      BY <2>1, <2>2 DEF Pair
    <2>4. ASSUME InTime(s, 0) PROVE InTime(Aged(s), 1)
      <3>1. CASE s.phase = "entry_pending"
        BY <1>a, <2>1, <2>2, <2>4, <3>1 DEF InTime
      <3>2. CASE s.phase = "holding"
        BY <1>a, <2>1, <2>2, <2>4, <3>2 DEF InTime
      <3>3. CASE s.phase = "exit_pending"
        BY <2>1, <3>3 DEF InTime
      <3> QED BY <1>a, <1>2, <3>1, <3>2, <3>3 DEF Phases
    <2> QED BY <2>3, <2>4
  <1> QED BY <1>1, <1>2

(* A leg's report changes neither phase nor times.                         *)
LEMMA LegsInTime ==
  ASSUME NEW s, Pair(s), s.phase \in {"entry_pending", "exit_pending"},
         NEW leg \in {"perp", "spot"}, NEW size \in Legs,
         NEW k \in {0, 1}
  PROVE  LET r == Report(s, leg, size)
         IN /\ Pair(r)
            /\ r.phase = s.phase
            /\ InTime(s, k) => InTime(r, k)
  <1>1. CASE leg = "perp"
    <2>1. Report(s, leg, size)
          = [phase |-> s.phase, target |-> s.target, waited |-> s.waited,
             sinceTick |-> s.sinceTick, perp |-> size, spot |-> s.spot]
      BY <1>1 DEF Report, Pair
    <2> QED BY <1>1, <2>1 DEF Pair, InTime
  <1>2. CASE leg = "spot"
    <2>1. Report(s, leg, size)
          = [phase |-> s.phase, target |-> s.target, waited |-> s.waited,
             sinceTick |-> s.sinceTick, perp |-> s.perp, spot |-> size]
      BY <1>2 DEF Report, Pair
    <2> QED BY <1>2, <2>1 DEF Pair, InTime
  <1> QED BY <1>1, <1>2

-----------------------------------------------------------------------------
(* The invariants.                                                         *)

LEMMA OracleInit == Init => OracleInv
  <1> SUFFICES ASSUME Init PROVE OracleInv
    OBVIOUS
  <1>1. NoRate \in Rates /\ ~NoRate.hot
    BY Numbers DEF NoRate, Rates
  <1> QED BY <1>1 DEF Init, OracleInv

(* Only a poll writes rates, and time moves them with the true clock.      *)
LEMMA OracleStep == OracleInv /\ [Next]_vars => OracleInv'
  <1> SUFFICES ASSUME OracleInv, [Next]_vars PROVE OracleInv'
    OBVIOUS
  <1> USE Numbers
  <1>n. NoRate \in Rates /\ ~NoRate.hot
    BY DEF NoRate, Rates
  <1>1. CASE Poll
    <2>0. PICK answered \in SUBSET Coins : \E hot \in SUBSET answered :
            oracle' = [c \in Coins |-> IF c \in answered
                                       THEN [hot |-> c \in hot, left |-> left]
                                       ELSE NoRate]
      BY <1>1 DEF Poll
    <2>1. PICK hot \in SUBSET answered :
            oracle' = [c \in Coins |-> IF c \in answered
                                       THEN [hot |-> c \in hot, left |-> left]
                                       ELSE NoRate]
      BY <2>0
    <2>2. left' = left /\ left \in 1..Hour
      BY <1>1 DEF Poll, OracleInv
    <2>3. ASSUME NEW c \in Coins
          PROVE  /\ oracle'[c] \in Rates
                 /\ oracle'[c].hot => oracle'[c].left = left
      <3>1. (c \in hot) \in BOOLEAN /\ left \in 0..Hour
        BY <2>2
      <3>2. CASE c \in answered
        <4>1. oracle'[c] = [hot |-> c \in hot, left |-> left]
          BY <2>1, <3>2
        <4>2. oracle'[c] \in Rates
          BY <3>1, <4>1 DEF Rates
        <4> QED BY <4>1, <4>2
      <3>3. CASE c \notin answered
        BY <1>n, <2>1, <3>3
      <3> QED BY <3>2, <3>3
    <2>4. oracle' = [c \in Coins |-> oracle'[c]]
      BY <2>1
    <2>5. oracle' \in [Coins -> Rates]
      BY <2>3, <2>4
    <2> QED BY <2>2, <2>3, <2>5 DEF OracleInv
  <1>2. CASE TimePasses
    <2>1. /\ left' = IF left = 1 THEN Hour ELSE left - 1
          /\ oracle' = [c \in Coins |-> IF oracle[c] = NoRate THEN NoRate
                          ELSE [oracle[c] EXCEPT !.left = Larger(@ - 1, 0)]]
      BY <1>2 DEF TimePasses
    <2>2. left \in 1..Hour /\ left' \in 1..Hour
      BY <2>1 DEF OracleInv
    <2>3. ASSUME NEW c \in Coins
          PROVE  /\ oracle'[c] \in Rates
                 /\ oracle'[c].hot /\ oracle'[c].left > 0 => oracle'[c].left = left'
      <3>1. oracle[c] \in Rates
        BY DEF OracleInv
      <3>2. CASE oracle[c] = NoRate
        BY <1>n, <2>1, <3>2
      <3>3. CASE oracle[c] # NoRate
        <4> DEFINE n == Larger(oracle[c].left - 1, 0)
        <4>1. oracle'[c] = [hot |-> oracle[c].hot, left |-> n]
          BY <2>1, <3>1, <3>3 DEF Rates
        <4>2. n \in 0..Hour /\ (n > 0 => n = oracle[c].left - 1 /\ oracle[c].left > 1)
          BY <3>1 DEF Rates, Larger
        <4> HIDE DEF n
        <4>3. oracle[c].hot /\ n > 0 => n = left'
          BY <2>1, <2>2, <3>1, <4>2 DEF OracleInv, Rates
        <4> QED BY <3>1, <4>1, <4>2, <4>3 DEF Rates
      <3> QED BY <3>2, <3>3
    <2>4. oracle' = [c \in Coins |-> oracle'[c]]
      BY <2>1
    <2>5. oracle' \in [Coins -> Rates]
      BY <2>3, <2>4
    <2> QED BY <2>2, <2>3, <2>5 DEF OracleInv
  <1>3. CASE UNCHANGED <<oracle, left>>
    BY <1>3 DEF OracleInv
  <1> QED BY <1>1, <1>2, <1>3
          DEF Next, FundingTick, FundingTickBreaksOff, Halt, Draw, Fill, Unwind, vars

LEMMA PairsInit == Init => PairsInv
  <1> SUFFICES ASSUME Init PROVE PairsInv
    OBVIOUS
  <1>1. \A k : Pair(Idle) /\ InTime(Idle, k)
    BY Numbers DEF Pair, InTime, Idle, Phases, Legs, MaxWait
  <1>2. st = [c \in Coins |-> Idle] /\ due = FALSE
    BY DEF Init
  <1> QED BY <1>1, <1>2 DEF PairsInv

(* A run of the loop brings all coins up to date, and time makes them one  *)
(* unit older only after the loop has run; legs change neither.            *)
LEMMA PairsStep == OracleInv /\ PairsInv /\ [Next]_vars => PairsInv'
  <1> SUFFICES ASSUME OracleInv, PairsInv, [Next]_vars PROVE PairsInv'
    OBVIOUS
  <1>k. Runs \in {0, 1} /\ Runs' \in {0, 1}
    BY DEF Runs
  <1>1. CASE FundingTick
    <2>1. PICK available :
            st' = [c \in Coins |-> Evaluate(st[c], oracle[c], available)]
      BY <1>1 DEF FundingTick
    <2>2. ~halted /\ halted' = halted /\ due' = FALSE
      BY <1>1 DEF FundingTick
    <2>3. ASSUME NEW c \in Coins PROVE Pair(st'[c]) /\ InTime(st'[c], 0)
      <3>1. st'[c] = Evaluate(st[c], oracle[c], available)
        BY <2>1
      <3>2. Pair(st[c]) /\ InTime(st[c], Runs) /\ oracle[c] \in Rates
        BY <2>2 DEF PairsInv, OracleInv
      <3> QED BY <1>k, <3>1, <3>2, EvaluateInTime
    <2>4. Runs' = 0
      BY <2>2 DEF Runs
    <2> QED BY <2>1, <2>2, <2>3, <2>4 DEF PairsInv
  <1>2. CASE TimePasses
    <2>1. /\ st' = [c \in Coins |-> Aged(st[c])]
          /\ ~due \/ halted
          /\ due' = TRUE /\ halted' = halted
      BY <1>2 DEF TimePasses
    <2>2. ~halted => Runs = 0
      BY <2>1 DEF Runs
    <2>3. Runs' = 1
      BY <2>1 DEF Runs
    <2>4. ASSUME NEW c \in Coins PROVE Pair(st'[c]) /\ (~halted => InTime(st'[c], 1))
      <3>1. st'[c] = Aged(st[c])
        BY <2>1
      <3>2. Pair(st[c]) /\ (~halted => InTime(st[c], 0))
        BY <2>2 DEF PairsInv
      <3> QED BY <3>1, <3>2, AgedInTime
    <2> QED BY <2>1, <2>3, <2>4 DEF PairsInv
  <1>3. ASSUME NEW c \in Coins, NEW leg \in {"perp", "spot"}, Fill(c, leg) \/ Unwind(c, leg)
        PROVE  PairsInv'
    <2>1. PICK size \in Legs : st' = [st EXCEPT ![c] = Report(@, leg, size)]
      BY <1>3 DEF Fill, Unwind, Legs
    <2>2. /\ st[c].phase \in {"entry_pending", "exit_pending"}
          /\ due' = due /\ halted' = halted
      BY <1>3 DEF Fill, Unwind
    <2>3. st' = [d \in Coins |-> IF d = c THEN Report(st[c], leg, size) ELSE st[d]]
      BY <2>1 DEF PairsInv
    <2>4. ASSUME NEW d \in Coins PROVE Pair(st'[d]) /\ (~halted => InTime(st'[d], Runs))
      <3>1. Pair(st[d]) /\ (~halted => InTime(st[d], Runs))
        BY DEF PairsInv
      <3>2. CASE d = c
        <4>1. st'[d] = Report(st[c], leg, size)
          BY <2>3, <3>2
        <4> QED BY <1>k, <2>2, <3>1, <3>2, <4>1, LegsInTime
      <3>3. CASE d # c
        BY <2>3, <3>1, <3>3
      <3> QED BY <3>2, <3>3
    <2>5. Runs' = Runs
      BY <2>2 DEF Runs
    <2> QED BY <2>2, <2>3, <2>4, <2>5 DEF PairsInv
  <1>4. CASE UNCHANGED <<st, due>> /\ (halted' = halted \/ halted')
    <2>1. Runs' = Runs
      BY <1>4 DEF Runs
    <2> QED BY <1>4, <2>1 DEF PairsInv
  <1>5. CASE FundingTickBreaksOff
    <2> DEFINE available == Allocation(B).available
    <2>1. PICK stored \in SUBSET Coins :
            st' = [c \in Coins |-> IF c \in stored THEN Evaluate(st[c], oracle[c], available)
                                   ELSE st[c]]
      BY <1>5, BreaksOff
    <2> HIDE DEF available
    <2>2. ~halted /\ halted' = halted /\ due' = due /\ due
      BY <1>5 DEF FundingTickBreaksOff
    <2>3. Runs = 1 /\ Runs' = 1
      BY <2>2 DEF Runs
    <2>4. ASSUME NEW c \in Coins PROVE Pair(st'[c]) /\ InTime(st'[c], 1)
      <3>1. Pair(st[c]) /\ InTime(st[c], 1) /\ oracle[c] \in Rates
        BY <2>2, <2>3 DEF PairsInv, OracleInv
      <3>2. CASE c \in stored
        <4> DEFINE r == Evaluate(st[c], oracle[c], available)
        <4>1. st'[c] = r
          BY <2>1, <3>2
        <4>2. Pair(r) /\ InTime(r, 0)
          BY <3>1, EvaluateInTime
        <4> HIDE DEF r
        <4>3. InTime(r, 1)
          BY <4>2, InTimeStill
        <4> QED BY <4>1, <4>2, <4>3
      <3>3. CASE c \notin stored
        BY <2>1, <3>1, <3>3
      <3> QED BY <3>2, <3>3
    <2> QED BY <2>1, <2>2, <2>3, <2>4 DEF PairsInv
  <1> QED BY <1>1, <1>2, <1>3, <1>4, <1>5 DEF Next, Poll, Halt, Draw, vars

LEMMA Inductive == Spec => [](OracleInv /\ PairsInv)
  <1> QED BY OracleInit, OracleStep, PairsInit, PairsStep, PTL DEF Spec

-----------------------------------------------------------------------------
(* The theorems.                                                           *)

(* An entry is for the coming funding tick, however old the oracle's rate  *)
(* is, for any hour, window and notional (funding_capture.py:307-322).     *)
THEOREM NextTick == Spec => EntersForNextTick
  <1> DEFINE Enters == \A c \in Coins :
               st[c].phase = "idle" /\ st'[c].phase = "entry_pending" =>
                 st'[c].sinceTick = -left
  <1>1. OracleInv /\ PairsInv /\ [Next]_vars => [Enters]_vars
    <2> SUFFICES ASSUME OracleInv, PairsInv, Next,
                        NEW c \in Coins, st[c].phase = "idle", st'[c].phase = "entry_pending"
                 PROVE  st'[c].sinceTick = -left
      OBVIOUS
    <2>1. CASE FundingTick
      <3>1. PICK available :
              st' = [d \in Coins |-> Evaluate(st[d], oracle[d], available)]
        BY <2>1 DEF FundingTick
      <3>2. st'[c] = Evaluate(st[c], oracle[c], available)
        BY <3>1
      <3>3. /\ Pair(st[c]) /\ InTime(st[c], Runs) /\ Runs \in {0, 1}
            /\ oracle[c] \in Rates
        BY <2>1 DEF PairsInv, OracleInv, FundingTick, Runs
      <3>4. oracle[c].hot /\ oracle[c].left > 0 /\ st'[c].sinceTick = -oracle[c].left
        BY <3>2, <3>3, EvaluateInTime
      <3>5. oracle[c].left = left
        BY <3>4 DEF OracleInv
      <3> QED BY <3>4, <3>5
    <2>2. CASE TimePasses
      <3>1. st'[c] = Aged(st[c])
        BY <2>2 DEF TimePasses
      <3> QED BY <3>1 DEF Aged
    <2>3. ASSUME NEW d \in Coins, NEW leg \in {"perp", "spot"}, Fill(d, leg) \/ Unwind(d, leg)
          PROVE  FALSE
      <3>1. st[d].phase # "idle"
        BY <2>3 DEF Fill, Unwind
      <3>2. PICK size \in Legs : st' = [st EXCEPT ![d] = Report(@, leg, size)]
        BY <2>3 DEF Fill, Unwind, Legs
      <3>3. st'[c] = st[c]
        BY <3>1, <3>2 DEF PairsInv
      <3> QED BY <3>3
    <2>4. CASE UNCHANGED st
      BY <2>4
    <2>5. CASE FundingTickBreaksOff
      <3> DEFINE available == Allocation(B).available
      <3>1. PICK stored \in SUBSET Coins :
              st' = [d \in Coins |-> IF d \in stored THEN Evaluate(st[d], oracle[d], available)
                                     ELSE st[d]]
        BY <2>5, BreaksOff
      <3> HIDE DEF available
      <3>2. st'[c] = Evaluate(st[c], oracle[c], available)
        <4>1. st'[c] # st[c]
          OBVIOUS
        <4> QED BY <3>1, <4>1
      <3>3. /\ Pair(st[c]) /\ InTime(st[c], Runs) /\ Runs \in {0, 1}
            /\ oracle[c] \in Rates
        BY <2>5 DEF PairsInv, OracleInv, FundingTickBreaksOff, Runs
      <3>4. oracle[c].hot /\ oracle[c].left > 0 /\ st'[c].sinceTick = -oracle[c].left
        BY <3>2, <3>3, EvaluateInTime
      <3>5. oracle[c].left = left
        BY <3>4 DEF OracleInv
      <3> QED BY <3>4, <3>5
    <2> QED BY <2>1, <2>2, <2>3, <2>4, <2>5 DEF Next, Poll, Halt, Draw
  <1> QED BY <1>1, Inductive, PTL DEF Spec, EntersForNextTick

(* Outside a halt a half-filled pair waits no longer than the fill window  *)
(* and one run of the loop (funding_capture.py:270-301).                   *)
THEOREM HalfPairs == Spec => []HalfPairBounded
  <1>1. PairsInv => HalfPairBounded
    <2> SUFFICES ASSUME PairsInv, NEW c \in Coins, ~halted,
                        st[c].phase # "exit_pending", st[c].perp # st[c].spot
                 PROVE  st[c].waited <= FillWindow + 1
      BY DEF HalfPairBounded
    <2>1. /\ InTime(st[c], Runs) /\ st[c].phase \in Phases
          /\ st[c].waited \in Nat /\ FillWindow \in Nat /\ Runs \in {0, 1}
      BY Numbers DEF PairsInv, Pair, MaxWait, Runs
    <2>2. st[c].phase = "entry_pending"
      BY <2>1 DEF InTime, Phases
    <2> QED BY <2>1, <2>2 DEF InTime
  <1> QED BY <1>1, Inductive, PTL

(* Outside a halt no pair is held beyond the first run of the loop after   *)
(* its time to exit, with or without a rate (funding_capture.py:227-247).  *)
THEOREM Exits == Spec => []ExitsOnTime
  <1>1. PairsInv => ExitsOnTime
    <2> SUFFICES ASSUME PairsInv, NEW c \in Coins, ~halted, st[c].phase = "holding"
                 PROVE  st[c].sinceTick <= PostMin
      BY DEF ExitsOnTime
    <2>1. /\ InTime(st[c], Runs) /\ st[c].sinceTick \in Int
          /\ PostMin \in Nat /\ Runs \in {0, 1}
      BY Numbers DEF PairsInv, Pair, Runs
    <2> QED BY <2>1 DEF InTime
  <1> QED BY <1>1, Inductive, PTL

-----------------------------------------------------------------------------
(* What is pledged is what is worked on.                                   *)

Pledging(s) == IF s.phase = "idle" THEN s = Idle ELSE s.target > 0

PledgeInv == \A c \in Coins : Pledging(st[c])

LEMMA EvaluatePledges ==
  ASSUME NEW s, Pair(s), Pledging(s), NEW rate, NEW available
  PROVE  Pledging(Evaluate(s, rate, available))
  <1> USE DEF Pledging
  <1>p. s.phase \in Phases
    BY DEF Pair
  <1>1. CASE s.phase = "idle"
    <2> DEFINE notional == Smaller(Equity * LegPct, available)
    <2>1. Evaluate(s, rate, available)
            = IF InWindow(rate) /\ notional > 0 THEN Enter(s, rate, notional) ELSE s
      BY <1>1 DEF Evaluate, FromIdle
    <2> HIDE DEF notional
    <2>2. /\ Enter(s, rate, notional).phase = "entry_pending"
          /\ Enter(s, rate, notional).target = notional
      BY DEF Enter
    <2>3. CASE InWindow(rate) /\ notional > 0
      BY <2>1, <2>2, <2>3
    <2>4. CASE ~(InWindow(rate) /\ notional > 0)
      BY <1>1, <2>1, <2>4
    <2> QED BY <2>3, <2>4
  <1>2. CASE s.phase = "entry_pending"
    <2>1. Evaluate(s, rate, available)
            \in {s, [s EXCEPT !.phase = "holding"], [s EXCEPT !.phase = "exit_pending"]}
      BY <1>2 DEF Evaluate, EntryPending, Exit
    <2> QED BY <1>2, <2>1 DEF Pair
  <1>3. CASE s.phase = "holding"
    <2>1. Evaluate(s, rate, available) \in {s, [s EXCEPT !.phase = "exit_pending"]}
      BY <1>3 DEF Evaluate, Holding, Exit
    <2> QED BY <1>3, <2>1 DEF Pair
  <1>4. CASE s.phase = "exit_pending"
    <2>1. Evaluate(s, rate, available) \in {s, Idle}
      BY <1>4 DEF Evaluate, ExitPending
    <2> QED BY <1>4, <2>1 DEF Idle
  <1> QED BY <1>p, <1>1, <1>2, <1>3, <1>4 DEF Phases

LEMMA PledgeStep == OracleInv /\ PairsInv /\ PledgeInv /\ [Next]_vars => PledgeInv'
  <1> SUFFICES ASSUME OracleInv, PairsInv, PledgeInv, [Next]_vars, NEW c \in Coins
               PROVE  Pledging(st'[c])
    BY DEF PledgeInv, Pledging
  <1>a. Pair(st[c]) /\ Pledging(st[c])
    BY DEF PairsInv, PledgeInv
  <1>1. CASE FundingTick
    <2>1. PICK available :
            st' = [d \in Coins |-> Evaluate(st[d], oracle[d], available)]
      BY <1>1 DEF FundingTick
    <2>2. st'[c] = Evaluate(st[c], oracle[c], available)
      BY <2>1
    <2> QED BY <1>a, <2>2, EvaluatePledges
  <1>2. CASE FundingTickBreaksOff
    <2> DEFINE available == Allocation(B).available
    <2>1. PICK stored \in SUBSET Coins :
            st' = [d \in Coins |-> IF d \in stored THEN Evaluate(st[d], oracle[d], available)
                                   ELSE st[d]]
      BY <1>2, BreaksOff
    <2> HIDE DEF available
    <2>2. st'[c] = Evaluate(st[c], oracle[c], available) \/ st'[c] = st[c]
      BY <2>1
    <2> QED BY <1>a, <2>2, EvaluatePledges
  <1>3. CASE TimePasses
    <2>1. st'[c] = Aged(st[c])
      BY <1>3 DEF TimePasses
    <2>2. CASE st[c].phase = "idle"
      BY <1>a, <2>1, <2>2 DEF Aged
    <2>3. CASE st[c].phase # "idle"
      BY <1>a, <2>1, <2>3 DEF Aged, Pair, Pledging
    <2> QED BY <2>2, <2>3
  <1>4. ASSUME NEW d \in Coins, NEW leg \in {"perp", "spot"}, Fill(d, leg) \/ Unwind(d, leg)
        PROVE  Pledging(st'[c])
    <2>1. PICK size : st' = [st EXCEPT ![d] = Report(@, leg, size)]
      BY <1>4 DEF Fill, Unwind
    <2>2. st[d].phase # "idle"
      BY <1>4 DEF Fill, Unwind
    <2>3. CASE d # c
      BY <1>a, <2>1, <2>3 DEF PairsInv
    <2>4. CASE d = c
      <3>1. st'[c] = Report(st[c], leg, size)
        BY <2>1, <2>4 DEF PairsInv
      <3> QED BY <1>a, <2>2, <2>4, <3>1 DEF Report, Pair, Pledging
    <2> QED BY <2>3, <2>4
  <1>5. CASE UNCHANGED st
    BY <1>a, <1>5
  <1> QED BY <1>1, <1>2, <1>3, <1>4, <1>5 DEF Next, Poll, Halt, Draw, vars

(* PledgedWhileWorkedOn: a coin has a notional pledged exactly while its   *)
(* pair is not idle, and an idle coin has no leg left, halted or not: the  *)
(* exit gives the pledge back only when both legs are flat, and an entry   *)
(* that pledges nothing is not made (funding_capture.py:249-322).          *)
PledgedWhileWorkedOn ==
  \A c \in Coins :
    /\ st[c].phase = "idle" <=> st[c].target = 0
    /\ st[c].phase = "idle" => BothLegsFlat(st[c])

THEOREM Pledges == Spec => []PledgedWhileWorkedOn
  <1>1. Init => PledgeInv
    BY DEF Init, PledgeInv, Pledging, Idle
  <1>2. PledgeInv => PledgedWhileWorkedOn
    BY DEF PledgeInv, Pledging, PledgedWhileWorkedOn, Idle, BothLegsFlat
  <1> QED BY <1>1, <1>2, OracleInit, OracleStep, PairsInit, PairsStep, PledgeStep, PTL DEF Spec

-----------------------------------------------------------------------------
(* The buffer.                                                             *)

(* Each coin's pledge fits beside what A uses.  The pledges together need  *)
(* not, so they are no part of it.                                         *)
BufferInv ==
  /\ aUsed \in Nat
  /\ \A c \in Coins : st[c].target \in Nat
  /\ BufferKept

(* What is left of the equity once the buffer is taken.                    *)
LEMMA DeployableNat == Deployable(Equity) \in Nat /\ Equity \in Nat
  <1>1. Equity \in Nat /\ BufferPct \in 0..100
    BY ScheduleAssumption, SharesAssumption
  <1>2. 100 - BufferPct \in Nat
    BY <1>1
  <1>3. 100 * Equity - Equity * BufferPct = Equity * (100 - BufferPct)
    BY <1>1
  <1>4. \A m, n \in Nat : m * n \in Nat
    OBVIOUS
  <1> QED BY <1>1, <1>2, <1>3, <1>4 DEF Deployable

(* The sum of B's pledges is a natural that no single one exceeds.         *)
LEMMA PledgedCovers ==
  ASSUME BufferInv
  PROVE  Pledged \in Nat /\ \A c \in Coins : st[c].target <= Pledged
  <1> DEFINE f == [c \in Coins |-> st[c].target]
  <1>1. IsFiniteSet(Coins)
    BY ScheduleAssumption
  <1>2. \A c \in Coins : f[c] \in Nat /\ f[c] = st[c].target
    BY DEF BufferInv
  <1>3. Pledged = SumFunctionOnSet(f, Coins)
    BY DEF Pledged
  <1> HIDE DEF f
  <1>4. SumFunctionOnSet(f, Coins) \in Nat
    BY <1>1, <1>2, SumNat
  <1>5. ASSUME NEW c \in Coins PROVE f[c] <= SumFunctionOnSet(f, Coins)
    BY <1>1, <1>2, SumMember
  <1> QED BY <1>2, <1>3, <1>4, <1>5

(* The allocator offers no more than is left beside both strategies' use.  *)
LEMMA Offered ==
  ASSUME BufferInv, NEW strategy \in Strategies
  PROVE  /\ Allocation(strategy).available \in Nat
         /\ Allocation(strategy).available
              <= Larger(0, Deployable(Equity) - aUsed - Pledged)
         /\ Allocation(A).used <= aUsed /\ Allocation(A).used \in Nat
  <1> DEFINE used == [s \in Strategies |-> IF s = A THEN aUsed ELSE Pledged]
             f == [t \in Strategies |-> Larger(0, used[t])]
             others == SumFunctionOnSet(f, Strategies \ {strategy})
             own == Larger(0, used[strategy])
             open == Available(Share(Equity, strategy), Deployable(Equity), own, others)
  <1>1. Strategies = {A, B} /\ A # B
    BY ScheduleAssumption DEF A, B
  <1>2. aUsed \in Nat /\ Pledged \in Nat
    BY PledgedCovers DEF BufferInv
  <1>3. \A t \in Strategies : f[t] = (IF t = A THEN aUsed ELSE Pledged) /\ f[t] \in Int
    BY <1>2 DEF Larger
  <1>4. own + others = aUsed + Pledged /\ own \in Nat /\ others \in Nat
    <2>1. own = f[strategy]
      OBVIOUS
    <2>2. CASE strategy = A
      <3>1. Strategies \ {strategy} = {B}
        BY <1>1, <2>2
      <3>2. f[B] = Pledged /\ f[strategy] = aUsed /\ f[B] \in Int
        BY <1>1, <1>3, <2>2
      <3> HIDE DEF f, own
      <3>3. others = Pledged
        BY <3>1, <3>2, SumSingleton
      <3> HIDE DEF others
      <3> QED BY <1>2, <2>1, <3>2, <3>3
    <2>3. CASE strategy = B
      <3>1. Strategies \ {strategy} = {A}
        BY <1>1, <2>3
      <3>2. f[A] = aUsed /\ f[strategy] = Pledged /\ f[A] \in Int
        BY <1>1, <1>3, <2>3
      <3> HIDE DEF f, own
      <3>3. others = aUsed
        BY <3>1, <3>2, SumSingleton
      <3> HIDE DEF others
      <3> QED BY <1>2, <2>1, <3>2, <3>3
    <2> QED BY <1>1, <2>2, <2>3
  <1>5. Allocation(strategy).available = IF Equity <= 0 THEN 0 ELSE open
    <2>1. CASE Equity <= 0
      BY <2>1 DEF Allocation, Allocate
    <2>2. CASE ~ (Equity <= 0)
      BY <2>2 DEF Allocation, Allocate
    <2> QED BY <2>1, <2>2
  <1>6. Allocation(A).used = IF Equity <= 0 THEN 0 ELSE Larger(0, used[A])
    <2>1. CASE Equity <= 0
      BY <1>1, <2>1 DEF Allocation, Allocate
    <2>2. CASE ~ (Equity <= 0)
      BY <1>1, <2>2 DEF Allocation, Allocate
    <2> QED BY <2>1, <2>2
  <1>7. Allocation(A).used \in {0, aUsed}
    <2>1. Larger(0, used[A]) = aUsed
      BY <1>1, <1>2 DEF Larger
    <2> QED BY <1>6, <2>1
  <1>8. Share(Equity, strategy) \in Int /\ Deployable(Equity) \in Int /\ Equity \in Nat
    <2>1. MaxPct[strategy] \in Int
      BY SharesAssumption
    <2> QED BY <2>1, DeployableNat DEF Share
  <1> HIDE DEF used, own, others, f
  <1>9. open \in Nat /\ open <= Larger(0, Deployable(Equity) - aUsed - Pledged)
    <2> DEFINE share == Share(Equity, strategy)
               deployable == Deployable(Equity)
    <2>1. share \in Int /\ deployable \in Int
      BY <1>8
    <2> HIDE DEF share, deployable
    <2>2. Nominal(share, own) \in Nat
      BY <1>4, <2>1 DEF Nominal, Larger
    <2>3. Residual(deployable, own, others) \in Nat
      BY <1>4, <2>1 DEF Residual, Larger
    <2>4. Residual(deployable, own, others) = Larger(0, deployable - aUsed - Pledged)
      <3>1. deployable - others - own = deployable - aUsed - Pledged
        BY <1>2, <1>4, <2>1
      <3> QED BY <3>1 DEF Residual
    <2>5. /\ Available(share, deployable, own, others) \in Nat
          /\ Available(share, deployable, own, others) <= Residual(deployable, own, others)
      BY <2>2, <2>3 DEF Available, Smaller
    <2> QED BY <2>4, <2>5 DEF share, deployable
  <1>10. 0 <= Larger(0, Deployable(Equity) - aUsed - Pledged)
    BY <1>2, <1>8 DEF Larger
  <1> HIDE DEF open
  <1> QED BY <1>2, <1>5, <1>7, <1>9, <1>10

(* The machine keeps a pledge, drops it, or makes one of what is offered.  *)
LEMMA EvaluateTarget ==
  ASSUME NEW s, Pair(s), s.target \in Nat, NEW rate, NEW available \in Nat
  PROVE  LET r == Evaluate(s, rate, available)
         IN r.target \in Nat /\ (r.target \in {s.target, 0} \/ r.target <= available)
  <1>1. Exit(s).target = s.target /\ Idle.target = 0
    BY DEF Exit, Pair, Idle
  <1>2. CASE s.phase = "idle"
    <2> DEFINE notional == Smaller(Equity * LegPct, available)
    <2>1. notional \in Int /\ notional <= available
      <3>1. Equity * LegPct \in Int
        BY ScheduleAssumption
      <3> QED BY <3>1 DEF Smaller
    <2>2. Evaluate(s, rate, available) =
            IF InWindow(rate) /\ notional > 0 THEN Enter(s, rate, notional) ELSE s
      BY <1>2 DEF Evaluate, FromIdle
    <2> HIDE DEF notional
    <2>3. Enter(s, rate, notional).target = notional
      BY DEF Enter
    <2> QED BY <2>1, <2>2, <2>3
  <1>3. CASE s.phase = "entry_pending"
    <2>1. Evaluate(s, rate, available) = EntryPending(s)
      BY <1>3 DEF Evaluate
    <2>2. EntryPending(s).target = s.target
      BY <1>1 DEF EntryPending, Pair
    <2> QED BY <2>1, <2>2
  <1>4. CASE s.phase = "holding"
    <2>1. Evaluate(s, rate, available) = Holding(s, available)
      BY <1>4 DEF Evaluate
    <2>2. Holding(s, available).target = s.target
      BY <1>1 DEF Holding
    <2> QED BY <2>1, <2>2
  <1>5. CASE s.phase = "exit_pending"
    <2>1. Evaluate(s, rate, available) = ExitPending(s)
      BY <1>5 DEF Evaluate
    <2>2. ExitPending(s).target \in {s.target, 0}
      BY <1>1 DEF ExitPending
    <2> QED BY <2>1, <2>2
  <1> QED BY <1>2, <1>3, <1>4, <1>5 DEF Pair, Phases

(* So a pledge the loop makes fits beside A.                               *)
LEMMA EvaluateFits ==
  ASSUME PairsInv, BufferInv, NEW c \in Coins, NEW rate
  PROVE  LET r == Evaluate(st[c], rate, Allocation(B).available)
         IN r.target \in Nat /\ aUsed + r.target <= Deployable(Equity)
  <1> DEFINE available == Allocation(B).available
             r == Evaluate(st[c], rate, available)
  <1>1. B \in Strategies
    BY ScheduleAssumption
  <1>2. available \in Nat /\ available <= Larger(0, Deployable(Equity) - aUsed - Pledged)
    BY <1>1, Offered
  <1>3. /\ aUsed \in Nat /\ st[c].target \in Nat /\ aUsed + st[c].target <= Deployable(Equity)
        /\ Pledged \in Nat /\ Deployable(Equity) \in Nat
    BY PledgedCovers, DeployableNat DEF BufferInv, BufferKept
  <1>4. Pair(st[c])
    BY DEF PairsInv
  <1> HIDE DEF available
  <1>5. r.target \in Nat /\ (r.target \in {st[c].target, 0} \/ r.target <= available)
    BY <1>2, <1>3, <1>4, EvaluateTarget
  <1> DEFINE t == r.target
             old == st[c].target
             dep == Deployable(Equity)
  <1>6. t \in Nat /\ (t \in {old, 0} \/ t <= available)
    BY <1>5
  <1> HIDE DEF r
  <1>7. aUsed + t <= dep
    <2> HIDE DEF t, old, dep
    <2>1. available <= Larger(0, dep - aUsed - Pledged)
      BY <1>2 DEF dep
    <2>2. /\ aUsed \in Nat /\ old \in Nat /\ aUsed + old <= dep
          /\ Pledged \in Nat /\ dep \in Nat
      BY <1>3 DEF old, dep
    <2> QED BY <1>2, <1>6, <2>1, <2>2 DEF Larger
  <1> QED BY <1>6, <1>7 DEF available, r

(* No step breaks into the buffer: the loop sees what A uses, and A what   *)
(* the loop has pledged.                                                   *)
LEMMA BufferStep == PairsInv /\ BufferInv /\ [Next]_vars => BufferInv'
  <1> SUFFICES ASSUME PairsInv, BufferInv, [Next]_vars PROVE BufferInv'
    OBVIOUS
  <1>0. /\ aUsed \in Nat /\ Deployable(Equity) \in Nat
        /\ \A c \in Coins : st[c].target \in Nat /\ aUsed + st[c].target <= Deployable(Equity)
        /\ st = [c \in Coins |-> st[c]]
        /\ \A c \in Coins : Pair(st[c])
    BY DeployableNat DEF BufferInv, BufferKept, PairsInv
  <1>1. ASSUME aUsed' = aUsed, \A c \in Coins : st'[c].target = st[c].target
        PROVE  BufferInv'
    BY <1>0, <1>1 DEF BufferInv, BufferKept
  <1>2. CASE UNCHANGED vars
    BY <1>1, <1>2 DEF vars
  <1>3. CASE FundingTick
    <2>1. /\ \A c \in Coins : st'[c] = Evaluate(st[c], oracle[c], Allocation(B).available)
          /\ aUsed' = aUsed
      BY <1>3 DEF FundingTick
    <2>2. \A c \in Coins : st'[c].target \in Nat /\ aUsed + st'[c].target <= Deployable(Equity)
      BY <2>1, EvaluateFits
    <2> QED BY <1>0, <2>1, <2>2 DEF BufferInv, BufferKept
  <1>4. CASE FundingTickBreaksOff
    <2>1. /\ \A c \in Coins : \/ st'[c] = st[c]
                              \/ st'[c] = Evaluate(st[c], oracle[c], Allocation(B).available)
          /\ aUsed' = aUsed
      BY <1>4, BreaksOff DEF FundingTickBreaksOff
    <2>2. \A c \in Coins : st'[c].target \in Nat /\ aUsed + st'[c].target <= Deployable(Equity)
      BY <1>0, <2>1, EvaluateFits
    <2> QED BY <1>0, <2>1, <2>2 DEF BufferInv, BufferKept
  <1>5. CASE Poll \/ Halt
    BY <1>1, <1>5 DEF Poll, Halt
  <1>6. CASE TimePasses
    <2>1. \A c \in Coins : st'[c] = Aged(st[c])
      BY <1>6 DEF TimePasses
    <2>2. ASSUME NEW c \in Coins PROVE Aged(st[c]).target = st[c].target
      <3>1. Pair(st[c])
        BY <1>0
      <3> QED BY <3>1 DEF Aged, Pair
    <2>3. aUsed' = aUsed
      BY <1>6 DEF TimePasses
    <2> QED BY <1>1, <2>1, <2>2, <2>3
  <1>7. ASSUME NEW target \in Draws, Draw(target) PROVE BufferInv'
    <2>1. /\ target <= Allocation(A).available + Allocation(A).used
          /\ aUsed' = target /\ st' = st
      BY <1>7 DEF Draw
    <2>2. A \in Strategies /\ target \in Nat
      BY ScheduleAssumption
    <2>3. /\ Allocation(A).available \in Nat /\ Allocation(A).used \in Nat
          /\ Allocation(A).available <= Larger(0, Deployable(Equity) - aUsed - Pledged)
          /\ Allocation(A).used <= aUsed
      BY <2>2, Offered
    <2>4. Pledged \in Nat /\ \A c \in Coins : st[c].target <= Pledged
      BY PledgedCovers
    <2>5. ASSUME NEW c \in Coins PROVE target + st[c].target <= Deployable(Equity)
      <3> DEFINE t == st[c].target
                 dep == Deployable(Equity)
                 available == Allocation(A).available
                 used == Allocation(A).used
      <3>1. t \in Nat /\ dep \in Nat /\ aUsed + t <= dep /\ t <= Pledged
        BY <1>0, <2>4
      <3>2. /\ available \in Nat /\ used \in Nat /\ used <= aUsed
            /\ available <= Larger(0, dep - aUsed - Pledged)
            /\ target <= available + used
        BY <2>1, <2>3
      <3> HIDE DEF t, dep, available, used
      <3>3. target + t <= dep
        BY <1>0, <2>2, <2>4, <3>1, <3>2 DEF Larger
      <3> QED BY <3>3 DEF t, dep
    <2> QED BY <1>0, <2>1, <2>2, <2>5 DEF BufferInv, BufferKept
  <1>8. ASSUME NEW c \in Coins, NEW leg \in {"perp", "spot"}, NEW size,
               st' = [st EXCEPT ![c] = Report(@, leg, size)], aUsed' = aUsed
        PROVE  BufferInv'
    <2>1. Report(st[c], leg, size).target = st[c].target
      <3>1. Pair(st[c])
        BY <1>0
      <3> QED BY <3>1 DEF Report, Pair
    <2>2. \A d \in Coins : st'[d] = IF d = c THEN Report(st[c], leg, size) ELSE st[d]
      BY <1>0, <1>8
    <2> QED BY <1>1, <1>8, <2>1, <2>2
  <1>9. ASSUME NEW c \in Coins, NEW leg \in {"perp", "spot"}, Fill(c, leg) PROVE BufferInv'
    <2>1. PICK size \in {"part", "full"} : st' = [st EXCEPT ![c] = Report(@, leg, size)]
      BY <1>9 DEF Fill
    <2> QED BY <1>8, <1>9, <2>1 DEF Fill
  <1>10. ASSUME NEW c \in Coins, NEW leg \in {"perp", "spot"}, Unwind(c, leg) PROVE BufferInv'
    BY <1>8, <1>10 DEF Unwind
  <1> QED BY <1>2, <1>3, <1>4, <1>5, <1>6, <1>7, <1>9, <1>10 DEF Next

LEMMA BufferInit == Init => BufferInv
  <1> SUFFICES ASSUME Init PROVE BufferInv
    OBVIOUS
  <1>1. aUsed = 0 /\ \A c \in Coins : st[c].target = 0
    BY DEF Init, Idle
  <1> QED BY <1>1, DeployableNat DEF BufferInv, BufferKept

(* Whichever strategy draws first, what A uses and B has pledged for any   *)
(* one coin never exceed the equity less the buffer.                       *)
THEOREM Buffer == Spec => []BufferKept
  <1>1. Init => BufferInv
    BY BufferInit
  <1>2. BufferInv => BufferKept
    BY DEF BufferInv
  <1> QED BY <1>1, <1>2, BufferStep, Inductive, PTL DEF Spec

(* TypeOK: the state is well typed; no notional that is pledged or used is *)
(* negative, and a count of waiting stays within its bound.                *)
TypeOK ==
  /\ st \in [Coins -> [phase : Phases, target : Nat, waited : 0..MaxWait,
                       sinceTick : Int, perp : Legs, spot : Legs]]
  /\ oracle \in [Coins -> Rates]
  /\ left \in 1..Hour
  /\ due \in BOOLEAN
  /\ aUsed \in Nat

THEOREM TypeCorrect == Spec => []TypeOK
  <1>1. Init => BufferInv
    BY BufferInit
  <1>2. OracleInv /\ PairsInv /\ BufferInv => TypeOK
    <2> SUFFICES ASSUME OracleInv, PairsInv, BufferInv PROVE TypeOK
      OBVIOUS
    <2>1. ASSUME NEW c \in Coins
          PROVE  st[c] \in [phase : Phases, target : Nat, waited : 0..MaxWait,
                            sinceTick : Int, perp : Legs, spot : Legs]
      <3>1. Pair(st[c]) /\ st[c].target \in Nat
        BY DEF PairsInv, BufferInv
      <3> QED BY <3>1 DEF Pair
    <2>2. st = [c \in Coins |-> st[c]]
      BY DEF PairsInv
    <2> QED BY <2>1, <2>2 DEF TypeOK, OracleInv, PairsInv, BufferInv
  <1> QED BY <1>1, <1>2, BufferStep, Inductive, PTL DEF Spec
=============================================================================
