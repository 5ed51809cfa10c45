------------------------ MODULE MeanReversionProofs -------------------------
(***************************************************************************)
(* Proofs about MeanReversion, for any history, windows, thresholds and    *)
(* time stop.                                                              *)
(***************************************************************************)
EXTENDS MeanReversion, TLAPS

LEMMA Numbers ==
  /\ History \in Nat \ {0} /\ TimeStop \in Nat
  /\ Sizes \subseteq Nat /\ Scores \subseteq Int
  BY HistoryAssumption, StrategyAssumption

-----------------------------------------------------------------------------
(* The bars.                                                               *)

BarsType == bars \in Seq(Bar) /\ Len(bars) <= History

Ascending(seq) == \A i, j \in 1..Len(seq) : i < j => seq[i].interval < seq[j].interval

(* The bars ascend, and the last but one is not before the one evaluated   *)
(* last.                                                                   *)
BarsInv ==
  /\ BarsType
  /\ Ascending(bars)
  /\ closed \in Nat \cup {-1}
  /\ closed # -1 => Len(bars) >= 2 /\ closed <= bars[LatestClosed].interval

(* An opened bar comes after the others, the first of which may have to go.*)
LEMMA OpenedBars ==
  ASSUME BarsType, NEW interval \in Nat
  PROVE  LET bar == [interval |-> interval, trades |-> 1]
             b   == OpenBar(interval)
         IN /\ b \in Seq(Bar) /\ Len(b) <= History
            /\ \E gone \in {0, 1} :
                 /\ gone = 1 => Len(bars) = History
                 /\ Len(b) = Len(bars) + 1 - gone
                 /\ \A i \in 1..Len(b) :
                      b[i] = IF i = Len(b) THEN bar ELSE bars[i + gone]
  <1> DEFINE bar == [interval |-> interval, trades |-> 1]
             a == Append(bars, bar)
  <1> USE Numbers DEF BarsType
  <1>0. bar \in Bar
    BY DEF Bar
  <1> HIDE DEF bar
  <1>1. /\ a \in Seq(Bar) /\ Len(a) = Len(bars) + 1 /\ Len(bars) \in Nat
        /\ \A i \in 1..Len(a) : a[i] = IF i = Len(a) THEN bar ELSE bars[i]
    BY <1>0
  <1> HIDE DEF a
  <1>2. CASE Len(a) > History
    <2>1. /\ Tail(a) \in Seq(Bar) /\ Len(Tail(a)) = Len(a) - 1
          /\ \A i \in 1..Len(Tail(a)) : Tail(a)[i] = a[i + 1]
      BY <1>1
    <2>2. OpenBar(interval) = Tail(a)
      BY <1>2 DEF OpenBar, Kept, a, bar
    <2>3. \A i \in 1..Len(Tail(a)) :
            Tail(a)[i] = IF i = Len(Tail(a)) THEN bar ELSE bars[i + 1]
      BY <1>1, <2>1
    <2> QED BY <1>1, <1>2, <2>1, <2>2, <2>3 DEF bar
  <1>3. CASE ~(Len(a) > History)
    <2>1. OpenBar(interval) = a
      BY <1>3 DEF OpenBar, Kept, a, bar
    <2> QED BY <1>1, <1>3, <2>1 DEF bar
  <1> QED BY <1>1, <1>2, <1>3

(* What a trade may do to the bars: nothing, one more trade in the newest  *)
(* bar, or a bar later than all others.                                    *)
LEMMA TradeStep ==
  ASSUME BarsInv, NEW interval \in Nat, OnTrade(interval), closed' = closed
  PROVE  BarsInv' /\ \A j \in DOMAIN bars' :
           bars'[j].interval <= closed => \E i \in DOMAIN bars : bars'[j] = bars[i]
  <1> USE Numbers
  <1>a. bars \in Seq(Bar) /\ Len(bars) <= History
    BY DEF BarsInv, BarsType
  <1>b. Len(bars) \in Nat
    BY <1>a
  <1>i. DOMAIN bars = 1..Len(bars)
    BY <1>a
  <1>c. \A i \in 1..Len(bars) : bars[i] \in Bar
    BY <1>a
  <1>d. \A i \in 1..Len(bars) : bars[i].interval \in Nat
    BY <1>c DEF Bar
  <1>e. \A i, j \in 1..Len(bars) : i < j => bars[i].interval < bars[j].interval
    BY DEF BarsInv, Ascending
  <1>f. /\ closed \in Nat \cup {-1}
        /\ closed # -1 => Len(bars) >= 2 /\ closed <= bars[Len(bars) - 1].interval
    BY DEF BarsInv, LatestClosed
  <1>0. /\ Len(bars) \in Nat
        /\ \A i \in 1..Len(bars) : bars[i].interval \in Nat
        /\ \A i, j \in 1..Len(bars) : i < j => bars[i].interval < bars[j].interval
        /\ closed \in Nat \cup {-1}
        /\ closed # -1 => Len(bars) >= 2 /\ closed <= bars[Len(bars) - 1].interval
    BY <1>b, <1>d, <1>e, <1>f
  <1>g. bars = <<>> <=> Len(bars) = 0
    BY <1>a
  <1>h. Newest = bars[Len(bars)]
    BY DEF Newest
  <1>1. CASE bars = <<>> \/ Newest.interval < interval
    <2> DEFINE bar == [interval |-> interval, trades |-> 1]
    <2>1. bars' = OpenBar(interval)
      BY <1>1 DEF OnTrade, Folded
    <2>2. PICK gone \in {0, 1} :
            /\ gone = 1 => Len(bars) = History
            /\ Len(bars') = Len(bars) + 1 - gone
            /\ \A i \in 1..Len(bars') :
                 bars'[i] = IF i = Len(bars') THEN bar ELSE bars[i + gone]
      BY <1>a, <2>1, OpenedBars DEF BarsType
    <2>3. bars' \in Seq(Bar) /\ Len(bars') <= History
      BY <1>a, <2>1, OpenedBars DEF BarsType
    <2>4. bar.interval = interval
      OBVIOUS
    <2> HIDE DEF bar
    <2>5. \A i \in 1..Len(bars) : bars[i].interval < interval
      <3>1. CASE Len(bars) = 0
        BY <3>1
      <3>2. CASE Len(bars) # 0 /\ bars[Len(bars)].interval < interval
        <4> SUFFICES ASSUME NEW i \in 1..Len(bars) PROVE bars[i].interval < interval
          OBVIOUS
        <4>1. i = Len(bars) \/ bars[i].interval < bars[Len(bars)].interval
          <5>1. Len(bars) \in 1..Len(bars) /\ (i < Len(bars) \/ i = Len(bars))
            BY <1>b
          <5> QED BY <1>e, <5>1
        <4>2. bars[i].interval \in Nat /\ bars[Len(bars)].interval \in Nat
          BY <1>b, <1>d, <3>2
        <4> QED BY <3>2, <4>1, <4>2
      <3> QED BY <1>1, <1>g, <1>h, <3>1, <3>2
    <2>6. Ascending(bars)'
      <3> SUFFICES ASSUME NEW i \in 1..Len(bars'), NEW j \in 1..Len(bars'), i < j
                   PROVE  bars'[i].interval < bars'[j].interval
        BY DEF Ascending
      <3>a. Len(bars') = Len(bars) + 1 - gone /\ i # Len(bars')
        BY <2>2
      <3>b. bars'[i] = bars[i + gone]
        BY <2>2, <3>a
      <3>c. i + gone \in 1..Len(bars)
        BY <1>b, <3>a
      <3>1. i # Len(bars') /\ bars'[i] = bars[i + gone] /\ i + gone \in 1..Len(bars)
        BY <3>a, <3>b, <3>c
      <3>2. CASE j = Len(bars')
        BY <2>2, <2>4, <2>5, <3>1, <3>2
      <3>3. CASE j # Len(bars')
        <4>0. bars'[j] = bars[j + gone]
          BY <2>2, <3>3
        <4>a. Len(bars') = Len(bars) + 1 - gone
          BY <2>2
        <4>b. j + gone \in 1..Len(bars)
          BY <1>b, <3>3, <4>a
        <4>1. bars'[j] = bars[j + gone] /\ j + gone \in 1..Len(bars)
          BY <4>0, <4>b
        <4>2. i + gone < j + gone
          BY <1>b, <2>2
        <4> QED BY <1>e, <3>1, <4>1, <4>2
      <3> QED BY <3>2, <3>3
    <2>7. ASSUME closed # -1
          PROVE  Len(bars') >= 2 /\ closed <= bars'[Len(bars') - 1].interval
      <3>1. Len(bars) >= 2 /\ Len(bars') >= 2
        BY <1>b, <1>f, <2>2, <2>7
      <3>2. bars'[Len(bars') - 1] = bars[Len(bars)]
        BY <1>b, <2>2, <3>1
      <3>3. Len(bars) - 1 \in 1..Len(bars) /\ Len(bars) \in 1..Len(bars)
        BY <1>b, <3>1
      <3>4. bars[Len(bars) - 1].interval < bars[Len(bars)].interval
        BY <1>b, <1>e, <3>3
      <3> QED BY <1>d, <1>f, <2>7, <3>1, <3>2, <3>3, <3>4
    <2>8. ASSUME NEW j \in DOMAIN bars', bars'[j].interval <= closed
          PROVE  \E i \in DOMAIN bars : bars'[j] = bars[i]
      <3>1. j \in 1..Len(bars')
        BY <2>3
      <3>2. closed < interval
        <4>1. CASE closed = -1
          BY <4>1
        <4>2. CASE closed # -1
          BY <1>0, <2>5, <4>2
        <4> QED BY <4>1, <4>2
      <3>3. ASSUME j = Len(bars') PROVE FALSE
        <4>1. bars'[j].interval = interval
          BY <2>2, <2>4, <3>1, <3>3
        <4> QED BY <1>f, <2>8, <3>2, <4>1
      <3>4. bars'[j] = bars[j + gone] /\ j + gone \in 1..Len(bars)
        BY <1>0, <2>2, <3>1, <3>3
      <3> QED BY <1>i, <3>4
    <2>9. BarsInv'
      BY <1>0, <2>3, <2>6, <2>7 DEF BarsInv, BarsType, LatestClosed
    <2> QED BY <2>8, <2>9
  <1>2. CASE bars # <<>> /\ Newest.interval = interval
    <2>a. Len(bars) # 0
      BY <1>g, <1>2
    <2>0. Len(bars) \in 1..Len(bars)
      BY <1>b, <2>a
    <2> DEFINE bar == [bars[Len(bars)] EXCEPT !.trades = @ + 1]
    <2>1. bars' = [bars EXCEPT ![Len(bars)] = bar]
      BY <1>2, <1>h DEF OnTrade, Folded
    <2>2. bar \in Bar /\ bar.interval = bars[Len(bars)].interval
      BY <1>c, <2>0 DEF Bar
    <2> HIDE DEF bar
    <2>3. /\ bars' \in Seq(Bar) /\ Len(bars') = Len(bars)
          /\ \A i \in 1..Len(bars) : bars'[i] = IF i = Len(bars) THEN bar ELSE bars[i]
      BY <1>a, <2>0, <2>1, <2>2
    <2>4. \A i \in 1..Len(bars) : bars'[i].interval = bars[i].interval
      BY <2>2, <2>3
    <2>5. closed < bars[Len(bars)].interval
      <3>1. CASE closed = -1
        BY <1>0, <2>0, <3>1
      <3>2. CASE closed # -1
        BY <1>0, <2>0, <3>2
      <3> QED BY <3>1, <3>2
    <2>6. BarsInv'
      <3>1. Ascending(bars)' /\ BarsType'
        BY <1>0, <1>a, <2>3, <2>4 DEF Ascending, BarsType
      <3>2. closed' # -1 => Len(bars') >= 2 /\ closed' <= bars'[Len(bars') - 1].interval
        BY <1>0, <2>3, <2>4
      <3> QED BY <1>0, <3>1, <3>2 DEF BarsInv, LatestClosed
    <2>7. ASSUME NEW j \in DOMAIN bars', bars'[j].interval <= closed
          PROVE  \E i \in DOMAIN bars : bars'[j] = bars[i]
      <3>1. j \in 1..Len(bars)
        BY <2>3
      <3>2. j # Len(bars)
        BY <1>0, <2>0, <2>4, <2>5, <2>7
      <3> QED BY <1>i, <2>3, <3>1, <3>2
    <2> QED BY <2>6, <2>7
  <1>3. CASE ~(bars = <<>> \/ Newest.interval < interval) /\ Newest.interval # interval
    <2>1. bars' = bars
      BY <1>3 DEF OnTrade, Folded
    <2> QED BY <2>1 DEF BarsInv, BarsType, LatestClosed
  <1> QED BY <1>1, <1>2, <1>3

(* A fresh evaluation is of a later bar than the last one.                 *)
LEMMA EvaluateStep ==
  ASSUME BarsInv, Evaluate
  PROVE  BarsInv' /\ closed' > closed /\ bars' = bars
  <1>1. /\ bars' = bars /\ closed' = bars[Len(bars) - 1].interval
        /\ Len(bars) - 1 \in DOMAIN bars /\ bars[Len(bars) - 1].interval # closed
    BY DEF Evaluate, Unhandled, LatestClosed
  <1>2. bars \in Seq(Bar) /\ BarsType /\ Ascending(bars)
    BY DEF BarsInv, BarsType
  <1>3. Len(bars) \in Nat /\ Len(bars) - 1 \in 1..Len(bars)
    BY <1>1, <1>2
  <1>4. bars[Len(bars) - 1].interval \in Nat
    <2>1. bars[Len(bars) - 1] \in Bar
      BY <1>2, <1>3
    <2> QED BY <2>1 DEF Bar
  <1>5. /\ closed \in Nat \cup {-1}
        /\ closed # -1 => closed <= bars[Len(bars) - 1].interval
    BY DEF BarsInv, LatestClosed
  <1>6. closed' > closed /\ closed' \in Nat
    BY <1>1, <1>4, <1>5
  <1>7. BarsType' /\ Ascending(bars)'
    BY <1>1, <1>2 DEF BarsType, Ascending
  <1>8. Len(bars') >= 2 /\ closed' <= bars'[Len(bars') - 1].interval
    BY <1>1, <1>3, <1>4
  <1> QED BY <1>1, <1>6, <1>7, <1>8 DEF BarsInv, LatestClosed

(* Whatever happens, the bars stay as BarsInv says, and those up to the    *)
(* last evaluated one stay as they are.                                    *)
LEMMA BarsStep ==
  BarsInv /\ [Next]_vars =>
    /\ BarsInv'
    /\ \A j \in DOMAIN bars' :
         bars'[j].interval <= closed => \E i \in DOMAIN bars : bars'[j] = bars[i]
  <1> SUFFICES ASSUME BarsInv, [Next]_vars
               PROVE  /\ BarsInv'
                      /\ \A j \in DOMAIN bars' :
                           bars'[j].interval <= closed =>
                             \E i \in DOMAIN bars : bars'[j] = bars[i]
    OBVIOUS
  <1>1. CASE Evaluate
    BY <1>1, EvaluateStep
  <1>2. ASSUME NEW interval \in 0..LastInterval, Trade(interval) PROVE
          /\ BarsInv'
          /\ \A j \in DOMAIN bars' :
               bars'[j].interval <= closed => \E i \in DOMAIN bars : bars'[j] = bars[i]
    <2>1. interval \in Nat /\ OnTrade(interval) /\ closed' = closed
      BY <1>2, StrategyAssumption DEF Trade
    <2> QED BY <2>1, TradeStep
  <1>3. CASE bars' = bars /\ closed' = closed
    BY <1>3 DEF BarsInv, BarsType, Ascending, LatestClosed
  <1> QED BY <1>1, <1>2, <1>3
          DEF Next, Read, EvaluationFails, Dropped, Submit, Fill, OrderEnds,
              RecStart, RecWrites, RecFails, Resume, vars

LEMMA BarsInit == Init => BarsInv
  <1> SUFFICES ASSUME Init PROVE BarsInv
    OBVIOUS
  <1>1. bars = <<>> /\ closed = -1
    BY DEF Init
  <1>2. bars \in Seq(Bar) /\ Len(bars) = 0
    BY <1>1
  <1> QED BY <1>1, <1>2, Numbers DEF BarsInv, BarsType, Ascending

-----------------------------------------------------------------------------
(* Types.                                                                  *)

(* TypeOK but for the bars.                                                *)
AccountType ==
  /\ counting \in BOOLEAN /\ held \in 0..MaxHeld
  /\ tracked \in Int /\ pos \in Int
  /\ orders \in [Slots -> Order]
  /\ at \in [Tasks -> {"idle", "read", "write"}]
  /\ seen \in [Tasks -> Int]
  /\ target \in Int
  /\ halted \in BOOLEAN
  /\ saw \in 0..MaxSaw

LEMMA AccountInit == Init => AccountType
  <1> SUFFICES ASSUME Init PROVE AccountType
    OBVIOUS
  <1>0. pos \in {0} \cup Sizes \cup {-n : n \in Sizes} /\ tracked = pos
    BY DEF Init
  <1>1. pos \in Int /\ tracked \in Int
    BY <1>0, Numbers
  <1>2. NoOrder \in Order
    BY DEF NoOrder, Order
  <1>3. /\ at \in [Tasks -> {"idle", "read", "write"}] /\ seen \in [Tasks -> Int]
        /\ orders \in [Slots -> Order]
    BY <1>2 DEF Init
  <1>5. /\ counting \in BOOLEAN /\ halted \in BOOLEAN
        /\ held = 0 /\ saw = 0 /\ target = 0
    BY DEF Init
  <1>4. 0 \in 0..MaxHeld /\ 0 \in 0..MaxSaw /\ 0 \in Int
    BY Numbers DEF MaxHeld, MaxSaw
  <1> QED BY <1>1, <1>3, <1>4, <1>5 DEF AccountType

LEMMA RefreshedType ==
  ASSUME AccountType, NEW task \in Tasks, Refreshed(task)
  PROVE  at' \in [Tasks -> {"idle", "read", "write"}] /\ seen' \in [Tasks -> Int]
  BY DEF AccountType, Refreshed

LEMMA WriteType ==
  ASSUME AccountType, NEW task \in Tasks, Write(task)
  PROVE  /\ at' \in [Tasks -> {"idle", "read", "write"}] /\ seen' \in [Tasks -> Int]
         /\ tracked' \in Int
  <1>1. Refreshed(task) /\ tracked' = seen[task]
    BY DEF Write
  <1> QED BY <1>1, RefreshedType DEF AccountType

LEMMA BarWritesType ==
  ASSUME AccountType, BarWrites
  PROVE  /\ at' \in [Tasks -> {"idle", "read", "write"}] /\ seen' \in [Tasks -> Int]
         /\ tracked' \in Int /\ saw' \in 0..MaxSaw /\ target' = 0
  <1>1. Write("bar") /\ target' = 0
        /\ saw' = IF tracked' = 0 THEN 0 ELSE Smaller(saw + 1, MaxSaw)
    BY DEF BarWrites
  <1>2. saw' \in 0..MaxSaw
    BY <1>1, Numbers DEF AccountType, Smaller, MaxSaw
  <1> QED BY <1>1, <1>2, WriteType DEF Tasks

LEMMA AccountStep == AccountType /\ [Next]_vars => AccountType'
  <1> SUFFICES ASSUME AccountType, [Next]_vars PROVE AccountType'
    OBVIOUS
  <1> USE Numbers DEF MaxHeld, MaxSaw, exchange, counter, refreshing
  <1>1. CASE Evaluate
    <2>1. held' \in 0..MaxHeld /\ counting' \in BOOLEAN
      BY <1>1 DEF Evaluate, AccountType, HeldNow, Smaller
    <2>2. ASSUME NEW z \in Scores, NEW rsi, NEW size \in Sizes
          PROVE  Wanted(tracked, held', z, rsi, size) \in Int
      BY DEF AccountType, Wanted, Signal
    <2>3. target' \in Int
      BY <1>1, <2>2 DEF Evaluate, Verdicts
    <2>4. at' \in [Tasks -> {"idle", "read", "write"}]
      BY <1>1 DEF Evaluate, AccountType
    <2> QED BY <1>1, <2>1, <2>3, <2>4 DEF Evaluate, AccountType
  <1>2. CASE EvaluationFails
    <2>1. Refreshed("bar") /\ "bar" \in Tasks
      BY <1>2 DEF EvaluationFails, Tasks
    <2> QED BY <1>2, <2>1, RefreshedType DEF EvaluationFails, AccountType
  <1>3. CASE Dropped
    BY <1>3, BarWritesType DEF Dropped, AccountType
  <1>8. CASE RecStart
    <2>1. at' \in [Tasks -> {"idle", "read", "write"}]
      BY <1>8 DEF RecStart, AccountType
    <2> QED BY <1>8, <2>1 DEF RecStart, AccountType
  <1>9. CASE RecWrites
    <2>1. Write("rec") /\ "rec" \in Tasks /\ halted' \in BOOLEAN
      BY <1>9 DEF RecWrites, AccountType, Tasks
    <2>2. saw' \in 0..MaxSaw
      BY <1>9 DEF RecWrites, AccountType
    <2> QED BY <1>9, <2>1, <2>2, WriteType DEF RecWrites, AccountType
  <1>a. CASE RecFails
    <2>1. Refreshed("rec") /\ "rec" \in Tasks
      BY <1>a DEF RecFails, Tasks
    <2> QED BY <1>a, <2>1, RefreshedType DEF RecFails, AccountType
  <1>b. ASSUME NEW task \in Tasks, Read(task) PROVE AccountType'
    <2>1. at' \in [Tasks -> {"idle", "read", "write"}] /\ seen' \in [Tasks -> Int]
      BY <1>b DEF Read, AccountType
    <2> QED BY <1>b, <2>1 DEF Read, AccountType
  <1>c. CASE Resume
    BY <1>c DEF Resume, AccountType
  <1>4. ASSUME NEW k \in Slots, Submit(k) PROVE AccountType'
    <2>1. /\ at' \in [Tasks -> {"idle", "read", "write"}] /\ seen' \in [Tasks -> Int]
          /\ tracked' \in Int /\ saw' \in 0..MaxSaw /\ target' = 0
      BY <1>4, BarWritesType DEF Submit
    <2>2. [size |-> target - tracked', reduceOnly |-> ReduceOnly(tracked')] \in Order
      BY <2>1 DEF AccountType, Order, ReduceOnly
    <2>3. orders' \in [Slots -> Order]
      BY <1>4, <2>2 DEF Submit, AccountType
    <2> QED BY <1>4, <2>1, <2>3 DEF Submit, AccountType
  <1>5. ASSUME NEW k \in Slots, Fill(k) PROVE AccountType'
    <2> DEFINE order == orders[k]
               unit  == Sign(order.size)
               rest  == IF order.size = unit THEN NoOrder ELSE [order EXCEPT !.size = @ - unit]
    <2>1. order \in Order /\ order.size \in Int /\ unit \in Int
      BY DEF AccountType, Order, Sign
    <2>2. rest \in Order
      BY <2>1 DEF NoOrder, Order
    <2>3. orders' = [orders EXCEPT ![k] = rest]
      BY <1>5 DEF Fill
    <2>a. pos' = pos + unit
      BY <1>5 DEF Fill
    <2> HIDE DEF order, unit, rest
    <2>4. orders' \in [Slots -> Order] /\ pos' \in Int
      BY <2>1, <2>2, <2>3, <2>a DEF AccountType
    <2> QED BY <1>5, <2>4 DEF Fill, AccountType
  <1>6. ASSUME NEW k \in Slots, OrderEnds(k) PROVE AccountType'
    <2>1. NoOrder \in Order
      BY DEF NoOrder, Order
    <2> QED BY <1>6, <2>1 DEF OrderEnds, AccountType
  <1>7. CASE UNCHANGED <<counter, tracked, exchange, refreshing, target, halted, saw>>
    BY <1>7 DEF AccountType
  <1> QED BY <1>1, <1>2, <1>3, <1>4, <1>5, <1>6, <1>7, <1>8, <1>9,
             <1>a, <1>b, <1>c DEF Next, Trade, vars

-----------------------------------------------------------------------------
(* The count of bars.                                                      *)

(* The count lags two bars behind the refreshes while the task idles, and  *)
(* one once it has evaluated: the first evaluation after the first of them *)
(* only starts the count.                                                  *)
HeldInv ==
  saw >= 1 =>
    /\ tracked # 0
    /\ at["bar"] = "idle" /\ saw >= 2 => counting /\ held >= saw - 2
    /\ at["bar"] # "idle" => counting /\ held >= saw - 1

LEMMA HeldStep == AccountType /\ HeldInv /\ [Next]_vars => HeldInv'
  <1> SUFFICES ASSUME AccountType, HeldInv, [Next]_vars PROVE HeldInv'
    OBVIOUS
  <1> USE Numbers DEF exchange, counter, refreshing
  <1>t. saw \in 0..(TimeStop + 2) /\ held \in 0..(TimeStop + 1)
    BY DEF AccountType, MaxHeld, MaxSaw
  <1>u. at \in [Tasks -> {"idle", "read", "write"}] /\ "bar" \in Tasks
    BY DEF AccountType, Tasks
  <1>1. CASE Evaluate
    <2>1. /\ at["bar"] = "idle" /\ tracked' = tracked /\ saw' = saw
          /\ counting' = (tracked # 0)
          /\ held' = IF tracked # 0 /\ counting THEN Smaller(held + 1, TimeStop + 1) ELSE 0
      BY <1>1 DEF Evaluate, HeldNow, MaxHeld
    <2>a. at'["bar"] # "idle"
      BY <1>1, <1>u DEF Evaluate
    <2>2. saw >= 1 => tracked # 0
      BY DEF HeldInv
    <2>3. saw >= 2 => counting /\ held >= saw - 2
      BY <2>1, <1>t DEF HeldInv
    <2>4. saw >= 1 => held' >= saw - 1
      <3>1. CASE saw >= 2
        BY <1>t, <2>1, <2>2, <2>3, <3>1 DEF Smaller
      <3>2. CASE saw = 1
        BY <1>t, <2>1, <3>2 DEF Smaller
      <3> QED BY <1>t, <3>1, <3>2
    <2> QED BY <2>1, <2>a, <2>2, <2>4 DEF HeldInv
  <1>2. CASE EvaluationFails
    <2>1. /\ at["bar"] # "idle" /\ tracked' = tracked /\ saw' = saw
          /\ counting' = counting /\ held' = held
      BY <1>2 DEF EvaluationFails
    <2>2. at'["bar"] = "idle"
      BY <1>2, <1>u DEF EvaluationFails, Refreshed
    <2> QED BY <1>t, <2>1, <2>2 DEF HeldInv
  <1>3. CASE BarWrites /\ UNCHANGED counter
    <2>1. /\ at["bar"] = "write" /\ counting' = counting /\ held' = held
          /\ saw' = IF tracked' = 0 THEN 0 ELSE Smaller(saw + 1, TimeStop + 2)
      BY <1>3 DEF BarWrites, Write, MaxSaw
    <2>a. at'["bar"] = "idle"
      BY <1>3, <1>u DEF BarWrites, Write, Refreshed
    <2>2. saw >= 1 => counting /\ held >= saw - 1
      BY <2>1 DEF HeldInv
    <2>3. saw' >= 2 => saw >= 1 /\ saw' <= saw + 1
      BY <1>t, <2>1 DEF Smaller
    <2>4. saw' >= 1 => tracked' # 0
      BY <2>1
    <2>5. saw' >= 2 => counting' /\ held' >= saw' - 2
      BY <1>t, <2>1, <2>2, <2>3 DEF Smaller
    <2> QED BY <2>a, <2>4, <2>5 DEF HeldInv
  <1>4. CASE RecWrites
    <2>1. at'["bar"] = at["bar"]
      BY <1>4, <1>u DEF RecWrites, Write, Refreshed
    <2>2. /\ saw' = IF tracked' = 0 THEN 0 ELSE saw
          /\ counting' = counting /\ held' = held
      BY <1>4 DEF RecWrites
    <2> QED BY <2>1, <2>2 DEF HeldInv
  <1>5. CASE UNCHANGED <<counter, tracked, saw>> /\ at'["bar"] = at["bar"]
    BY <1>5 DEF HeldInv
  <1>6. CASE Read("bar")
    <2>1. /\ at["bar"] # "idle" /\ at'["bar"] # "idle"
          /\ UNCHANGED <<counter, tracked, saw>>
      BY <1>6, <1>u DEF Read
    <2> QED BY <2>1 DEF HeldInv
  <1>7. CASE Read("rec") \/ RecStart \/ RecFails
    BY <1>5, <1>7, <1>u DEF Read, RecStart, RecFails, Refreshed
  <1>8. ASSUME NEW task \in Tasks, Read(task) PROVE HeldInv'
    BY <1>6, <1>7, <1>8 DEF Tasks
  <1>9. ASSUME NEW k \in Slots, Fill(k) PROVE HeldInv'
    BY <1>5, <1>9 DEF Fill
  <1> QED BY <1>1, <1>2, <1>3, <1>4, <1>5, <1>7, <1>8, <1>9
          DEF Next, Trade, Dropped, Submit, OrderEnds, Resume, vars

LEMMA HeldInit == Init => HeldInv
  BY DEF Init, HeldInv

-----------------------------------------------------------------------------
(* Theorems.                                                               *)

LEMMA Invariants == Spec => [](BarsInv /\ AccountType /\ HeldInv)
  <1>1. Init => BarsInv /\ AccountType /\ HeldInv
    BY BarsInit, AccountInit, HeldInit
  <1>2. BarsInv /\ AccountType /\ HeldInv /\ [Next]_vars
          => (BarsInv /\ AccountType /\ HeldInv)'
    BY BarsStep, AccountStep, HeldStep
  <1> QED BY <1>1, <1>2, PTL DEF Spec

(* The bars stay a bounded sequence, and every other variable in its type. *)
THEOREM TypeCorrect == Spec => []TypeOK
  <1>1. BarsInv /\ AccountType => TypeOK
    BY DEF BarsInv, BarsType, AccountType, TypeOK
  <1> QED BY <1>1, Invariants, PTL

(* Every bar is evaluated at most once and in order.                       *)
THEOREM EachBar == Spec => EachBarOnce
  <1>1. BarsInv /\ [Next]_vars => [Evaluate => closed' > closed]_vars
    BY EvaluateStep
  <1> QED BY <1>1, Invariants, PTL DEF Spec, EachBarOnce

(* What the strategy has evaluated does not change afterwards.             *)
THEOREM Final == Spec => EvaluatedBarsFinal
  <1>1. BarsInv /\ [Next]_vars =>
          [\A j \in DOMAIN bars' :
             bars'[j].interval <= closed => \E i \in DOMAIN bars : bars'[j] = bars[i]]_vars
    BY BarsStep
  <1> QED BY <1>1, Invariants, PTL DEF Spec, EvaluatedBarsFinal

(* A position seen for longer than the time stop is asked flat.            *)
THEOREM TimeStops == Spec => TimeStopAsksFlat
  <1>1. AccountType /\ HeldInv /\ [Next]_vars =>
          [Evaluate /\ saw >= TimeStop + 2 => target' = 0]_vars
    <2> SUFFICES ASSUME AccountType, HeldInv, Evaluate, saw >= TimeStop + 2
                 PROVE  target' = 0
      OBVIOUS
    <2>1. saw >= 2 /\ TimeStop \in Nat /\ held \in 0..(TimeStop + 1)
      BY Numbers DEF AccountType, MaxHeld, MaxSaw
    <2>2. tracked # 0 /\ counting /\ held >= TimeStop
      BY <2>1, Numbers DEF HeldInv, Evaluate, AccountType, MaxSaw
    <2>3. held' > TimeStop
      BY <2>1, <2>2 DEF Evaluate, HeldNow, MaxHeld, Smaller
    <2>4. \A z, rsi, size : Wanted(tracked, held', z, rsi, size) = 0
      BY <2>2, <2>3 DEF Wanted, Exits
    <2> QED BY <2>4 DEF Evaluate, Verdicts
  <1> QED BY <1>1, Invariants, PTL DEF Spec, TimeStopAsksFlat
=============================================================================
