------------------------- MODULE RiskManagerProofs --------------------------
(***************************************************************************)
(* Proofs about RiskManager: the rate limit, the caps on the account, and  *)
(* that a position can be closed, whatever the caps, prices and targets.   *)
(***************************************************************************)
EXTENDS RiskManager, SumLemmas

Order ==
  [symbol : Symbols, size : Int, price : Prices, reduceOnly : BOOLEAN]

TypeInv ==
  /\ pos \in [Symbols -> Int]
  /\ mark \in [Symbols -> Prices]
  /\ near \subseteq Symbols
  /\ equity \in Int
  /\ orders \in [Slots -> Order \cup {NoOrder}]
  /\ recent \in [Ages -> Nat]
  /\ accepted \in [Ages -> Nat]
  /\ moved \in BOOLEAN /\ doubled \in BOOLEAN

(* The router's count is the count of what the exchange took.              *)
RateInv == recent = accepted /\ Within(recent) <= MaxPerMinute

Worth(sizes, prices) == SumFunctionOnSet([s \in Symbols |-> Abs(sizes[s]) * prices[s]], Symbols)

(* The symbols with an order, and those with an order or a position.       *)
Ordered == {orders[k].symbol : k \in Resting}
Coins == Held \cup Ordered

CoinsInv ==
  Coins # {} =>
    MaxOpenOrders > 0 /\ Cardinality(Coins) <= MaxPositions + MaxOpenOrders - 1

(* Sizes that no position exceeds, now or when its order has filled, each  *)
(* within the cap and together within the leverage the account can reach.  *)
Ceiling(size) ==
  /\ \A s \in Symbols : Abs(pos[s]) <= size[s] /\ size[s] * mark[s] <= Share
  /\ \A k \in Resting :
       Abs(pos[orders[k].symbol] + orders[k].size) <= size[orders[k].symbol]
  /\ MaxOpenOrders > 0 =>
       Worth(size, mark) <= MaxLeverage * equity + (MaxOpenOrders - 1) * Share

(* An order rests at the price, and alone in its symbol.                   *)
Settled ==
  /\ equity = StartEquity
  /\ \A k \in Resting : orders[k].price = mark[orders[k].symbol] /\ orders[k].size # 0
  /\ \A j, k \in Resting : orders[j].symbol = orders[k].symbol => j = k

ExposureInv ==
  ~moved /\ ~doubled => Settled /\ \E size \in [Symbols -> Nat] : Ceiling(size)

RiskInv == TypeInv /\ RateInv /\ CoinsInv /\ ExposureInv

-----------------------------------------------------------------------------
(* The constants, one by one.                                              *)
LEMMA Caps ==
  /\ Window \in Nat /\ RiskBp \in Nat /\ NotionalPct \in Nat /\ MaxLeverage \in Nat
  /\ MaxPositions \in Nat /\ MaxOpenOrders \in Nat /\ MaxPerMinute \in Nat
  /\ StartEquity \in Nat \ {0}
  /\ IsFiniteSet(Symbols) /\ IsFiniteSet(Slots)
  /\ Prices \subseteq Nat \ {0} /\ Targets \subseteq Int /\ Equities \subseteq Int
  BY CapsAssumption

(* The ages are finitely many.                                             *)
LEMMA AgesFinite == IsFiniteSet(Ages)
  <1>1. 0 \in Int /\ Window \in Int
    BY Caps
  <1> QED BY <1>1, FS_Interval DEF Ages

(* Sizes are integers and prices positive.                                 *)
LEMMA SizesAndPrices ==
  ASSUME TypeInv, NEW s \in Symbols
  PROVE  pos[s] \in Int /\ mark[s] \in Nat \ {0} /\ mark[s] \in Int /\ mark[s] \in Prices
  <1>1. pos[s] \in Int /\ mark[s] \in Prices
    BY DEF TypeInv
  <1>2. mark[s] \in Nat \ {0}
    BY <1>1, Caps
  <1> QED BY <1>1, <1>2

-----------------------------------------------------------------------------
(* check_order: what an approval says.                                     *)

(* Magnitudes.                                                             *)
LEMMA AbsNat ==
  ASSUME NEW n \in Int
  PROVE  Abs(n) \in Nat /\ (Abs(n) = 0 <=> n = 0)
  BY DEF Abs

(* Ten codes, none of which is the approval.                               *)
LEMMA CodesAre ==
  /\ Len(Codes) = 10
  /\ \A i \in 1..10 : Codes[i] # "approved"
  /\ Codes[4] = "rate_limit" /\ Codes[5] = "max_open_orders"
  /\ Codes[6] = "max_risk_per_trade" /\ Codes[7] = "max_position_notional"
  /\ Codes[8] = "max_concurrent_positions" /\ Codes[9] = "max_leverage"
  /\ Codes[10] = "liquidation_buffer"
  <1>1. Len(Codes) = 10
    BY DEF Codes
  <1>2. \A i \in 1..10 : \/ i = 1 \/ i = 2 \/ i = 3 \/ i = 4 \/ i = 5
                         \/ i = 6 \/ i = 7 \/ i = 8 \/ i = 9 \/ i = 10
    OBVIOUS
  <1>3. \A i \in 1..10 : Codes[i] # "approved"
    BY <1>2 DEF Codes
  <1> QED BY <1>1, <1>3 DEF Codes

(* A cap that names the rejection is broken, and an approval breaks none.  *)
LEMMA CheckOrderNames ==
  ASSUME NEW intent, NEW account
  PROVE  /\ CheckOrder(intent, account) # "approved" =>
              Broken(CheckOrder(intent, account), intent, account)
         /\ CheckOrder(intent, account) = "approved" =>
              \A i \in 1..10 : ~ Broken(Codes[i], intent, account)
  <1> DEFINE broken == {i \in 1..Len(Codes) : Broken(Codes[i], intent, account)}
  <1>1. CASE broken = {}
    <2>1. CheckOrder(intent, account) = "approved"
      BY <1>1 DEF CheckOrder
    <2> QED BY <1>1, <2>1, CodesAre
  <1>2. CASE broken # {}
    <2>1. broken \subseteq Nat
      BY CodesAre
    <2>2. Min(broken) \in broken
      <3> HIDE DEF broken
      <3>1. \E n \in broken : \A m \in broken : n <= m
        BY <1>2, <2>1, LeastNat
      <3> QED BY <3>1 DEF Min
    <2>3. CheckOrder(intent, account) = Codes[Min(broken)]
      BY <1>2 DEF CheckOrder
    <2>4. /\ Codes[Min(broken)] # "approved"
          /\ Broken(Codes[Min(broken)], intent, account)
      BY <2>2, CodesAre
    <2> QED BY <2>3, <2>4
  <1> QED BY <1>1, <1>2

(* The position an intent leads to is the target it was made from: neither *)
(* a shrinking nor a flipping order is cut.                                *)
LEMMA PostFillIsTarget ==
  ASSUME TypeInv, NEW s \in Symbols, NEW target \in Int
  PROVE  PostFill(Intent(s, target), pos[s]) = target
  <1> DEFINE cur == pos[s]
  <1>1. cur \in Int
    BY DEF TypeInv
  <1>2. Intent(s, target).size = target - cur
    BY DEF Intent
  <1>3. Intent(s, target).reduceOnly = ReduceOnly(cur, target)
    BY DEF Intent
  <1>4. cur + (target - cur) = target
    BY <1>1
  <1>5. CASE ~ ReduceOnly(cur, target)
    BY <1>2, <1>3, <1>4, <1>5 DEF PostFill
  <1>6. CASE ReduceOnly(cur, target)
    <2>1. cur # 0 /\ Abs(target) < Abs(cur) /\ target * cur >= 0
      BY <1>6 DEF ReduceOnly
    <2>2. target * cur \in Int /\ Abs(target) \in Int /\ Abs(cur) \in Int
      BY <1>1, AbsNat
    <2>3. target * cur <= 0 => target = 0
      <3>1. target * cur = 0 => target = 0 \/ cur = 0
        BY <1>1
      <3> QED BY <2>1, <2>2, <3>1
    <2>4. ~ (Abs(target) > Abs(cur))
      BY <2>1, <2>2
    <2> QED BY <1>2, <1>3, <1>4, <1>6, <2>3, <2>4 DEF PostFill
  <1> QED BY <1>5, <1>6

(* What the account holds once an intent filled.                           *)
Reached(s, target) == [pos EXCEPT ![s] = target]

(* An approved order leaves room under the rate and the number of resting  *)
(* orders, and the account it leads to is within the caps.                 *)
LEMMA ApprovedMeans ==
  ASSUME TypeInv, NEW s \in Symbols, NEW target \in Targets, Approved(s, target)
  PROVE  /\ Within(recent) < MaxPerMinute
         /\ Cardinality(Resting) < MaxOpenOrders
         /\ 100 * Abs(target) * mark[s] <= NotionalPct * Account.equity
         /\ Cardinality({x \in Symbols : Reached(s, target)[x] # 0}) <= MaxPositions
         /\ Worth(Reached(s, target), mark) <= MaxLeverage * Account.equity
  <1> DEFINE intent == Intent(s, target)
             account == Account
             R == Reached(s, target)
  <1>1. target \in Int /\ s \in Symbols
    BY Caps
  <1>2. /\ intent.symbol = s /\ intent.price = mark[s]
        /\ account.pos = pos /\ account.mark = mark
        /\ account.recent = Within(recent)
        /\ account.openOrders = Cardinality(Resting)
    BY DEF Intent, Account
  <1>3. PostFill(intent, account.pos[s]) = target
    BY <1>1, <1>2, PostFillIsTarget
  <1>4. /\ account.equity \in Int
        /\ Within(recent) \in Int /\ Cardinality(Resting) \in Int
        /\ MaxPerMinute \in Int /\ MaxOpenOrders \in Int /\ MaxPositions \in Int
        /\ MaxLeverage \in Int /\ NotionalPct \in Int
    <2>1. account.equity \in Int
      BY DEF Account, TypeInv
    <2>2. Within(recent) \in Int
      <3>1. IsFiniteSet(Ages) /\ \A a \in Ages : recent[a] \in Int
        BY AgesFinite DEF TypeInv
      <3> QED BY <3>1, SumInt DEF Within
    <2>3. Cardinality(Resting) \in Int
      <3>1. IsFiniteSet(Resting)
        BY Caps, FS_Subset DEF Resting
      <3> QED BY <3>1, FS_CardinalityType
    <2> QED BY <2>1, <2>2, <2>3, Caps
  <1>5. mark[s] \in Int /\ Abs(target) \in Int
    BY <1>1, AbsNat, SizesAndPrices
  <1>6. R \in [Symbols -> Int] /\ \A x \in Symbols : R[x] = IF x = s THEN target ELSE pos[x]
    BY <1>1 DEF Reached, TypeInv
  <1>7. \A i \in 1..10 : ~ Broken(Codes[i], intent, account)
    BY CheckOrderNames DEF Approved
  <1>8. /\ ~ Broken("rate_limit", intent, account)
        /\ ~ Broken("max_open_orders", intent, account)
        /\ ~ Broken("max_position_notional", intent, account)
        /\ ~ Broken("max_concurrent_positions", intent, account)
        /\ ~ Broken("max_leverage", intent, account)
    BY <1>7, CodesAre
  <1> HIDE DEF intent, account
  <1>9. Within(recent) < MaxPerMinute
    <2>1. ~ (account.recent >= MaxPerMinute)
      BY <1>8 DEF Broken
    <2> QED BY <2>1, <1>2, <1>4
  <1>10. Cardinality(Resting) < MaxOpenOrders
    <2>1. ~ (account.openOrders >= MaxOpenOrders)
      BY <1>8 DEF Broken
    <2> QED BY <2>1, <1>2, <1>4
  <1>11. 100 * Abs(target) * mark[s] <= NotionalPct * account.equity
    <2>1. ~ TooLarge(intent, account)
      BY <1>8 DEF Broken
    <2>2. ~ (100 * Abs(target) * mark[s] > NotionalPct * account.equity)
      BY <2>1, <1>2, <1>3 DEF TooLarge
    <2> DEFINE l == 100 * Abs(target) * mark[s]
               m == NotionalPct * account.equity
    <2>3. l \in Int /\ m \in Int
      BY <1>4, <1>5
    <2> HIDE DEF l, m
    <2>4. ~ (l > m)
      BY <2>2 DEF l, m
    <2>5. l <= m
      BY <2>3, <2>4
    <2> QED BY <2>5 DEF l, m
  <1>12. Cardinality({x \in Symbols : R[x] # 0}) <= MaxPositions
    <2>1. ~ (Cardinality(PostFillPositions(intent, account)) > MaxPositions)
      BY <1>8 DEF Broken
    <2>2. PostFillPositions(intent, account) = {x \in Symbols : R[x] # 0}
      <3> HIDE DEF R
      <3> QED BY <1>1, <1>2, <1>3, <1>6 DEF PostFillPositions
    <2>3. Cardinality({x \in Symbols : R[x] # 0}) \in Int
      <3>1. IsFiniteSet({x \in Symbols : R[x] # 0})
        BY Caps, FS_Subset
      <3> QED BY <3>1, FS_CardinalityType
    <2> QED BY <1>4, <2>1, <2>2, <2>3
  <1>13. Worth(R, mark) <= MaxLeverage * account.equity
    <2>1. ~ (PostFillNotional(intent, account) > MaxLeverage * account.equity)
      BY <1>8 DEF Broken
    <2> DEFINE f == [x \in Symbols |-> Abs(R[x]) * mark[x]]
    <2>2. PostFillNotional(intent, account) = Worth(R, mark)
      <3>1. f = [x \in Symbols |->
                   IF x = intent.symbol
                   THEN Abs(PostFill(intent, account.pos[x])) * intent.price
                   ELSE Abs(account.pos[x]) * account.mark[x]]
        <4> HIDE DEF R
        <4> QED BY <1>2, <1>3, <1>6
      <3> HIDE DEF R
      <3> QED BY <3>1 DEF PostFillNotional, Worth
    <2>3. Worth(R, mark) \in Int
      <3>1. \A x \in Symbols : f[x] \in Int
        <4> TAKE x \in Symbols
        <4>1. Abs(R[x]) \in Int /\ mark[x] \in Int
          <5> HIDE DEF R
          <5>1. R[x] \in Int
            BY <1>6
          <5> QED BY <5>1, AbsNat, SizesAndPrices
        <4> HIDE DEF R
        <4> QED BY <4>1
      <3> HIDE DEF R
      <3>2. SumFunctionOnSet(f, Symbols) \in Int
        <4> HIDE DEF f
        <4> QED BY <3>1, Caps, SumInt
      <3> QED BY <3>2 DEF Worth
    <2>4. MaxLeverage * account.equity \in Int
      BY <1>4
    <2> HIDE DEF R
    <2> QED BY <2>1, <2>2, <2>3, <2>4
  <1> QED BY <1>9, <1>10, <1>11, <1>12, <1>13 DEF account

-----------------------------------------------------------------------------
(* A position can be closed.                                               *)

(* The checked account has equity.                                         *)
LEMMA CheckedEquity ==
  ASSUME TypeInv
  PROVE  /\ Account.equity \in Nat \ {0}
         /\ equity > 0 => Account.equity = equity
         /\ equity <= 0 => Account.equity = 1
  BY DEF Account, TypeInv

(* Both claims follow from the types alone: of check_order, as the router  *)
(* feeds it, they hold in every state of the account.                      *)
LEMMA CloseAlways == TypeInv => CloseIsNeverTooBig
  <1> SUFFICES ASSUME TypeInv PROVE CloseIsNeverTooBig
    OBVIOUS
  <1>1. ASSUME NEW s \in Held
        PROVE  CheckOrder(Intent(s, 0), Account)
                 \notin {"max_risk_per_trade", "max_position_notional", "liquidation_buffer"}
    <2> DEFINE intent == Intent(s, 0)
               account == Account
    <2>1. s \in Symbols /\ pos[s] # 0
      BY <1>1 DEF Held
    <2>2. pos[s] \in Int /\ mark[s] \in Int
      BY <2>1, SizesAndPrices
    <2>3. ReduceOnly(pos[s], 0)
      <3>1. Abs(pos[s]) \in Nat /\ Abs(pos[s]) # 0 /\ Abs(0) = 0
        BY <2>1, <2>2, AbsNat
      <3>2. 0 * pos[s] >= 0
        BY <2>2
      <3> QED BY <2>1, <3>1, <3>2 DEF ReduceOnly
    <2>4. intent.reduceOnly /\ intent.symbol = s /\ intent.price = mark[s] /\ account.pos = pos
      BY <2>3 DEF Intent, Account
    <2>5. PostFill(intent, account.pos[s]) = 0
      BY <2>1, <2>4, PostFillIsTarget
    <2>6. account.equity \in Nat /\ NotionalPct \in Nat
      BY CheckedEquity, Caps
    <2> HIDE DEF intent, account
    <2>7. ~ Broken("max_risk_per_trade", intent, account)
      BY <2>4 DEF Broken
    <2>8. ~ Broken("liquidation_buffer", intent, account)
      BY <2>4 DEF Broken
    <2>9. ~ Broken("max_position_notional", intent, account)
      <3>1. 100 * Abs(0) * mark[s] = 0
        BY <2>2 DEF Abs
      <3>2. NotionalPct * account.equity \in Nat
        BY <2>6
      <3>3. ~ (100 * Abs(PostFill(intent, account.pos[intent.symbol])) * intent.price
                 > NotionalPct * account.equity)
        BY <2>4, <2>5, <3>1, <3>2
      <3>4. ~ TooLarge(intent, account)
        BY <3>3 DEF TooLarge
      <3> QED BY <3>4 DEF Broken
    <2>10. CheckOrder(intent, account) # "approved" =>
             Broken(CheckOrder(intent, account), intent, account)
      BY CheckOrderNames
    <2>11. CheckOrder(intent, account)
             \notin {"max_risk_per_trade", "max_position_notional", "liquidation_buffer"}
      BY <2>7, <2>8, <2>9, <2>10
    <2> QED BY <2>11 DEF intent, account
  <1>2. ASSUME equity <= 0, NEW s \in Symbols, NEW target \in Targets, Approved(s, target)
        PROVE  100 * Abs(target) * mark[s] <= NotionalPct
    <2>1. 100 * Abs(target) * mark[s] <= NotionalPct * Account.equity
      BY <1>2, ApprovedMeans
    <2>2. Account.equity = 1
      BY <1>2, CheckedEquity
    <2> QED BY <2>1, <2>2, Caps
  <1> QED BY <1>1, <1>2 DEF CloseIsNeverTooBig

-----------------------------------------------------------------------------
(* The types and the rate, step by step.                                   *)

(* An intent is an order, and no order is the absence of one.              *)
LEMMA IntentIsOrder ==
  ASSUME TypeInv, NEW s \in Symbols, NEW target \in Int
  PROVE  Intent(s, target) \in Order
  <1>1. target - pos[s] \in Int /\ mark[s] \in Prices
    BY SizesAndPrices
  <1>2. ReduceOnly(pos[s], target) \in BOOLEAN
    BY DEF ReduceOnly
  <1> QED BY <1>1, <1>2 DEF Intent, Order

(* Orders and their absence are told apart by their fields.                *)
LEMMA OrderIsSome == NoOrder \notin Order
  <1>1. DOMAIN NoOrder = {"symbol"}
    BY DEF NoOrder
  <1>2. \A o \in Order : "size" \in DOMAIN o
    BY DEF Order
  <1> QED BY <1>1, <1>2

(* What rests is an order.                                                 *)
LEMMA RestingIsOrder ==
  ASSUME TypeInv, NEW k \in Resting
  PROVE  /\ k \in Slots /\ orders[k] \in Order
         /\ orders[k].symbol \in Symbols /\ orders[k].size \in Int
         /\ orders[k].price \in Prices
  BY DEF TypeInv, Resting, Order

(* At the start, and by every step.                                        *)
LEMMA TypeInit == Init => TypeInv
  <1> SUFFICES ASSUME Init PROVE TypeInv
    OBVIOUS
  <1>1. equity \in Int
    BY Caps DEF Init
  <1>2. pos \in [Symbols -> Int] /\ mark \in [Symbols -> Prices] /\ near \subseteq Symbols
    BY DEF Init
  <1>3. orders \in [Slots -> Order \cup {NoOrder}]
    BY DEF Init
  <1>4. recent \in [Ages -> Nat] /\ accepted \in [Ages -> Nat]
    BY DEF Init
  <1>5. moved \in BOOLEAN /\ doubled \in BOOLEAN
    BY DEF Init
  <1> QED BY <1>1, <1>2, <1>3, <1>4, <1>5 DEF TypeInv

(* Whatever happens, sizes stay integers and counts naturals.              *)
LEMMA TypeStep == TypeInv /\ [Next]_vars => TypeInv'
  <1> SUFFICES ASSUME TypeInv, [Next]_vars PROVE TypeInv'
    OBVIOUS
  <1>1. CASE UNCHANGED vars
    BY <1>1 DEF TypeInv, vars
  <1>2. ASSUME NEW s \in Symbols, NEW target \in Targets, NEW k \in Slots, Submit(k, s, target)
        PROVE  TypeInv'
    <2>1. Intent(s, target) \in Order
      BY <1>2, Caps, IntentIsOrder
    <2>2. orders' \in [Slots -> Order \cup {NoOrder}]
      BY <1>2, <2>1 DEF Submit, TypeInv
    <2>3. recent' \in [Ages -> Nat] /\ accepted' \in [Ages -> Nat]
      <3>1. 0 \in Ages
        BY Caps DEF Ages
      <3> QED BY <1>2, <3>1 DEF Submit, Count, TypeInv
    <2> QED BY <1>2, <2>2, <2>3 DEF Submit, TypeInv
  <1>3. ASSUME NEW s \in Symbols, NEW target \in Targets, SubmitFails(s, target)
        PROVE  TypeInv'
    BY <1>3 DEF SubmitFails, TypeInv, vars
  <1>4. CASE TimePasses
    <2>1. \A a \in Ages : a # 0 => a - 1 \in Ages
      BY Caps DEF Ages
    <2>2. recent' \in [Ages -> Nat] /\ accepted' \in [Ages -> Nat]
      BY <1>4, <2>1 DEF TimePasses, Trimmed, Older, TypeInv
    <2> QED BY <1>4, <2>2 DEF TimePasses, TypeInv
  <1>5. ASSUME NEW k \in Slots, Fill(k) PROVE TypeInv'
    <2> DEFINE o == orders[k]
               unit == Sign(o.size)
    <2>1. k \in Resting
      BY <1>5 DEF Fill
    <2>2. o \in Order /\ o.symbol \in Symbols /\ o.size \in Int
      BY <2>1, RestingIsOrder
    <2>3. unit \in Int
      BY DEF Sign
    <2>4. pos' = [pos EXCEPT ![o.symbol] = @ + unit] /\ equity' \in Equities
      BY <1>5 DEF Fill
    <2>5. pos' \in [Symbols -> Int]
      <3> HIDE DEF o, unit
      <3> QED BY <2>2, <2>3, <2>4 DEF TypeInv
    <2>6. equity' \in Int
      BY <2>4, Caps
    <2>7. orders' \in [Slots -> Order \cup {NoOrder}]
      <3>1. [o EXCEPT !.size = @ - unit] \in Order
        <4> HIDE DEF o, unit
        <4> QED BY <2>2, <2>3 DEF Order
      <3>2. orders' = Gone(k) \/ orders' = [orders EXCEPT ![k] = [o EXCEPT !.size = @ - unit]]
        BY <1>5 DEF Fill, TypeInv
      <3> HIDE DEF o, unit
      <3>3. CASE orders' = Gone(k)
        BY <3>3 DEF Gone, TypeInv
      <3>4. CASE orders' = [orders EXCEPT ![k] = [o EXCEPT !.size = @ - unit]]
        BY <3>1, <3>4 DEF TypeInv
      <3> QED BY <3>2, <3>3, <3>4
    <2> QED BY <1>5, <2>5, <2>6, <2>7 DEF Fill, TypeInv
  <1>6. ASSUME NEW k \in Slots, Leave(k) PROVE TypeInv'
    BY <1>6 DEF Leave, Gone, TypeInv
  <1>7. ASSUME NEW s \in Symbols, PriceMoves(s) PROVE TypeInv'
    <2>1. PICK p \in Prices : mark' = [mark EXCEPT ![s] = p]
      BY <1>7 DEF PriceMoves
    <2>2. mark' \in [Symbols -> Prices]
      BY <2>1 DEF TypeInv
    <2>3. near' \subseteq Symbols
      BY <1>7 DEF PriceMoves, TypeInv
    <2>4. equity' \in Int
      BY <1>7, Caps DEF PriceMoves
    <2> QED BY <1>7, <2>2, <2>3, <2>4 DEF PriceMoves, TypeInv
  <1> QED BY <1>1, <1>2, <1>3, <1>4, <1>5, <1>6, <1>7 DEF Next

(* Counts by age, as the lemmas about sums want them.                      *)
LEMMA WithinType ==
  ASSUME NEW counts \in [Ages -> Nat]
  PROVE  Within(counts) \in Nat
  <1>1. \A a \in Ages : counts[a] \in Nat
    OBVIOUS
  <1> QED BY <1>1, AgesFinite, SumNat DEF Within

(* One more of age zero is one more in all.                                *)
LEMMA WithinCount ==
  ASSUME NEW counts \in [Ages -> Nat]
  PROVE  Within(Count(counts, 1)) = Within(counts) + 1
  <1> DEFINE g == Count(counts, 1)
  <1>1. 0 \in Ages
    BY Caps DEF Ages
  <1>2. \A a \in Ages : counts[a] \in Nat /\ g[a] \in Nat
    BY DEF Count
  <1>3. \A a \in Ages \ {0} : counts[a] = g[a]
    BY DEF Count
  <1>4. g[0] = counts[0] + 1
    BY <1>1 DEF Count
  <1>5. counts[0] \in Nat
    BY <1>1
  <1> HIDE DEF g
  <1>6. SumFunctionOnSet(g, Ages) = SumFunctionOnSet(counts, Ages) - counts[0] + g[0]
    <2>1. \A a \in Ages : counts[a] \in Int /\ g[a] \in Int
      BY <1>2
    <2> QED BY <1>1, <1>3, <2>1, AgesFinite, SumChange
  <1>7. Within(counts) \in Nat /\ Within(g) = Within(counts) - counts[0] + g[0]
    BY <1>6, WithinType DEF Within
  <1>8. Within(g) = Within(counts) + 1
    BY <1>4, <1>5, <1>7
  <1> QED BY <1>8 DEF g

(* As time passes the count does not grow.                                 *)
LEMMA WithinTrimmed ==
  ASSUME NEW counts \in [Ages -> Nat]
  PROVE  Within(Trimmed(counts)) <= Within(counts)
  <1> DEFINE g == [a \in 0..Window |-> IF a = 0 THEN 0 ELSE counts[a - 1]]
  <1>1. \A a \in 0..Window : counts[a] \in Nat
    BY DEF Ages
  <1>2. SumFunctionOnSet(g, 0..Window) + counts[Window] = SumFunctionOnSet(counts, 0..Window)
    BY <1>1, Caps, SumShift
  <1>3. counts[Window] \in Nat
    BY <1>1, Caps
  <1>4. \A a \in 0..Window : g[a] \in Nat
    <2>1. \A a \in 0..Window : a # 0 => a - 1 \in 0..Window
      BY Caps
    <2> QED BY <1>1, <2>1
  <1>5. g = Trimmed(counts)
    BY DEF Trimmed, Ages
  <1> HIDE DEF g
  <1>6. SumFunctionOnSet(g, 0..Window) \in Nat
    BY <1>4, AgesFinite, SumNat DEF Ages
  <1>7. SumFunctionOnSet(g, 0..Window) <= SumFunctionOnSet(counts, 0..Window)
    BY <1>2, <1>3, <1>6
  <1> QED BY <1>5, <1>7 DEF Within, Ages

(* Only a submission counts, and it is approved below the limit.           *)
LEMMA RateStep == TypeInv /\ RateInv /\ [Next]_vars => RateInv'
  <1> SUFFICES ASSUME TypeInv, RateInv, [Next]_vars PROVE RateInv'
    OBVIOUS
  <1>0. recent \in [Ages -> Nat] /\ Within(recent) \in Nat /\ MaxPerMinute \in Nat
    BY WithinType, Caps DEF TypeInv
  <1>1. ASSUME UNCHANGED <<recent, accepted>> PROVE RateInv'
    BY <1>1 DEF RateInv, Within
  <1>2. ASSUME NEW s \in Symbols, NEW target \in Targets, NEW k \in Slots, Submit(k, s, target)
        PROVE  RateInv'
    <2>1. recent' = Count(recent, 1) /\ accepted' = Count(accepted, 1) /\ Approved(s, target)
      BY <1>2 DEF Submit
    <2>2. Within(recent) < MaxPerMinute
      BY <2>1, ApprovedMeans
    <2>3. Within(recent') = Within(recent) + 1
      BY <1>0, <2>1, WithinCount
    <2>4. Within(recent') <= MaxPerMinute
      BY <1>0, <2>2, <2>3
    <2> QED BY <2>1, <2>4 DEF RateInv, Within
  <1>3. CASE TimePasses
    <2>1. recent' = Trimmed(recent) /\ accepted' = Older(accepted)
      BY <1>3 DEF TimePasses
    <2>2. recent' = accepted'
      BY <2>1 DEF Trimmed, Older, RateInv
    <2>3. Within(recent') <= Within(recent)
      BY <1>0, <2>1, WithinTrimmed
    <2>4. Within(recent') \in Nat
      BY TypeStep, WithinType DEF TypeInv
    <2>5. Within(recent') <= MaxPerMinute
      BY <1>0, <2>3, <2>4 DEF RateInv
    <2> QED BY <2>2, <2>5 DEF RateInv, Within
  <1>4. CASE UNCHANGED vars
    BY <1>1, <1>4 DEF vars
  <1>5. ASSUME NEW s \in Symbols, NEW target \in Targets, SubmitFails(s, target)
        PROVE  RateInv'
    BY <1>1, <1>5 DEF SubmitFails, vars
  <1>6. ASSUME NEW k \in Slots, Fill(k) \/ Leave(k) PROVE RateInv'
    BY <1>1, <1>6 DEF Fill, Leave
  <1>7. ASSUME NEW s \in Symbols, PriceMoves(s) PROVE RateInv'
    BY <1>1, <1>7 DEF PriceMoves
  <1> QED BY <1>2, <1>3, <1>4, <1>5, <1>6, <1>7 DEF Next

-----------------------------------------------------------------------------
(* The number of positions, step by step.                                  *)

(* An order is in one symbol.                                              *)
LEMMA CoinsFinite ==
  ASSUME TypeInv
  PROVE  /\ IsFiniteSet(Resting) /\ IsFiniteSet(Held) /\ IsFiniteSet(Ordered)
         /\ IsFiniteSet(Coins) /\ Held \subseteq Symbols /\ Ordered \subseteq Symbols
         /\ Cardinality(Ordered) <= Cardinality(Resting)
         /\ Cardinality(Resting) \in Nat /\ Cardinality(Ordered) \in Nat
         /\ Cardinality(Held) \in Nat /\ Cardinality(Coins) \in Nat
  <1>1. Resting \subseteq Slots /\ Held \subseteq Symbols
    BY DEF Resting, Held
  <1>2. Ordered \subseteq Symbols
    BY RestingIsOrder DEF Ordered
  <1>3. IsFiniteSet(Resting) /\ IsFiniteSet(Held) /\ IsFiniteSet(Ordered)
    BY <1>1, <1>2, Caps, FS_Subset
  <1>4. IsFiniteSet(Coins)
    BY <1>3, FS_Union DEF Coins
  <1>5. Cardinality(Ordered) <= Cardinality(Resting)
    <2> DEFINE f == [k \in Resting |-> orders[k].symbol]
    <2>1. f \in Surjection(Resting, Ordered)
      BY DEF Surjection, Ordered
    <2> QED BY <1>3, <2>1, FS_Surjection
  <1> QED BY <1>1, <1>2, <1>3, <1>4, <1>5, FS_CardinalityType

(* Where no symbol is added, the bound is kept.                            *)
LEMMA CoinsShrink ==
  ASSUME TypeInv, TypeInv', CoinsInv, Coins' \subseteq Coins
  PROVE  CoinsInv'
  <1>1. SUFFICES ASSUME Coins' # {}
                 PROVE  MaxOpenOrders > 0 /\ Cardinality(Coins') <= MaxPositions + MaxOpenOrders - 1
    BY DEF CoinsInv
  <1>2. MaxOpenOrders > 0 /\ Cardinality(Coins) <= MaxPositions + MaxOpenOrders - 1
    BY <1>1 DEF CoinsInv
  <1>3. IsFiniteSet(Coins) /\ Cardinality(Coins) \in Nat
    BY CoinsFinite
  <1>4. Cardinality(Coins') <= Cardinality(Coins) /\ Cardinality(Coins') \in Nat
    BY <1>3, FS_Subset, FS_CardinalityType
  <1> QED BY <1>2, <1>3, <1>4, Caps

(* An order is approved with at most MaxPositions symbols held once it has *)
(* filled, and fewer than MaxOpenOrders others resting.                    *)
LEMMA CoinsSubmit ==
  ASSUME TypeInv, TypeInv', CoinsInv,
         NEW s \in Symbols, NEW target \in Targets, NEW k \in Slots, Submit(k, s, target)
  PROVE  CoinsInv'
  <1>1. /\ orders' = [orders EXCEPT ![k] = Intent(s, target)] /\ pos' = pos
        /\ Approved(s, target)
    BY DEF Submit
  <1>2. Coins' \subseteq Coins \cup {s}
    <2>1. Intent(s, target).symbol = s
      BY DEF Intent
    <2>2. Ordered' \subseteq Ordered \cup {s}
      BY <1>1, <2>1 DEF Ordered, Resting, TypeInv
    <2> QED BY <1>1, <2>2 DEF Coins, Held
  <1>3. CASE target = 0
    <2>1. s \in Held
      BY <1>1, <1>3 DEF Approved, Held
    <2> QED BY <1>2, <2>1, CoinsShrink DEF Coins
  <1>4. CASE target # 0
    <2> DEFINE A == {x \in Symbols : Reached(s, target)[x] # 0}
    <2>1. Cardinality(A) <= MaxPositions /\ Cardinality(Resting) < MaxOpenOrders
      BY <1>1, ApprovedMeans
    <2>2. A = Held \cup {s}
      BY <1>4 DEF Reached, Held, TypeInv
    <2>3. IsFiniteSet(A)
      BY Caps, FS_Subset
    <2>4. Coins' \subseteq A \cup Ordered
      BY <1>2, <2>2 DEF Coins
    <2> HIDE DEF A
    <2>5. /\ IsFiniteSet(Ordered) /\ Cardinality(Ordered) \in Nat
          /\ Cardinality(Ordered) <= Cardinality(Resting) /\ Cardinality(Resting) \in Nat
      BY CoinsFinite
    <2>6. /\ IsFiniteSet(A \cup Ordered)
          /\ Cardinality(A \cup Ordered)
               = Cardinality(A) + Cardinality(Ordered) - Cardinality(A \cap Ordered)
      BY <2>3, <2>5, FS_Union
    <2>7. IsFiniteSet(A \cap Ordered)
      BY <2>3, FS_Subset
    <2>8. Cardinality(A) \in Nat /\ Cardinality(A \cap Ordered) \in Nat
      BY <2>3, <2>7, FS_CardinalityType
    <2>9. /\ Cardinality(Coins') <= Cardinality(A \cup Ordered)
          /\ Cardinality(Coins') \in Nat /\ Cardinality(A \cup Ordered) \in Nat
      BY <2>4, <2>6, FS_Subset, FS_CardinalityType
    <2>10. MaxOpenOrders > 0 /\ Cardinality(Coins') <= MaxPositions + MaxOpenOrders - 1
      BY <2>1, <2>5, <2>6, <2>8, <2>9, Caps
    <2> QED BY <2>10 DEF CoinsInv
  <1> QED BY <1>3, <1>4

(* Prices do not matter, and fills and cancels add no symbol.              *)
LEMMA CoinsStep == TypeInv /\ CoinsInv /\ [Next]_vars => CoinsInv'
  <1> SUFFICES ASSUME TypeInv, CoinsInv, [Next]_vars PROVE CoinsInv'
    OBVIOUS
  <1>0. TypeInv'
    BY TypeStep
  <1>1. ASSUME UNCHANGED <<pos, orders>> PROVE CoinsInv'
    <2>1. Coins' \subseteq Coins
      BY <1>1 DEF Coins, Held, Ordered, Resting
    <2> QED BY <1>0, <2>1, CoinsShrink
  <1>2. ASSUME NEW s \in Symbols, NEW target \in Targets, NEW k \in Slots, Submit(k, s, target)
        PROVE  CoinsInv'
    BY <1>0, <1>2, CoinsSubmit
  <1>3. ASSUME NEW k \in Slots, Fill(k) PROVE CoinsInv'
    <2> DEFINE o == orders[k]
    <2>1. k \in Resting /\ o.symbol \in Ordered
      BY <1>3 DEF Fill, Ordered
    <2>2. pos' = [pos EXCEPT ![o.symbol] = @ + Sign(o.size)]
      BY <1>3 DEF Fill
    <2>3. Held' \subseteq Held \cup {o.symbol}
      <3> HIDE DEF o
      <3> QED BY <2>2 DEF Held, TypeInv
    <2>4. \A j \in Resting' : j \in Resting /\ orders'[j].symbol = orders[j].symbol
      <3>1. orders' = Gone(k) \/ orders' = [orders EXCEPT ![k] = [o EXCEPT !.size = @ - Sign(o.size)]]
        BY <1>3 DEF Fill, TypeInv
      <3>2. CASE orders' = Gone(k)
        BY <3>2 DEF Gone, Resting, TypeInv
      <3>3. CASE orders' = [orders EXCEPT ![k] = [o EXCEPT !.size = @ - Sign(o.size)]]
        <4> DEFINE rest == [o EXCEPT !.size = @ - Sign(o.size)]
        <4>1. o \in Order /\ rest.symbol = o.symbol
          BY <2>1, RestingIsOrder DEF Order
        <4> HIDE DEF rest
        <4>2. orders' = [orders EXCEPT ![k] = rest]
          BY <3>3 DEF rest
        <4> QED BY <2>1, <4>1, <4>2 DEF Resting, TypeInv
      <3> QED BY <3>1, <3>2, <3>3
    <2>5. Coins' \subseteq Coins
      BY <2>1, <2>3, <2>4 DEF Coins, Ordered
    <2> QED BY <1>0, <2>5, CoinsShrink
  <1>4. ASSUME NEW k \in Slots, Leave(k) PROVE CoinsInv'
    <2>1. Coins' \subseteq Coins
      BY <1>4 DEF Leave, Gone, Coins, Held, Ordered, Resting, TypeInv
    <2> QED BY <1>0, <2>1, CoinsShrink
  <1>5. ASSUME NEW s \in Symbols, PriceMoves(s) PROVE CoinsInv'
    BY <1>1, <1>5 DEF PriceMoves
  <1>6. CASE UNCHANGED vars
    BY <1>1, <1>6 DEF vars
  <1>7. ASSUME NEW s \in Symbols, NEW target \in Targets, SubmitFails(s, target)
        PROVE  CoinsInv'
    BY <1>1, <1>7 DEF SubmitFails, vars
  <1>8. CASE TimePasses
    BY <1>1, <1>8 DEF TimePasses
  <1> QED BY <1>2, <1>3, <1>4, <1>5, <1>6, <1>7, <1>8 DEF Next

-----------------------------------------------------------------------------
(* The sizes and the leverage, step by step.                               *)

(* What is within the cap is within the share.                             *)
LEMMA WithinShare ==
  ASSUME NEW a \in Int, NEW n \in Int, 100 * a <= n
  PROVE  a <= n \div 100
  OBVIOUS

(* A product grows with its factor.                                        *)
LEMMA Grows == \A a, b, m \in Nat : a <= b => a * m <= b * m
  OBVIOUS

(* The share is a natural where the account has equity.                    *)
LEMMA ShareNat ==
  ASSUME TypeInv
  PROVE  Share \in Int /\ (equity > 0 => Share \in Nat /\ MaxLeverage * equity \in Nat)
  <1>1. NotionalPct \in Nat /\ MaxLeverage \in Nat /\ equity \in Int
    BY Caps DEF TypeInv
  <1>2. NotionalPct * equity \in Int /\ (equity > 0 => NotionalPct * equity \in Nat)
    BY <1>1
  <1>3. equity > 0 => MaxLeverage * equity \in Nat
    BY <1>1
  <1> DEFINE n == NotionalPct * equity
  <1>4. Share = n \div 100
    BY DEF Share
  <1> HIDE DEF n
  <1>5. n \in Int /\ (equity > 0 => n \in Nat)
    BY <1>2 DEF n
  <1>6. n \div 100 \in Int /\ (n \in Nat => n \div 100 \in Nat)
    BY <1>5
  <1> QED BY <1>3, <1>4, <1>5, <1>6

(* A ceiling above an account still has to be met by the resting orders.   *)
LEMMA CeilingKept ==
  ASSUME TypeInv, NEW size \in [Symbols -> Nat], Ceiling(size),
         UNCHANGED <<mark, equity>>,
         \A s \in Symbols : Abs(pos'[s]) <= size[s],
         \A k \in Resting' :
           Abs(pos'[orders'[k].symbol] + orders'[k].size) <= size[orders'[k].symbol]
  PROVE  Ceiling(size)'
  BY DEF Ceiling, Worth, Share

(* A flat account is under a ceiling of nothing.                           *)
LEMMA CeilingInit == TypeInv /\ Init => \E size \in [Symbols -> Nat] : Ceiling(size)
  <1> SUFFICES ASSUME TypeInv, Init PROVE \E size \in [Symbols -> Nat] : Ceiling(size)
    OBVIOUS
  <1> DEFINE none == [s \in Symbols |-> 0]
             f == [s \in Symbols |-> Abs(none[s]) * mark[s]]
  <1>1. Share \in Nat /\ MaxLeverage * equity \in Nat
    BY Caps, ShareNat DEF Init
  <1>2. none \in [Symbols -> Nat] /\ \A s \in Symbols : none[s] = 0
    OBVIOUS
  <1>3. \A s \in Symbols : pos[s] = 0
    BY DEF Init
  <1>4. Resting = {}
    BY DEF Init, Resting
  <1>5. Abs(0) = 0 /\ \A s \in Symbols : mark[s] \in Int /\ 0 * mark[s] = 0
    <2>1. \A s \in Symbols : mark[s] \in Int
      BY SizesAndPrices
    <2> QED BY <2>1 DEF Abs
  <1>6. \A s \in Symbols : f[s] = 0
    BY <1>2, <1>5
  <1> HIDE DEF none, f
  <1>7. SumFunctionOnSet(f, Symbols) = 0
    BY <1>6, Caps, SumZero
  <1>8. Worth(none, mark) = 0
    BY <1>7 DEF Worth, f
  <1>9. MaxOpenOrders > 0 => 0 <= MaxLeverage * equity + (MaxOpenOrders - 1) * Share
    <2> SUFFICES ASSUME MaxOpenOrders > 0
                 PROVE  0 <= MaxLeverage * equity + (MaxOpenOrders - 1) * Share
      OBVIOUS
    <2>1. MaxOpenOrders - 1 \in Nat
      BY Caps
    <2>2. (MaxOpenOrders - 1) * Share \in Nat
      BY <1>1, <2>1
    <2> QED BY <1>1, <2>2
  <1>10. \A s \in Symbols : Abs(pos[s]) <= none[s] /\ none[s] * mark[s] <= Share
    BY <1>1, <1>2, <1>3, <1>5
  <1>11. Ceiling(none)
    BY <1>4, <1>8, <1>9, <1>10 DEF Ceiling
  <1> QED BY <1>2, <1>11

(* An order may raise the ceiling: to its target, and no other symbol's.   *)
(* The symbols with an order keep theirs, the rest have what they hold.    *)
LEMMA CeilingRaised ==
  ASSUME TypeInv, equity > 0,
         NEW size \in [Symbols -> Nat], Ceiling(size),
         NEW s \in Symbols, NEW target \in Targets, Approved(s, target),
         s \notin Ordered, Abs(target) > size[s]
  PROVE  LET raised == [x \in Symbols |-> IF x = s THEN Abs(target)
                                         ELSE IF x \in Ordered THEN size[x] ELSE Abs(pos[x])]
         IN /\ raised \in [Symbols -> Nat]
            /\ \A x \in Symbols : Abs(pos[x]) <= raised[x] /\ raised[x] * mark[x] <= Share
            /\ Worth(raised, mark) <= MaxLeverage * equity + (MaxOpenOrders - 1) * Share
  <1> DEFINE raised == [x \in Symbols |-> IF x = s THEN Abs(target)
                                         ELSE IF x \in Ordered THEN size[x] ELSE Abs(pos[x])]
             R == Reached(s, target)
             f == [x \in Symbols |-> Abs(R[x]) * mark[x]]
             g == [x \in Symbols |-> Abs(raised[x]) * mark[x]]
             h == [x \in Symbols |-> IF x \in Ordered THEN f[x] + Share ELSE f[x]]
  <1>1. /\ target \in Int /\ Abs(target) \in Nat
        /\ \A x \in Symbols : pos[x] \in Int /\ Abs(pos[x]) \in Nat /\ mark[x] \in Nat
                             /\ size[x] \in Nat
    BY Caps, AbsNat, SizesAndPrices
  <1>2. raised \in [Symbols -> Nat]
    BY <1>1
  <1>3. /\ Share \in Nat /\ MaxLeverage * equity \in Int /\ Account.equity = equity
        /\ MaxOpenOrders \in Nat
    BY Caps, ShareNat, CheckedEquity
  <1>4. \A x \in Symbols : Abs(pos[x]) <= size[x] /\ size[x] * mark[x] <= Share
    BY DEF Ceiling
  <1>5. Abs(target) * mark[s] <= Share
    <2>1. 100 * Abs(target) * mark[s] <= NotionalPct * equity
      BY <1>3, ApprovedMeans
    <2> DEFINE a == Abs(target) * mark[s]
               n == NotionalPct * equity
    <2>2. a \in Int /\ n \in Int /\ 100 * a = 100 * Abs(target) * mark[s]
      BY <1>1, Caps DEF TypeInv
    <2>3. Share = n \div 100
      BY DEF Share
    <2> HIDE DEF a, n
    <2>4. 100 * a <= n
      BY <2>1, <2>2 DEF n
    <2>5. a <= n \div 100
      BY <2>2, <2>4, WithinShare
    <2> QED BY <2>3, <2>5 DEF a
  <1>6. \A x \in Symbols : Abs(pos[x]) * mark[x] <= size[x] * mark[x]
    BY <1>1, <1>4, Grows
  <1>7. \A x \in Symbols : Abs(pos[x]) * mark[x] <= Share
    <2> TAKE x \in Symbols
    <2> DEFINE a == Abs(pos[x]) * mark[x]
               b == size[x] * mark[x]
    <2>1. a \in Int /\ b \in Int
      BY <1>1
    <2>2. a <= b /\ b <= Share
      BY <1>4, <1>6
    <2> HIDE DEF a, b
    <2>3. a <= Share
      BY <1>3, <2>1, <2>2
    <2> QED BY <2>3 DEF a
  <1>8. \A x \in Symbols : Abs(pos[x]) <= raised[x]
    <2> TAKE x \in Symbols
    <2>1. CASE x = s
      BY <1>1, <1>4, <2>1
    <2>2. CASE x # s
      BY <1>1, <1>4, <2>2
    <2> QED BY <2>1, <2>2
  <1>9. \A x \in Symbols : raised[x] * mark[x] <= Share
    BY <1>4, <1>5, <1>7
  <1>10. /\ MaxOpenOrders > 0 /\ Cardinality(Ordered) \in Nat
         /\ Cardinality(Ordered) <= MaxOpenOrders - 1
    <2>1. Cardinality(Resting) < MaxOpenOrders
      BY ApprovedMeans
    <2>2. /\ Cardinality(Ordered) <= Cardinality(Resting) /\ Cardinality(Ordered) \in Nat
          /\ Cardinality(Resting) \in Nat
      BY CoinsFinite
    <2> QED BY <1>3, <2>1, <2>2
  <1>11. \A x \in Symbols : R[x] = IF x = s THEN target ELSE pos[x]
    BY <1>1 DEF Reached, TypeInv
  <1>12. \A x \in Symbols : f[x] \in Nat /\ g[x] \in Nat /\ g[x] = raised[x] * mark[x]
    <2> TAKE x \in Symbols
    <2>1. Abs(R[x]) \in Nat
      BY <1>1, <1>11
    <2>2. raised[x] \in Nat /\ mark[x] \in Nat
      BY <1>1, <1>2
    <2>3. Abs(raised[x]) = raised[x]
      BY <2>2 DEF Abs
    <2>4. Abs(R[x]) * mark[x] \in Nat /\ raised[x] * mark[x] \in Nat
      BY <2>1, <2>2
    <2> HIDE DEF R, raised
    <2> QED BY <2>3, <2>4
  <1>13. \A x \in Symbols \ Ordered : g[x] = f[x]
    <2> TAKE x \in Symbols \ Ordered
    <2>1. raised[x] = Abs(R[x])
      BY <1>11
    <2>2. g[x] = raised[x] * mark[x]
      BY <1>12
    <2> HIDE DEF R, raised, g
    <2> QED BY <2>1, <2>2
  <1>14. \A x \in Symbols : h[x] \in Int /\ g[x] <= h[x]
    <2> TAKE x \in Symbols
    <2>1. f[x] \in Nat /\ g[x] \in Nat
      BY <1>12
    <2>2. CASE x \in Ordered
      <3>1. g[x] <= Share
        BY <1>9, <1>12
      <3>2. h[x] = f[x] + Share
        BY <2>2
      <3> HIDE DEF f, g, h
      <3> QED BY <1>3, <2>1, <3>1, <3>2
    <2>3. CASE x \notin Ordered
      <3>1. g[x] = f[x]
        BY <1>13, <2>3
      <3>2. h[x] = f[x]
        BY <2>3
      <3> HIDE DEF f, g, h
      <3> QED BY <2>1, <3>1, <3>2
    <2> QED BY <2>2, <2>3
  <1>15. SumFunctionOnSet(g, Symbols) <= SumFunctionOnSet(h, Symbols)
    <2> HIDE DEF f, g, h
    <2>1. \A x \in Symbols : g[x] \in Int
      BY <1>12
    <2> QED BY <1>14, <2>1, Caps, SumMonotone
  <1>16. SumFunctionOnSet(h, Symbols) = SumFunctionOnSet(f, Symbols) + Share * Cardinality(Ordered)
    <2>1. \A x \in Symbols : f[x] \in Int
      BY <1>12
    <2>2. Ordered \in SUBSET Symbols /\ Share \in Int /\ IsFiniteSet(Symbols)
      BY <1>3, Caps, CoinsFinite
    <2> HIDE DEF f
    <2> QED BY <2>1, <2>2, SumRaised
  <1>17. SumFunctionOnSet(f, Symbols) <= MaxLeverage * equity
    <2>1. Worth(R, mark) <= MaxLeverage * equity
      BY <1>3, ApprovedMeans
    <2> QED BY <2>1 DEF Worth
  <1>18. Share * Cardinality(Ordered) <= (MaxOpenOrders - 1) * Share
    <2>1. MaxOpenOrders - 1 \in Nat
      BY <1>3, <1>10
    <2>2. Cardinality(Ordered) * Share <= (MaxOpenOrders - 1) * Share
      BY <1>3, <1>10, <2>1, Grows
    <2>3. Cardinality(Ordered) * Share = Share * Cardinality(Ordered)
      BY <1>3, <1>10
    <2> QED BY <2>2, <2>3
  <1>19. Worth(raised, mark) <= MaxLeverage * equity + (MaxOpenOrders - 1) * Share
    <2> DEFINE F == SumFunctionOnSet(f, Symbols)
               G == SumFunctionOnSet(g, Symbols)
               a == Share * Cardinality(Ordered)
               b == (MaxOpenOrders - 1) * Share
               c == MaxLeverage * equity
    <2>1. F \in Int /\ G \in Int
      <3>1. \A x \in Symbols : f[x] \in Int /\ g[x] \in Int
        BY <1>12
      <3> HIDE DEF f, g
      <3> QED BY <3>1, Caps, SumInt
    <2>2. a \in Int /\ b \in Int /\ c \in Int
      BY <1>3, <1>10
    <2>3. G <= F + a /\ F <= c /\ a <= b
      BY <1>15, <1>16, <1>17, <1>18
    <2> HIDE DEF F, G, a, b, c
    <2>4. G <= c + b
      BY <2>1, <2>2, <2>3
    <2>5. Worth(raised, mark) = G
      BY DEF Worth, G, g
    <2> HIDE DEF raised
    <2> QED BY <2>4, <2>5 DEF b, c
  <1> QED BY <1>2, <1>8, <1>9, <1>19

(* An order is sent at the price, and alone in its symbol.                 *)
LEMMA SettledSubmit ==
  ASSUME TypeInv, Settled,
         NEW s \in Symbols, NEW target \in Targets, NEW k \in Slots, Submit(k, s, target),
         s \notin Ordered
  PROVE  Settled'
  <1> DEFINE o == Intent(s, target)
  <1>1. /\ orders' = [orders EXCEPT ![k] = o] /\ target # pos[s]
        /\ UNCHANGED <<mark, equity>>
    BY DEF Submit, Approved
  <1>2. o.symbol = s /\ o.price = mark[s] /\ o.size = target - pos[s]
    BY DEF Intent
  <1>3. o.size # 0
    <2>1. target \in Int /\ pos[s] \in Int
      BY Caps, SizesAndPrices
    <2> QED BY <1>1, <1>2, <2>1
  <1> HIDE DEF o
  <1>4. orders'[k] = o /\ \A j \in Slots \ {k} : orders'[j] = orders[j]
    BY <1>1 DEF TypeInv
  <1>5. \A j \in Resting' : j = k \/ (j \in Resting /\ orders'[j] = orders[j])
    BY <1>4 DEF Resting
  <1>6. \A j \in Resting : orders[j].symbol # s
    BY DEF Ordered
  <1> QED BY <1>1, <1>2, <1>3, <1>4, <1>5, <1>6 DEF Settled

(* It fits under the ceiling, or raises it.                                *)
LEMMA ExposureSubmit ==
  ASSUME TypeInv, ExposureInv,
         NEW s \in Symbols, NEW target \in Targets, NEW k \in Slots, Submit(k, s, target)
  PROVE  ExposureInv'
  <1> SUFFICES ASSUME ~moved', ~doubled'
               PROVE  Settled' /\ \E size \in [Symbols -> Nat] : Ceiling(size)'
    BY DEF ExposureInv
  <1> DEFINE o == Intent(s, target)
  <1>1. /\ orders' = [orders EXCEPT ![k] = o] /\ Approved(s, target)
        /\ UNCHANGED <<pos, mark, equity, moved>>
        /\ doubled' = (doubled \/ \E j \in Resting : orders[j].symbol = s)
    BY DEF Submit
  <1>2. ~moved /\ ~doubled /\ s \notin Ordered
    BY <1>1 DEF Ordered
  <1>3. PICK size \in [Symbols -> Nat] : Ceiling(size)
    BY <1>2 DEF ExposureInv
  <1>4. Settled /\ equity > 0
    BY <1>2, Caps DEF ExposureInv, Settled
  <1>5. Settled'
    BY <1>2, <1>4, SettledSubmit
  <1>6. target \in Int /\ \A x \in Symbols : Abs(pos[x]) \in Nat /\ pos[x] \in Int
    BY Caps, SizesAndPrices, AbsNat
  <1>7. o.symbol = s /\ pos[s] + o.size = target
    <2>1. pos[s] + (target - pos[s]) = target
      BY <1>6
    <2> QED BY <2>1 DEF Intent
  <1> HIDE DEF o
  <1>8. \A j \in Resting' :
         \/ orders'[j] = o
         \/ j \in Resting /\ orders'[j] = orders[j] /\ orders[j].symbol \in Ordered
    BY <1>1 DEF Resting, Ordered, TypeInv
  <1>9. /\ \A x \in Symbols : Abs(pos[x]) <= size[x]
        /\ \A j \in Resting : Abs(pos[orders[j].symbol] + orders[j].size) <= size[orders[j].symbol]
    BY <1>3 DEF Ceiling
  <1>10. CASE Abs(target) <= size[s]
    <2>1. \A x \in Symbols : Abs(pos'[x]) <= size[x]
      BY <1>1, <1>9
    <2>2. \A j \in Resting' :
            Abs(pos'[orders'[j].symbol] + orders'[j].size) <= size[orders'[j].symbol]
      BY <1>1, <1>7, <1>8, <1>9, <1>10
    <2>3. Ceiling(size)'
      BY <1>1, <1>3, <2>1, <2>2, CeilingKept
    <2> QED BY <1>5, <2>3
  <1>11. CASE ~ (Abs(target) <= size[s])
    <2>1. Abs(target) > size[s]
      <3>1. Abs(target) \in Int /\ size[s] \in Int
        BY <1>3, <1>6, AbsNat
      <3> QED BY <1>11, <3>1
    <2>2. PICK raised :
            /\ raised = [x \in Symbols |-> IF x = s THEN Abs(target)
                                         ELSE IF x \in Ordered THEN size[x] ELSE Abs(pos[x])]
            /\ raised \in [Symbols -> Nat]
            /\ \A x \in Symbols : Abs(pos[x]) <= raised[x] /\ raised[x] * mark[x] <= Share
            /\ Worth(raised, mark) <= MaxLeverage * equity + (MaxOpenOrders - 1) * Share
      BY <1>1, <1>2, <1>3, <1>4, <2>1, CeilingRaised
    <2>3. \A j \in Resting' :
            Abs(pos[orders'[j].symbol] + orders'[j].size) <= raised[orders'[j].symbol]
      <3> SUFFICES ASSUME NEW j \in Resting'
                   PROVE  Abs(pos[orders'[j].symbol] + orders'[j].size) <= raised[orders'[j].symbol]
        OBVIOUS
      <3>1. CASE orders'[j] = o
        <4>1. raised[s] = Abs(target) /\ Abs(target) \in Nat
          BY <1>6, <2>2, AbsNat
        <4> QED BY <1>7, <3>1, <4>1
      <3>2. CASE j \in Resting /\ orders'[j] = orders[j] /\ orders[j].symbol \in Ordered
        <4>1. orders[j].symbol \in Symbols
          BY <3>2, RestingIsOrder
        <4>2. raised[orders[j].symbol] = size[orders[j].symbol]
          BY <1>2, <2>2, <3>2, <4>1
        <4> QED BY <1>9, <3>2, <4>2
      <3> QED BY <1>8, <3>1, <3>2
    <2>4. Ceiling(raised)'
      BY <1>1, <2>2, <2>3 DEF Ceiling, Worth, Share
    <2> QED BY <1>5, <2>2, <2>4
  <1> QED BY <1>10, <1>11

(* A fill moves a position towards where its order leads, and no further:  *)
(* it is nowhere larger than at one of the two ends.                       *)
LEMMA ExposureFill ==
  ASSUME TypeInv, ExposureInv, NEW k \in Slots, Fill(k)
  PROVE  ExposureInv'
  <1> DEFINE o == orders[k]
             unit == Sign(o.size)
             rest == [o EXCEPT !.size = @ - unit]
             s == o.symbol
  <1> SUFFICES ASSUME ~moved', ~doubled'
               PROVE  Settled' /\ \E size \in [Symbols -> Nat] : Ceiling(size)'
    BY DEF ExposureInv
  <1>1. /\ k \in Resting /\ mark' = mark /\ moved' = moved /\ doubled' = doubled
        /\ pos' = [pos EXCEPT ![s] = @ + unit]
        /\ equity' = equity + unit * (mark[s] - o.price)
    BY DEF Fill
  <1>2. PICK size \in [Symbols -> Nat] : Ceiling(size)
    BY <1>1 DEF ExposureInv
  <1>3. Settled
    BY <1>1 DEF ExposureInv
  <1>4. /\ o \in Order /\ s \in Symbols /\ o.size \in Int /\ o.size # 0 /\ o.price = mark[s]
        /\ \A j \in Resting \ {k} : orders[j].symbol # s
    BY <1>1, <1>3, RestingIsOrder DEF Settled
  <1>5. unit \in Int
    BY DEF Sign
  <1>6. equity' = equity
    <2>1. mark[s] - o.price = 0 /\ equity \in Int
      BY <1>4, SizesAndPrices DEF TypeInv
    <2>2. unit * 0 = 0
      BY <1>5
    <2> HIDE DEF o, unit, s
    <2> QED BY <1>1, <2>1, <2>2
  <1>7. \/ orders' = Gone(k)
        \/ orders' = [orders EXCEPT ![k] = rest] /\ o.size # unit
    BY DEF Fill, TypeInv
  <1>8. rest.symbol = s /\ rest.price = o.price /\ rest.size = o.size - unit
    BY <1>4 DEF Order
  <1>9. \A j \in Resting' :
         \/ j \in Resting \ {k} /\ orders'[j] = orders[j]
         \/ j = k /\ orders'[j] = rest /\ o.size # unit
    <2> HIDE DEF rest, o, unit
    <2>1. CASE orders' = Gone(k)
      BY <2>1 DEF Gone, Resting, TypeInv
    <2>2. CASE orders' = [orders EXCEPT ![k] = rest] /\ o.size # unit
      BY <2>2 DEF Resting, TypeInv
    <2> QED BY <1>7, <2>1, <2>2
  <1>10. /\ \A x \in Symbols : pos[x] \in Int /\ Abs(pos[x]) <= size[x] /\ size[x] \in Nat
         /\ \A j \in Resting :
              Abs(pos[orders[j].symbol] + orders[j].size) <= size[orders[j].symbol]
    BY <1>2, SizesAndPrices DEF Ceiling
  <1>11. pos'[s] = pos[s] + unit /\ \A x \in Symbols \ {s} : pos'[x] = pos[x]
    <2> HIDE DEF s, unit
    <2> QED BY <1>1, <1>4 DEF TypeInv
  <1>12. Abs(pos[s] + o.size) <= size[s]
    BY <1>1, <1>10
  <1>13. Abs(pos'[s]) <= size[s]
    <2>1. \A a, n \in Int, m \in Nat :
            n # 0 /\ Abs(a) <= m /\ Abs(a + n) <= m => Abs(a + Sign(n)) <= m
      BY DEF Abs, Sign
    <2>2. Abs(pos[s] + Sign(o.size)) <= size[s]
      BY <1>4, <1>10, <1>12, <2>1
    <2> QED BY <1>11, <2>2
  <1>14. Settled'
    <2>1. o.size # unit => rest.size # 0
      <3> HIDE DEF o, unit, rest
      <3> QED BY <1>4, <1>5, <1>8
    <2>2. \A j \in Resting' :
            /\ j \in Resting /\ orders'[j].symbol = orders[j].symbol
            /\ orders'[j].price = orders[j].price /\ orders'[j].size # 0
      <3>1. \A j \in Resting : orders[j].size # 0
        BY <1>3 DEF Settled
      <3> HIDE DEF rest, unit
      <3> QED BY <1>1, <1>8, <1>9, <2>1, <3>1
    <2> HIDE DEF o, s, unit, rest
    <2> QED BY <1>1, <1>3, <1>6, <2>2 DEF Settled
  <1>15. \A j \in Resting' :
           Abs(pos'[orders'[j].symbol] + orders'[j].size) <= size[orders'[j].symbol]
    <2> SUFFICES ASSUME NEW j \in Resting'
                 PROVE  Abs(pos'[orders'[j].symbol] + orders'[j].size) <= size[orders'[j].symbol]
      OBVIOUS
    <2>1. CASE j \in Resting \ {k} /\ orders'[j] = orders[j]
      <3>1. orders[j].symbol \in Symbols \ {s}
        BY <1>4, <2>1, RestingIsOrder
      <3>2. pos'[orders[j].symbol] = pos[orders[j].symbol]
        BY <1>11, <3>1
      <3> QED BY <1>10, <2>1, <3>2
    <2>2. CASE j = k /\ orders'[j] = rest
      <3>1. pos'[s] + rest.size = pos[s] + o.size
        <4>1. pos[s] \in Int
          BY <1>4, <1>10
        <4> HIDE DEF o, s, unit, rest
        <4> QED BY <1>4, <1>5, <1>8, <1>11, <4>1
      <3> HIDE DEF o, s, unit, rest
      <3> QED BY <1>8, <1>12, <2>2, <3>1
    <2> QED BY <1>9, <2>1, <2>2
  <1>16. \A x \in Symbols : Abs(pos'[x]) <= size[x]
    <2> HIDE DEF s
    <2> QED BY <1>10, <1>11, <1>13
  <1>17. Ceiling(size)'
    BY <1>1, <1>2, <1>6, <1>15, <1>16, CeilingKept
  <1> QED BY <1>14, <1>17

(* Every step at which no price moves keeps what the caps need.            *)
LEMMA ExposureStep == TypeInv /\ ExposureInv /\ [Next]_vars => ExposureInv'
  <1> SUFFICES ASSUME TypeInv, ExposureInv, [Next]_vars PROVE ExposureInv'
    OBVIOUS
  <1>1. ASSUME UNCHANGED <<pos, mark, equity, orders, moved, doubled>> PROVE ExposureInv'
    BY <1>1 DEF ExposureInv, Settled, Ceiling, Worth, Share, Resting
  <1>2. ASSUME NEW s \in Symbols, NEW target \in Targets, NEW k \in Slots, Submit(k, s, target)
        PROVE  ExposureInv'
    BY <1>2, ExposureSubmit
  <1>3. ASSUME NEW k \in Slots, Fill(k) PROVE ExposureInv'
    BY <1>3, ExposureFill
  <1>4. ASSUME NEW k \in Slots, Leave(k) PROVE ExposureInv'
    <2>1. UNCHANGED <<pos, mark, equity, moved, doubled>> /\ orders' = Gone(k)
      BY <1>4 DEF Leave
    <2>2. \A j \in Resting' : j \in Resting /\ orders'[j] = orders[j]
      BY <2>1 DEF Gone, Resting, TypeInv
    <2>3. Settled => Settled'
      BY <2>1, <2>2 DEF Settled
    <2>4. \A size \in [Symbols -> Nat] : Ceiling(size) => Ceiling(size)'
      BY <2>1, <2>2 DEF Ceiling, Worth, Share
    <2> QED BY <2>1, <2>3, <2>4 DEF ExposureInv
  <1>5. ASSUME NEW s \in Symbols, PriceMoves(s) PROVE ExposureInv'
    BY <1>5 DEF PriceMoves, ExposureInv
  <1>6. CASE UNCHANGED vars
    BY <1>1, <1>6 DEF vars
  <1>7. ASSUME NEW s \in Symbols, NEW target \in Targets, SubmitFails(s, target)
        PROVE  ExposureInv'
    BY <1>1, <1>7 DEF SubmitFails, vars
  <1>8. CASE TimePasses
    BY <1>1, <1>8 DEF TimePasses
  <1> QED BY <1>2, <1>3, <1>4, <1>5, <1>6, <1>7, <1>8 DEF Next

-----------------------------------------------------------------------------
(* The invariant, and the theorems.                                        *)

(* A flat account with no order is where it starts.                        *)
LEMMA RiskInit == Init => RiskInv
  <1> SUFFICES ASSUME Init PROVE RiskInv
    OBVIOUS
  <1>1. TypeInv
    BY TypeInit
  <1>2. RateInv
    <2>1. recent = accepted /\ \A a \in Ages : recent[a] = 0
      BY DEF Init
    <2>2. Within(recent) = 0
      BY <2>1, AgesFinite, SumZero DEF Within
    <2> QED BY <2>1, <2>2, Caps DEF RateInv
  <1>3. Held = {} /\ Resting = {}
    BY DEF Init, Held, Resting
  <1>4. CoinsInv
    BY <1>3 DEF CoinsInv, Coins, Ordered
  <1>5. Settled
    BY <1>3 DEF Settled, Init
  <1>6. ExposureInv
    BY <1>1, <1>5, CeilingInit DEF ExposureInv
  <1> QED BY <1>1, <1>2, <1>4, <1>6 DEF RiskInv

(* The invariant of the account and its limits.                            *)
LEMMA RiskInvariant == Spec => []RiskInv
  <1>1. RiskInv /\ [Next]_vars => RiskInv'
    BY TypeStep, RateStep, CoinsStep, ExposureStep DEF RiskInv
  <1> QED BY <1>1, RiskInit, PTL DEF Spec

(* TypeInv: positions, prices, orders and the two counts by age are well   *)
(* typed, through fills, flips and an equity that falls below nothing.     *)
THEOREM TypeCorrect == Spec => []TypeInv
  <1>1. RiskInv => TypeInv
    BY DEF RiskInv
  <1> QED BY <1>1, RiskInvariant, PTL

(* No 60 seconds see more orders come to rest than the cap allows, however *)
(* submissions, retries and time interleave.                               *)
THEOREM RateLimited == Spec => []AcceptedWithinRate
  <1>1. RiskInv => AcceptedWithinRate
    BY DEF RiskInv, RateInv, AcceptedWithinRate
  <1> QED BY <1>1, RiskInvariant, PTL

(* An order to close is never refused for its own risk or size, and nor is *)
(* it for another position near liquidation; without equity an approval is *)
(* worth no more than the cap's share of a dollar.                         *)
THEOREM Closable == Spec => []CloseIsNeverTooBig
  <1>1. RiskInv => CloseIsNeverTooBig
    BY CloseAlways DEF RiskInv
  <1> QED BY <1>1, RiskInvariant, PTL

(* What the account holds, from what it and its orders may come to hold.   *)
LEMMA ExposureFollows == RiskInv => ExposureWithinCaps
  <1> SUFFICES ASSUME RiskInv, Held # {} PROVE
        /\ Cardinality(Held) <= MaxPositions + MaxOpenOrders - 1
        /\ ~moved /\ ~doubled =>
             /\ \A s \in Symbols : Abs(pos[s]) * mark[s] <= Share
             /\ Worth(pos, mark) <= MaxLeverage * equity + (MaxOpenOrders - 1) * Share
    BY DEF ExposureWithinCaps, Worth
  <1>1. TypeInv /\ CoinsInv /\ ExposureInv
    BY DEF RiskInv
  <1>2. Held \subseteq Coins
    BY DEF Coins
  <1>3. MaxOpenOrders > 0 /\ Cardinality(Coins) <= MaxPositions + MaxOpenOrders - 1
    BY <1>1, <1>2 DEF CoinsInv
  <1>4. IsFiniteSet(Coins) /\ Cardinality(Coins) \in Nat /\ Cardinality(Held) \in Nat
    BY <1>1, CoinsFinite
  <1>5. Cardinality(Held) <= Cardinality(Coins)
    BY <1>2, <1>4, FS_Subset
  <1>6. Cardinality(Held) <= MaxPositions + MaxOpenOrders - 1
    BY <1>3, <1>4, <1>5, Caps
  <1>7. ASSUME ~moved, ~doubled
        PROVE  /\ \A s \in Symbols : Abs(pos[s]) * mark[s] <= Share
               /\ Worth(pos, mark) <= MaxLeverage * equity + (MaxOpenOrders - 1) * Share
    <2>1. PICK size \in [Symbols -> Nat] : Ceiling(size)
      BY <1>1, <1>7 DEF ExposureInv
    <2> DEFINE f == [s \in Symbols |-> Abs(pos[s]) * mark[s]]
               g == [s \in Symbols |-> Abs(size[s]) * mark[s]]
               c == MaxLeverage * equity + (MaxOpenOrders - 1) * Share
    <2>2. \A s \in Symbols :
            /\ Abs(pos[s]) \in Nat /\ size[s] \in Nat /\ mark[s] \in Nat
            /\ Abs(pos[s]) <= size[s] /\ size[s] * mark[s] <= Share
      BY <1>1, <2>1, SizesAndPrices, AbsNat DEF Ceiling
    <2>3. \A s \in Symbols :
            /\ f[s] \in Int /\ g[s] \in Int /\ f[s] <= g[s]
            /\ g[s] = size[s] * mark[s]
      <3> TAKE s \in Symbols
      <3>1. Abs(pos[s]) * mark[s] <= size[s] * mark[s]
        BY <2>2, Grows
      <3>2. Abs(pos[s]) * mark[s] \in Int /\ size[s] * mark[s] \in Int
        BY <2>2
      <3>3. Abs(size[s]) = size[s]
        BY <2>2 DEF Abs
      <3> QED BY <3>1, <3>2, <3>3
    <2>4. Share \in Int /\ c \in Int
      <3>1. /\ MaxLeverage \in Int /\ equity \in Int /\ MaxOpenOrders - 1 \in Int
            /\ Share \in Int
        BY <1>1, Caps, ShareNat DEF TypeInv
      <3>2. MaxLeverage * equity \in Int /\ (MaxOpenOrders - 1) * Share \in Int
        BY <3>1
      <3> QED BY <3>1, <3>2
    <2>5. \A s \in Symbols : f[s] <= Share
      <3> TAKE s \in Symbols
      <3>1. g[s] <= Share
        BY <2>2, <2>3
      <3>2. f[s] \in Int /\ g[s] \in Int /\ f[s] <= g[s]
        BY <2>3
      <3> HIDE DEF f, g
      <3> QED BY <2>4, <3>1, <3>2
    <2>6. SumFunctionOnSet(g, Symbols) <= c
      BY <1>3, <2>1 DEF Ceiling, Worth
    <2>7. SumFunctionOnSet(f, Symbols) <= c
      <3> HIDE DEF f, g, c
      <3>1. SumFunctionOnSet(f, Symbols) <= SumFunctionOnSet(g, Symbols)
        BY <2>3, Caps, SumMonotone
      <3>2. SumFunctionOnSet(f, Symbols) \in Int /\ SumFunctionOnSet(g, Symbols) \in Int
        BY <2>3, Caps, SumInt
      <3> QED BY <2>4, <2>6, <3>1, <3>2
    <2> QED BY <2>5, <2>7 DEF Worth
  <1> QED BY <1>6, <1>7

(* Wherever prices go, the account holds no more positions than the cap    *)
(* and the other orders that may rest; while prices and orders keep still, *)
(* no position outgrows its cap, and leverage exceeds its own by no more   *)
(* than one such position for each other order.                            *)
THEOREM ExposureCapped == Spec => []ExposureWithinCaps
  BY RiskInvariant, ExposureFollows, PTL
=============================================================================
