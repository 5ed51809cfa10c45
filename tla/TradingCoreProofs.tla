------------------------- MODULE TradingCoreProofs --------------------------
(***************************************************************************)
(* Proofs about TradingCore, for any symbols, slots, entries and caps, and *)
(* about the judge of its reconciler (Reconciliation).                     *)
(***************************************************************************)
EXTENDS Reconciliation, FiniteSetTheorems, TLAPS

(* A size of the other sign or smaller is still a size.                    *)
LEMMA AbsType == \A n \in Int : Abs(n) \in Nat
  BY DEF Abs

(* The exchange keeps its types.                                           *)
LEMMA MarketType ==
  ASSUME TypeOK, NEW o \in Oids, Fill(o) \/ DropReduceOnly(o)
  PROVE  TypeOK'
  <1> USE DEF exchange, cache, router, history
  <1>1. CASE Fill(o)
    <2>1. book[o] \in Order
      BY <1>1 DEF Fill, Resting, TypeOK
    <2> DEFINE unit == Sign(book[o].size)
    <2>2. unit \in Int /\ book[o].size - unit \in Int
      BY <2>1 DEF Order, Sign
    <2>3. pos' \in [Symbols -> Int]
      BY <1>1, <2>1, <2>2 DEF Fill, TypeOK, Order
    <2>4. book' \in [Oids -> Order \cup {NoOrder}]
      <3>1. CASE book[o].size = unit
        BY <1>1, <3>1 DEF Fill, Gone, TypeOK
      <3>2. CASE book[o].size # unit
        <4>1. [book[o] EXCEPT !.size = @ - unit] \in Order
          BY <2>1, <2>2, <3>2 DEF Order
        <4>2. book' = [book EXCEPT ![o] = [book[o] EXCEPT !.size = @ - unit]]
          BY <1>1, <3>2 DEF Fill
        <4> QED BY <4>1, <4>2 DEF TypeOK
      <3> QED BY <3>1, <3>2
    <2> QED BY <1>1, <2>3, <2>4 DEF Fill, TypeOK
  <1>2. CASE DropReduceOnly(o)
    BY <1>2 DEF DropReduceOnly, Gone, TypeOK
  <1> QED BY <1>1, <1>2

(* The bar loop moves between its states.                                  *)
LEMMA BarUpdates ==
  ASSUME NEW b \in BarStates, NEW s \in Symbols, NEW t \in Int
  PROVE  /\ \A at \in {"idle", "read_state", "read_orders", "first", "retry"} :
              [b EXCEPT !.at = at] \in BarStates
         /\ [b EXCEPT !.at = "read_state", !.symbol = s, !.target = t] \in BarStates
         /\ [b EXCEPT !.at = "idle", !.target = 0, !.order = NoOrder] \in BarStates
         /\ \A order \in Order :
              [b EXCEPT !.at = "first", !.order = order] \in BarStates
  <1>0. NoOrder \in Order \cup {NoOrder}
    OBVIOUS
  <1>1. \A at \in {"idle", "read_state", "read_orders", "first", "retry"} :
          [b EXCEPT !.at = at] \in BarStates
    BY DEF BarStates
  <1>2. [b EXCEPT !.at = "read_state", !.symbol = s, !.target = t] \in BarStates
    BY DEF BarStates
  <1>3. [b EXCEPT !.at = "idle", !.target = 0, !.order = NoOrder] \in BarStates
    <2>1. ASSUME NEW order \in Order \cup {NoOrder}
          PROVE  [b EXCEPT !.at = "idle", !.target = 0, !.order = order] \in BarStates
      <3> HIDE DEF Order
      <3>1. 0 \in Int
        OBVIOUS
      <3>2. b \in [at : {"idle", "read_state", "read_orders", "first", "retry"},
               symbol : Symbols, target : Int, order : Order \cup {NoOrder}]
        BY DEF BarStates
      <3> QED BY <3>1, <3>2 DEF BarStates
    <2> QED BY <1>0, <2>1
  <1>4. ASSUME NEW order \in Order
        PROVE  [b EXCEPT !.at = "first", !.order = order] \in BarStates
    <2>1. order \in Order \cup {NoOrder}
      OBVIOUS
    <2> HIDE DEF Order
    <2> QED BY <2>1 DEF BarStates
  <1> QED BY <1>1, <1>2, <1>3, <1>4

(* The bar loop keeps its types.                                           *)
LEMMA BarType ==
  ASSUME TypeOK, BarStep \/ \E s \in Symbols : BarClose(s)
  PROVE  TypeOK'
  <1> USE SizesAssumption DEF exchange, cache, router, history
  <1>a. bar \in BarStates /\ bar.target \in Int /\ bar.symbol \in Symbols
    BY DEF TypeOK, BarStates
  <1>b. BarIdle \in BarStates
    BY <1>a, BarUpdates DEF BarIdle
  <1>c. Abs(bar.target) \in Nat
    BY <1>a, AbsType
  <1>d. \A t \in {"bar", "rec"} : Read(t) \in [{"bar", "rec"} -> [Symbols -> Int]]
    BY DEF Read, Flat, TypeOK
  <1>1. ASSUME NEW s \in Symbols, BarClose(s) PROVE TypeOK'
    <2>1. PICK t \in Int : bar' = [bar EXCEPT !.at = "read_state", !.symbol = s, !.target = t]
      <3>1. PICK t \in {0, cachePos[s]} \cup {e \in Entries : cachePos[s] = 0} :
              bar' = [bar EXCEPT !.at = "read_state", !.symbol = s, !.target = t]
        BY <1>1 DEF BarClose
      <3>2. cachePos[s] \in Int
        BY DEF TypeOK
      <3>3. t = 0 \/ t = cachePos[s] \/ t \in Entries
        BY <3>1
      <3>4. t \in Int
        BY <3>2, <3>3, SizesAssumption
      <3> QED BY <3>1, <3>4
    <2>2. [bar EXCEPT !.at = "read_state", !.symbol = s, !.target = t] \in BarStates
      BY <1>a, BarUpdates, Zenon
    <2> QED BY <1>1, <2>1, <2>2 DEF BarClose, TypeOK
  <1>2. CASE BarReadState
    <2>1. bar' \in BarStates
      BY <1>2, <1>a, BarUpdates DEF BarReadState
    <2> QED BY <1>2, <2>1 DEF BarReadState, TypeOK
  <1>3. CASE BarReadFails
    BY <1>3, <1>b, <1>d DEF BarReadFails, TypeOK
  <1>4. CASE BarReadOrders
    <2>1. cachePos' \in [Symbols -> Int] /\ cacheOrders' \subseteq Oids
      BY <1>4 DEF BarReadOrders, WriteCache, TypeOK, Resting
    <2>2. bar' \in BarStates
      <3> DEFINE current == cachePos'[bar.symbol]
                 order == [symbol |-> bar.symbol, size |-> bar.target - current,
                           reduceOnly |-> ReduceOnly(current, bar.target)]
      <3>1. CASE order.size # 0 /\ bar' = [bar EXCEPT !.at = "first", !.order = order]
        <4>1. current \in Int
          BY <2>1, <1>a
        <4>2. order \in Order
          BY <1>a, <3>1, <4>1 DEF Order, ReduceOnly
        <4> HIDE DEF order
        <4> QED BY <1>a, <3>1, <4>2, BarUpdates
      <3>2. CASE bar' = BarIdle
        BY <3>2, <1>b
      <3> QED BY <1>4, <3>1, <3>2 DEF BarReadOrders, WriteCache
    <2>3. aUsed' \in Nat
      BY <1>4, <1>c DEF BarReadOrders, WriteCache, TypeOK
    <2> QED BY <1>4, <1>d, <2>1, <2>2, <2>3 DEF BarReadOrders, WriteCache, TypeOK
  <1>5. CASE BarNoQuote
    BY <1>5, <1>b, <1>c, <1>d DEF BarNoQuote, WriteCache, TypeOK, Resting
  <1>6. CASE WouldTake
    <2>1. bar' \in BarStates
      BY <1>6, <1>a, BarUpdates DEF WouldTake
    <2> QED BY <1>6, <2>1 DEF WouldTake, TypeOK
  <1>7. CASE Refused
    BY <1>7, <1>b, <1>c DEF Refused, BarDone, TypeOK
  <1>8. ASSUME NEW o \in Oids, Accepted(o) PROVE TypeOK'
    <2>1. bar.order \in Order \cup {NoOrder}
      BY <1>a DEF BarStates
    <2> QED BY <1>8, <1>b, <1>c, <2>1 DEF Accepted, BarDone, TypeOK
  <1>9. ASSUME NEW o \in Oids, SubmitRaises(o) PROVE TypeOK'
    <2>1. bar.order \in Order \cup {NoOrder}
      BY <1>a DEF BarStates
    <2> QED BY <1>9, <1>b, <1>c, <2>1 DEF SubmitRaises, BarDone, TypeOK
  <1> QED BY <1>1, <1>2, <1>3, <1>4, <1>5, <1>6, <1>7, <1>8, <1>9 DEF BarStep

(* Ageing, cancelling and forgetting orders keeps the types.               *)
LEMMA StaleType ==
  ASSUME TypeOK, StaleStep \/ StalePass \/ \E o \in Oids : Age(o)
  PROVE  TypeOK'
  <1> USE DEF exchange, cache, router, history
  <1>1. CASE StalePass
    BY <1>1 DEF StalePass, TypeOK
  <1>2. ASSUME NEW o \in Oids, Age(o) PROVE TypeOK'
    BY <1>2 DEF Age, TypeOK
  <1>3. ASSUME NEW o \in Oids, StaleCancel(o) PROVE TypeOK'
    BY <1>3 DEF StaleCancel, Forget, Gone, TypeOK
  <1>4. ASSUME NEW o \in Oids, StaleCancelRefused(o) PROVE TypeOK'
    BY <1>4 DEF StaleCancelRefused, Forget, TypeOK
  <1>5. ASSUME NEW o \in Oids, StaleCancelRaises(o) PROVE TypeOK'
    BY <1>5 DEF StaleCancelRaises, Gone, TypeOK
  <1> QED BY <1>1, <1>2, <1>3, <1>4, <1>5 DEF StaleStep

(* Setting the flag, or finding it set, keeps the types.                   *)
LEMMA SetFlagType ==
  ASSUME TypeOK, SetFlag
  PROVE  halted' \in BOOLEAN /\ halt' \in HaltStates
  <1>1. [at |-> "list_orders", todo |-> {}] \in HaltStates
    BY DEF HaltStates
  <1>2. CASE halted
    BY <1>2 DEF SetFlag, TypeOK
  <1>3. CASE ~halted
    BY <1>1, <1>3 DEF SetFlag, TypeOK
  <1> QED BY <1>2, <1>3

(* Setting the flag and every step of the halt keep the types.             *)
LEMMA HaltType ==
  ASSUME TypeOK, HaltStep \/ WatchdogHalt
  PROVE  TypeOK'
  <1> USE DEF exchange, cache, router, history, HaltUnchanged
  <1>a. Resting \subseteq Oids /\ Held \subseteq Symbols
    BY DEF Resting, Held
  <1>b. halt.todo \subseteq Oids \cup Symbols
    BY DEF TypeOK, HaltStates
  <1>1. CASE WatchdogHalt
    BY <1>1, SetFlagType DEF WatchdogHalt, TypeOK
  <1>2. CASE HaltListOrders
    BY <1>2, <1>a DEF HaltListOrders, HaltGoesOn, TypeOK, HaltStates
  <1>3. CASE HaltListPositions
    BY <1>3, <1>a DEF HaltListPositions, HaltGoesOn, TypeOK, HaltStates
  <1>4. ASSUME NEW o \in Oids, HaltCancel(o) PROVE TypeOK'
    BY <1>4, <1>b DEF HaltCancel, HaltGoesOn, Gone, TypeOK, HaltStates
  <1>5. ASSUME NEW s \in Symbols, HaltClose(s) PROVE TypeOK'
    BY <1>5, <1>b DEF HaltClose, HaltGoesOn, TypeOK, HaltStates
  <1> QED BY <1>1, <1>2, <1>3, <1>4, <1>5 DEF HaltStep

(* The reconciler keeps its types.                                         *)
LEMMA RecType ==
  ASSUME TypeOK, RecStep \/ RecStart
  PROVE  TypeOK'
  <1> USE DEF exchange, cache, router, history
  <1>a. RecIdle \in RecStates
    BY DEF RecIdle, Flat, RecStates
  <1>b. Read("rec") \in [{"bar", "rec"} -> [Symbols -> Int]]
    BY DEF Read, Flat, TypeOK
  <1>c. rec \in RecStates
    BY DEF TypeOK
  <1>d. Resting \subseteq Oids
    BY DEF Resting
  <1>1. CASE RecStart
    <2>1. rec' \in RecStates
      BY <1>1 DEF RecStart, RecStates, TypeOK
    <2> QED BY <1>1, <2>1 DEF RecStart, TypeOK
  <1>2. CASE RecReadState
    <2>1. rec' \in RecStates
      BY <1>2, <1>c DEF RecReadState, RecStates
    <2>2. seen' \in [{"bar", "rec"} -> [Symbols -> Int]]
      BY <1>2 DEF RecReadState, TypeOK
    <2> HIDE DEF RecStates
    <2> QED BY <1>2, <2>1, <2>2 DEF RecReadState, TypeOK
  <1>3. CASE RecReadFails
    BY <1>3, <1>a, <1>b, SetFlagType DEF RecReadFails, TypeOK
  <1>4. CASE RecReadOrders
    <2>1. rec' \in RecStates
      BY <1>4, <1>a, <1>c DEF RecReadOrders, WriteCache, RecStates
    <2>2. /\ cachePos' \in [Symbols -> Int]
          /\ seen' \in [{"bar", "rec"} -> [Symbols -> Int]]
      BY <1>4, <1>b DEF RecReadOrders, WriteCache, TypeOK
    <2> QED BY <1>4, <1>d, <2>1, <2>2 DEF RecReadOrders, WriteCache, TypeOK
  <1>5. CASE RecHalt
    BY <1>5, <1>a, SetFlagType DEF RecHalt, TypeOK
  <1>6. CASE RecDies
    <2>1. rec' \in RecStates
      BY <1>6, <1>a DEF RecDies, RecStates
    <2> QED BY <1>6, <2>1 DEF RecDies, TypeOK
  <1>7. CASE RecNote
    BY <1>7, <1>a DEF RecNote, TypeOK
  <1> QED BY <1>1, <1>2, <1>3, <1>4, <1>5, <1>6, <1>7 DEF RecStep

(* Every step keeps every variable within its type.                        *)
LEMMA TypeStep == TypeOK /\ [Next]_vars => TypeOK'
  <1> SUFFICES ASSUME TypeOK, [Next]_vars PROVE TypeOK'
    OBVIOUS
  <1>1. CASE UNCHANGED vars
    BY <1>1 DEF vars, exchange, cache, router, history, TypeOK
  <1>2. CASE Next
    BY <1>2, MarketType, BarType, StaleType, HaltType, RecType DEF Next, Market
  <1> QED BY <1>1, <1>2

(* The account starts well typed.                                          *)
LEMMA TypeInit == Init => TypeOK
  <1> SUFFICES ASSUME Init PROVE TypeOK
    OBVIOUS
  <1>0. Flat \in [Symbols -> Int]
    BY DEF Flat
  <1>1. bar \in BarStates
    BY DEF Init, BarStates
  <1>2. rec \in RecStates
    BY <1>0 DEF Init, RecIdle, RecStates
  <1>3. halt \in HaltStates
    BY DEF Init, HaltStates
  <1>4. seen \in [{"bar", "rec"} -> [Symbols -> Int]]
    BY <1>0 DEF Init
  <1> QED BY <1>0, <1>1, <1>2, <1>3, <1>4 DEF Init, TypeOK

(* TypeOK: whatever the tasks do and in whatever order, sizes stay         *)
(* integers, the router ages only orders it knows, and every loop holds    *)
(* what it iterates over.                                                  *)
THEOREM TypeCorrect == Spec => []TypeOK
  BY TypeInit, TypeStep, PTL DEF Spec

-----------------------------------------------------------------------------
(* Open orders.  Only the bar loop adds one, and the cap it checked still   *)
(* holds when the order lands: since the refresh every other step can only *)
(* have taken orders away.                                                 *)

RoomForOne ==
  bar.at \in {"first", "retry"} => Cardinality(Resting) < MaxOpenOrders

CapInv == OpenOrdersWithinCap /\ RoomForOne

(* Slots are finite, so the resting orders can be counted.                 *)
LEMMA RestingFinite ==
  /\ IsFiniteSet(Resting)
  /\ Cardinality(Resting) \in Nat
  <1>1. Resting \subseteq Oids
    BY DEF Resting
  <1> QED BY <1>1, SlotsAssumption, FS_Subset, FS_CardinalityType

(* A step that leaves no new order resting, and does not let the bar loop  *)
(* pass its check, keeps the caps.                                         *)
LEMMA FewerOrders ==
  ASSUME CapInv, Resting' \subseteq Resting,
         bar'.at \in {"first", "retry"} => bar.at \in {"first", "retry"}
  PROVE  CapInv'
  <1>1. Cardinality(Resting') <= Cardinality(Resting)
    BY RestingFinite, FS_Subset
  <1>2. Cardinality(Resting') \in Nat
    BY RestingFinite, FS_Subset, FS_CardinalityType
  <1> QED BY <1>1, <1>2, RestingFinite, SizesAssumption
          DEF CapInv, OpenOrdersWithinCap, RoomForOne

(* An order that lands uses the room the check saw.                        *)
LEMMA OneMoreOrder ==
  ASSUME CapInv, NEW o \in Oids, bar.at \in {"first", "retry"},
         Resting' \subseteq Resting \cup {o}, bar'.at = "idle"
  PROVE  CapInv'
  <1>1. /\ IsFiniteSet(Resting \cup {o})
        /\ Cardinality(Resting \cup {o}) <= Cardinality(Resting) + 1
    <2>1. IsFiniteSet(Resting) /\ Cardinality(Resting) \in Nat
      BY RestingFinite
    <2> HIDE DEF Resting
    <2>2. /\ IsFiniteSet(Resting \cup {o})
          /\ \/ Cardinality(Resting \cup {o}) = Cardinality(Resting)
             \/ Cardinality(Resting \cup {o}) = Cardinality(Resting) + 1
      BY <2>1, FS_AddElement
    <2> QED BY <2>1, <2>2
  <1>2. /\ Cardinality(Resting \cup {o}) \in Nat
        /\ Cardinality(Resting') \in Nat
        /\ Cardinality(Resting') <= Cardinality(Resting \cup {o})
    BY <1>1, FS_Subset, FS_CardinalityType
  <1> QED BY <1>1, <1>2, RestingFinite, SizesAssumption
          DEF CapInv, OpenOrdersWithinCap, RoomForOne

(* Every step keeps the cap and the room for the order being sent.         *)
LEMMA CapStep == TypeOK /\ CapInv /\ [Next]_vars => CapInv'
  <1> SUFFICES ASSUME TypeOK, CapInv, [Next]_vars PROVE CapInv'
    OBVIOUS
  <1> USE DEF exchange, cache, router, history
  <1>a. ASSUME UNCHANGED book PROVE Resting' \subseteq Resting
    BY <1>a DEF Resting
  <1>b. ASSUME NEW o \in Oids, book' = Gone(o) PROVE Resting' \subseteq Resting
    BY <1>b DEF Resting, Gone, TypeOK
  <1>c. BarIdle.at = "idle"
    <2>1. bar \in BarStates
      BY DEF TypeOK
    <2> QED BY <2>1 DEF BarStates, BarIdle
  <1>1. CASE UNCHANGED vars
    BY <1>1, <1>a, FewerOrders DEF vars
  <1>2. ASSUME NEW o \in Oids, Fill(o) PROVE CapInv'
    <2>1. Resting' \subseteq Resting
      BY <1>2, <1>b DEF Fill, Resting, TypeOK
    <2> QED BY <1>2, <2>1, FewerOrders DEF Fill
  <1>3. ASSUME NEW o \in Oids, DropReduceOnly(o) PROVE CapInv'
    BY <1>3, <1>b, FewerOrders DEF DropReduceOnly
  <1>4. CASE BarReadState \/ \E s \in Symbols : BarClose(s)
    <2>1. UNCHANGED book /\ bar'.at \in {"read_state", "read_orders"}
      BY <1>4 DEF BarReadState, BarClose, TypeOK, BarStates
    <2> QED BY <2>1, <1>a, FewerOrders
  <1>5. CASE BarReadFails \/ BarNoQuote \/ Refused
    <2>1. UNCHANGED book /\ bar' = BarIdle
      BY <1>5 DEF BarReadFails, BarNoQuote, WriteCache, Refused, BarDone
    <2> QED BY <2>1, <1>a, <1>c, FewerOrders
  <1>6. CASE BarReadOrders
    <2>1. UNCHANGED book /\ cacheOrders' = Resting
      BY <1>6 DEF BarReadOrders, WriteCache
    <2>2. CASE bar' = BarIdle
      BY <2>1, <2>2, <1>a, <1>c, FewerOrders
    <2>3. CASE Approved(bar.symbol, bar.target)
      <3>1. Resting' = Resting
        BY <2>1 DEF Resting
      <3>2. Cardinality(Resting) < MaxOpenOrders
        BY <2>1, <2>3 DEF Approved
      <3> QED BY <3>1, <3>2, RestingFinite, SizesAssumption
              DEF CapInv, OpenOrdersWithinCap, RoomForOne
    <2> QED BY <1>6, <2>2, <2>3 DEF BarReadOrders, WriteCache
  <1>7. CASE WouldTake
    BY <1>7, <1>a, FewerOrders DEF WouldTake
  <1>8. ASSUME NEW o \in Oids, Accepted(o) \/ SubmitRaises(o) PROVE CapInv'
    <2>1. /\ bar.at \in {"first", "retry"}
          /\ book' = [book EXCEPT ![o] = bar.order]
          /\ bar' = BarIdle
      BY <1>8 DEF Accepted, SubmitRaises, BarDone
    <2>2. Resting' \subseteq Resting \cup {o}
      BY <2>1 DEF Resting, TypeOK
    <2> QED BY <2>1, <2>2, <1>c, OneMoreOrder
  <1>9. CASE StaleStep
    <2>1. ASSUME NEW o \in Oids, StaleCancel(o) PROVE CapInv'
      BY <2>1, <1>b, FewerOrders DEF StaleCancel
    <2>2. ASSUME NEW o \in Oids, StaleCancelRefused(o) PROVE CapInv'
      BY <2>2, <1>a, FewerOrders DEF StaleCancelRefused
    <2>3. ASSUME NEW o \in Oids, StaleCancelRaises(o) PROVE CapInv'
      BY <2>3, <1>a, <1>b, FewerOrders DEF StaleCancelRaises
    <2> QED BY <1>9, <2>1, <2>2, <2>3 DEF StaleStep
  <1>10. CASE StalePass \/ (\E o \in Oids : Age(o))
    BY <1>10, <1>a, FewerOrders DEF StalePass, Age
  <1>11. CASE HaltStep \/ WatchdogHalt
    <2> USE DEF HaltUnchanged
    <2>1. CASE HaltListOrders \/ HaltListPositions \/ WatchdogHalt
      BY <2>1, <1>a, FewerOrders DEF HaltListOrders, HaltListPositions, WatchdogHalt
    <2>2. ASSUME NEW o \in Oids, HaltCancel(o) PROVE CapInv'
      BY <2>2, <1>b, FewerOrders DEF HaltCancel
    <2>3. ASSUME NEW s \in Symbols, HaltClose(s) PROVE CapInv'
      BY <2>3, <1>a, FewerOrders DEF HaltClose
    <2> QED BY <1>11, <2>1, <2>2, <2>3 DEF HaltStep
  <1>12. CASE RecStep \/ RecStart
    BY <1>12, <1>a, FewerOrders
       DEF RecStep, RecStart, RecReadState, RecReadFails, RecReadOrders, WriteCache, RecNote,
           RecHalt, RecDies
  <1> QED BY <1>1, <1>2, <1>3, <1>4, <1>5, <1>6, <1>7, <1>8, <1>9, <1>10, <1>11, <1>12
          DEF Next, Market, BarStep

(* OpenOrdersWithinCap: for any symbols, caps and slots, with failures and *)
(* halts anywhere, the check of manager.py:223 on the router's own fresh   *)
(* cache bounds the account's open orders.                                 *)
THEOREM OpenOrdersCapped == Spec => []OpenOrdersWithinCap
  <1>1. Init => CapInv
    <2> SUFFICES ASSUME Init PROVE CapInv
      OBVIOUS
    <2>1. Resting = {} /\ bar.at = "idle"
      BY DEF Init, Resting
    <2> QED BY <2>1, FS_EmptySet, SizesAssumption
            DEF CapInv, OpenOrdersWithinCap, RoomForOne
  <1>2. TypeOK /\ CapInv /\ [Next]_vars => CapInv'
    BY CapStep
  <1>3. CapInv => OpenOrdersWithinCap
    BY DEF CapInv
  <1> QED BY <1>1, <1>2, <1>3, TypeCorrect, PTL DEF Spec

-----------------------------------------------------------------------------
(* What a halt leaves behind.  From the listing of orders on, every resting *)
(* order that the halt is not about to cancel landed after the listing; the *)
(* one request that can land is the one the bar loop was sending, because   *)
(* no check passes once the flag is set.                                   *)

Listed == halt.at \in {"cancel", "list_positions", "close", "done"}

(* The resting orders the halt will leave alone.                           *)
Left == {o \in Resting : ~(halt.at = "cancel" /\ o \in halt.todo)}

SurvivorInv ==
  /\ ~halted => halt.at = "idle"
  /\ Listed => /\ \A o, p \in Left : o = p
               /\ Sending => Left = {}

(* A step that leaves the halt alone, adds no order and starts no request. *)
LEMMA SurvivorKept ==
  ASSUME SurvivorInv, Resting' \subseteq Resting, UNCHANGED <<halted, halt>>,
         Sending' => Sending \/ ~halted
  PROVE  SurvivorInv'
  <1>1. Left' \subseteq Left
    BY DEF Left
  <1>2. Listed' => Listed /\ halted
    BY DEF Listed, SurvivorInv
  <1> QED BY <1>1, <1>2 DEF SurvivorInv

(* A step that sets the flag when it was not set.                          *)
LEMMA SurvivorFlag ==
  ASSUME SurvivorInv, SetFlag, UNCHANGED <<book, bar>>
  PROVE  SurvivorInv'
  <1>1. CASE halted
    <2>1. Resting' = Resting /\ Sending' = Sending /\ UNCHANGED <<halted, halt>>
      BY <1>1 DEF SetFlag, Resting, Sending
    <2> QED BY <2>1, SurvivorKept
  <1>2. CASE ~halted
    BY <1>2 DEF SetFlag, SurvivorInv, Listed
  <1> QED BY <1>1, <1>2

(* The order that lands finds nothing left.                                *)
LEMMA SurvivorLands ==
  ASSUME SurvivorInv, NEW o \in Oids, Sending, ~Sending',
         Resting' \subseteq Resting \cup {o}, UNCHANGED <<halted, halt>>
  PROVE  SurvivorInv'
  <1>1. Left' \subseteq Left \cup {o}
    BY DEF Left
  <1>2. Listed' => Listed
    BY DEF Listed
  <1> QED BY <1>1, <1>2 DEF SurvivorInv

(* The halt's own steps leave nothing new.                                 *)
LEMMA SurvivorHalts ==
  ASSUME TypeOK, SurvivorInv, HaltStep
  PROVE  SurvivorInv'
  <1> USE DEF HaltUnchanged, HaltGoesOn
  <1>a. Sending' = Sending /\ halted' = halted
    BY DEF HaltStep, HaltListOrders, HaltListPositions, HaltCancel, HaltClose, Sending
  <1>b. halted
    BY DEF HaltStep, HaltListOrders, HaltListPositions, HaltCancel, HaltClose, SurvivorInv
  <1>1. CASE HaltListOrders
    <2>1. Resting' = Resting
      BY <1>1 DEF HaltListOrders, exchange, Resting
    <2>2. Left' = {}
      BY <1>1, <2>1 DEF HaltListOrders, Left, TypeOK, HaltStates
    <2> QED BY <1>a, <1>b, <2>2 DEF SurvivorInv
  <1>2. ASSUME NEW o \in Oids, HaltCancel(o) PROVE SurvivorInv'
    <2>1. Resting' = Resting \ {o}
      BY <1>2 DEF HaltCancel, Gone, Resting, TypeOK
    <2>2. halt'.todo = halt.todo \ {o} /\ halt'.at = "list_positions" => halt'.todo = {}
      BY <1>2 DEF HaltCancel
    <2>3. halt'.at = IF halt'.todo = {} THEN "list_positions" ELSE "cancel"
      BY <1>2 DEF HaltCancel
    <2>4. Left' \subseteq Left
      BY <1>2, <2>1, <2>2, <2>3 DEF HaltCancel, Left
    <2>5. Listed
      BY <1>2 DEF HaltCancel, Listed
    <2> QED BY <1>a, <1>b, <2>4, <2>5 DEF SurvivorInv
  <1>3. CASE HaltListPositions \/ \E s \in Symbols : HaltClose(s)
    <2>1. Resting' = Resting
      BY <1>3 DEF HaltListPositions, HaltClose, exchange, Resting
    <2>2. halt.at # "cancel" /\ Listed /\ halt'.at # "cancel"
      BY <1>3 DEF HaltListPositions, HaltClose, Listed
    <2>3. Left' \subseteq Left
      BY <2>1, <2>2 DEF Left
    <2> QED BY <1>a, <1>b, <2>2, <2>3 DEF SurvivorInv
  <1> QED BY <1>1, <1>2, <1>3 DEF HaltStep

(* Every step keeps what the halt leaves alone to one landed order.        *)
LEMMA SurvivorStep == TypeOK /\ SurvivorInv /\ [Next]_vars => SurvivorInv'
  <1> SUFFICES ASSUME TypeOK, SurvivorInv, [Next]_vars PROVE SurvivorInv'
    OBVIOUS
  <1> USE DEF exchange, cache, router, history
  <1>a. ASSUME UNCHANGED book PROVE Resting' \subseteq Resting
    BY <1>a DEF Resting
  <1>b. ASSUME NEW o \in Oids, book' = Gone(o) PROVE Resting' \subseteq Resting
    BY <1>b DEF Resting, Gone, TypeOK
  <1>c. ASSUME UNCHANGED bar PROVE Sending' = Sending
    BY <1>c DEF Sending
  <1>d. ASSUME bar' = BarIdle PROVE ~Sending'
    BY <1>d DEF Sending, BarIdle, TypeOK, BarStates
  <1>1. CASE UNCHANGED vars
    BY <1>1, <1>a, <1>c, SurvivorKept DEF vars
  <1>2. CASE Market
    <2>1. ASSUME NEW o \in Oids, Fill(o) PROVE SurvivorInv'
      <3>1. Resting' \subseteq Resting
        BY <2>1, <1>b DEF Fill, Resting, TypeOK
      <3> QED BY <2>1, <3>1, <1>c, SurvivorKept DEF Fill
    <2>2. ASSUME NEW o \in Oids, DropReduceOnly(o) PROVE SurvivorInv'
      BY <2>2, <1>b, <1>c, SurvivorKept DEF DropReduceOnly
    <2> QED BY <1>2, <2>1, <2>2 DEF Market
  <1>3. CASE BarReadState \/ \E s \in Symbols : BarClose(s)
    <2>1. /\ UNCHANGED <<book, halted, halt>>
          /\ bar'.at \in {"read_state", "read_orders"}
      BY <1>3 DEF BarReadState, BarClose, TypeOK, BarStates
    <2> QED BY <2>1, <1>a, SurvivorKept DEF Sending
  <1>4. CASE BarReadFails \/ BarNoQuote \/ Refused
    <2>1. UNCHANGED <<book, halted, halt>> /\ bar' = BarIdle
      BY <1>4 DEF BarReadFails, BarNoQuote, WriteCache, Refused, BarDone
    <2> QED BY <2>1, <1>a, <1>d, SurvivorKept
  <1>5. CASE BarReadOrders
    <2>1. UNCHANGED <<book, halted, halt>>
      BY <1>5 DEF BarReadOrders, WriteCache
    <2>2. bar' = BarIdle \/ ~halted
      BY <1>5 DEF BarReadOrders, WriteCache, Approved
    <2> QED BY <2>1, <2>2, <1>a, <1>d, SurvivorKept
  <1>6. CASE WouldTake
    <2>1. UNCHANGED <<book, halted, halt>> /\ Sending
      BY <1>6 DEF WouldTake, Sending
    <2> QED BY <2>1, <1>a, SurvivorKept
  <1>7. ASSUME NEW o \in Oids, Accepted(o) \/ SubmitRaises(o) PROVE SurvivorInv'
    <2>1. /\ Sending
          /\ UNCHANGED <<halted, halt>>
          /\ book' = [book EXCEPT ![o] = bar.order]
          /\ bar' = BarIdle
      BY <1>7 DEF Accepted, SubmitRaises, BarDone, Sending
    <2>2. Resting' \subseteq Resting \cup {o}
      BY <2>1 DEF Resting, TypeOK
    <2> QED BY <2>1, <2>2, <1>d, SurvivorLands
  <1>8. CASE StaleStep
    <2>1. ASSUME NEW o \in Oids, StaleCancel(o) PROVE SurvivorInv'
      BY <2>1, <1>b, <1>c, SurvivorKept DEF StaleCancel
    <2>2. ASSUME NEW o \in Oids, StaleCancelRefused(o) PROVE SurvivorInv'
      BY <2>2, <1>a, <1>c, SurvivorKept DEF StaleCancelRefused
    <2>3. ASSUME NEW o \in Oids, StaleCancelRaises(o) PROVE SurvivorInv'
      BY <2>3, <1>a, <1>b, <1>c, SurvivorKept DEF StaleCancelRaises
    <2> QED BY <1>8, <2>1, <2>2, <2>3 DEF StaleStep
  <1>9. CASE StalePass \/ (\E o \in Oids : Age(o))
    BY <1>9, <1>a, <1>c, SurvivorKept DEF StalePass, Age
  <1>10. CASE WatchdogHalt \/ RecReadFails \/ RecHalt
    BY <1>10, SurvivorFlag DEF WatchdogHalt, RecReadFails, RecHalt
  <1>11. CASE RecStart \/ RecReadState \/ RecReadOrders \/ RecNote \/ RecDies
    BY <1>11, <1>a, <1>c, SurvivorKept
       DEF RecStart, RecReadState, RecReadOrders, WriteCache, RecNote, RecDies
  <1> QED BY <1>1, <1>2, <1>3, <1>4, <1>5, <1>6, <1>7, <1>8, <1>9, <1>10, <1>11,
             SurvivorHalts DEF Next, BarStep, RecStep

(* AtMostOneSurvivor: for any number of symbols, slots and open orders, a  *)
(* halt that is through leaves at most the order that was being sent       *)
(* (kill_switch.py:77-135 against order_router.py:263-320).                *)
THEOREM Survivor == Spec => []AtMostOneSurvivor
  <1>1. Init => SurvivorInv
    BY DEF Init, SurvivorInv, Listed
  <1>2. TypeOK /\ SurvivorInv /\ [Next]_vars => SurvivorInv'
    BY SurvivorStep
  <1>3. SurvivorInv => AtMostOneSurvivor
    <2> SUFFICES ASSUME SurvivorInv, halt.at = "done"
                 PROVE  Cardinality(Resting) <= 1
      BY DEF AtMostOneSurvivor
    <2>1. \A o, p \in Resting : o = p
      BY DEF SurvivorInv, Listed, Left
    <2>2. CASE Resting = {}
      <3>1. Cardinality(Resting) = 0
        BY <2>2, FS_EmptySet
      <3> QED BY <3>1
    <2>3. CASE Resting # {}
      <3>1. PICK o \in Resting : Resting = {o}
        BY <2>1, <2>3
      <3>2. Cardinality(Resting) = 1
        BY <3>1, FS_Singleton
      <3> QED BY <3>2
    <2> QED BY <2>2, <2>3
  <1> QED BY <1>1, <1>2, <1>3, TypeCorrect, PTL DEF Spec

-----------------------------------------------------------------------------
(* Requests after the flag.  The first attempt of a bar is checked against *)
(* the flag without a suspension in between, and a retry is never retried. *)

OneRequestInv ==
  /\ OneRequestWhileHalted
  /\ sentHalted > 0 => halted /\ bar.at # "first"

(* Every step keeps the count of requests after the flag.                  *)
LEMMA OneRequestStep == TypeOK /\ OneRequestInv /\ [Next]_vars => OneRequestInv'
  <1> SUFFICES ASSUME TypeOK, OneRequestInv, [Next]_vars PROVE OneRequestInv'
    OBVIOUS
  <1> USE DEF exchange, cache, router, history, OneRequestInv, OneRequestWhileHalted
  <1>a. sentHalted \in Nat
    BY DEF TypeOK
  <1>b. ASSUME UNCHANGED sentHalted, halted => halted',
               bar'.at = "first" => bar.at = "first" \/ ~halted
        PROVE  OneRequestInv'
    BY <1>a, <1>b
  <1>c. ASSUME SetFlag PROVE halted'
    BY <1>c DEF SetFlag
  <1>d. BarIdle.at = "idle"
    BY DEF BarIdle, TypeOK, BarStates
  <1>1. CASE UNCHANGED vars
    BY <1>1, <1>b DEF vars
  <1>2. CASE Market
    BY <1>2, <1>b DEF Market, Fill, DropReduceOnly
  <1>3. CASE WouldTake
    BY <1>3, <1>a DEF WouldTake, TypeOK, BarStates
  <1>4. CASE BarReadState \/ \E s \in Symbols : BarClose(s)
    BY <1>4, <1>b DEF BarReadState, BarClose, TypeOK, BarStates
  <1>5. CASE BarReadOrders
    <2>1. bar' = BarIdle \/ ~halted
      BY <1>5 DEF BarReadOrders, WriteCache, Approved
    <2> QED BY <1>5, <2>1, <1>b, <1>d DEF BarReadOrders, WriteCache
  <1>6. CASE BarReadFails \/ BarNoQuote \/ Refused
    BY <1>6, <1>b, <1>d DEF BarReadFails, BarNoQuote, WriteCache, Refused, BarDone
  <1>7. ASSUME NEW o \in Oids, Accepted(o) \/ SubmitRaises(o) PROVE OneRequestInv'
    BY <1>7, <1>b, <1>d DEF Accepted, SubmitRaises, BarDone
  <1>8. CASE StaleStep \/ StalePass \/ \E o \in Oids : Age(o)
    BY <1>8, <1>b DEF StaleStep, StaleCancel, StaleCancelRefused, StaleCancelRaises,
                      StalePass, Age
  <1>9. CASE HaltStep
    BY <1>9, <1>b DEF HaltStep, HaltListOrders, HaltListPositions, HaltCancel,
                      HaltClose, HaltUnchanged
  <1>10. CASE WatchdogHalt \/ RecReadFails \/ RecHalt
    BY <1>10, <1>b, <1>c DEF WatchdogHalt, RecReadFails, RecHalt
  <1>11. CASE RecStart \/ RecReadState \/ RecReadOrders \/ RecNote \/ RecDies
    BY <1>11, <1>b DEF RecStart, RecReadState, RecReadOrders, WriteCache, RecNote, RecDies
  <1> QED BY <1>1, <1>2, <1>3, <1>4, <1>5, <1>6, <1>7, <1>8, <1>9, <1>10, <1>11
          DEF Next, BarStep, RecStep

(* OneRequestWhileHalted: whatever sets the flag and whenever, at most one *)
(* request follows it, the retry of an order already being sent            *)
(* (order_router.py:299).                                                  *)
THEOREM OneRequest == Spec => []OneRequestWhileHalted
  <1>1. Init => OneRequestInv
    BY DEF Init, OneRequestInv, OneRequestWhileHalted
  <1>2. TypeOK /\ OneRequestInv /\ [Next]_vars => OneRequestInv'
    BY OneRequestStep
  <1>3. OneRequestInv => OneRequestWhileHalted
    BY DEF OneRequestInv
  <1> QED BY <1>1, <1>2, <1>3, TypeCorrect, PTL DEF Spec

-----------------------------------------------------------------------------
(* Which symbol is left.  The bar loop only sends an order in its symbol,  *)
(* and it takes up no other symbol once the flag is set; the positions     *)
(* that appear behind the halt's back are fills of what the halt left.     *)

SymbolInv ==
  /\ Sending => bar.order.symbol = bar.symbol
  /\ ~halted => halt.at = "idle"
  /\ Listed => \A o \in Left : book[o].symbol = bar.symbol
  /\ halt.at = "close" => Held \subseteq halt.todo \cup {bar.symbol}
  /\ halt.at = "done" => Held \subseteq {bar.symbol}

(* A step beside the halt: once the flag is set it neither changes the     *)
(* symbol of the bar loop nor starts a request; an order that rests        *)
(* afterwards rested before or was being sent, and a new position comes    *)
(* from a resting order.                                                   *)
Beside ==
  /\ UNCHANGED <<halted, halt>>
  /\ bar'.symbol = bar.symbol \/ ~halted
  /\ Sending' => bar'.order.symbol = bar'.symbol /\ (Sending \/ ~halted)
  /\ \A o \in Resting' :
       \/ o \in Resting /\ book'[o].symbol = book[o].symbol
       \/ Sending /\ book'[o].symbol = bar.order.symbol
  /\ Held' \subseteq Held \cup {book[o].symbol : o \in Resting}

LEMMA SymbolKept ==
  ASSUME SymbolInv, Beside
  PROVE  SymbolInv'
  <1>1. Listed' => Listed /\ halted /\ bar'.symbol = bar.symbol
    BY DEF Listed, SymbolInv, Beside
  <1>2. Listed' => \A o \in Left' : book'[o].symbol = bar'.symbol
    BY <1>1 DEF Left, SymbolInv, Beside
  <1>3. halt.at \in {"close", "done"} => Held' \subseteq Held \cup {bar.symbol}
    BY DEF Listed, Left, SymbolInv, Beside
  <1> QED BY <1>1, <1>2, <1>3 DEF SymbolInv, Listed, Beside

(* A step that leaves the bar loop and the positions alone and adds no     *)
(* order.                                                                  *)
LEMMA BesideStill ==
  ASSUME TypeOK, SymbolInv, UNCHANGED <<halted, halt, pos>>,
         book' = book \/ \E o \in Oids : book' = Gone(o),
         \/ UNCHANGED bar
         \/ bar'.at \notin {"first", "retry"} /\ bar'.symbol = bar.symbol
  PROVE  Beside
  <1>1. \A o \in Resting' : o \in Resting /\ book'[o].symbol = book[o].symbol
    BY DEF Resting, Gone, TypeOK
  <1>2. Held' = Held
    BY DEF Held
  <1>3. Sending' => bar'.order.symbol = bar'.symbol /\ Sending
    BY DEF Sending, SymbolInv
  <1> QED BY <1>1, <1>2, <1>3 DEF Beside

(* Setting the flag starts with nothing listed.                            *)
LEMMA SymbolFlag ==
  ASSUME TypeOK, SymbolInv, SetFlag, UNCHANGED <<exchange, bar>>
  PROVE  SymbolInv'
  <1>1. CASE halted
    <2>1. Beside
      BY <1>1, BesideStill DEF SetFlag, exchange
    <2> QED BY <2>1, SymbolKept
  <1>2. CASE ~halted
    BY <1>2 DEF SetFlag, SymbolInv, Listed, Sending
  <1> QED BY <1>1, <1>2

(* A fill keeps the symbol of its order and moves only its position.       *)
LEMMA BesideFills ==
  ASSUME TypeOK, SymbolInv, NEW o \in Oids, Fill(o)
  PROVE  Beside
  <1>1. book[o] \in Order /\ o \in Resting
    BY DEF Fill, Resting, TypeOK
  <1>2. ASSUME NEW p \in Resting' PROVE p \in Resting /\ book'[p].symbol = book[p].symbol
    <2>1. CASE p # o
      BY <2>1, <1>2 DEF Fill, Gone, Resting, TypeOK
    <2>2. CASE p = o
      <3>1. book'[o] = NoOrder \/ book'[o] = [book[o] EXCEPT !.size = @ - Sign(book[o].size)]
        BY DEF Fill, Gone, TypeOK
      <3>2. book'[o] # NoOrder
        BY <1>2, <2>2 DEF Resting
      <3> QED BY <1>1, <2>2, <3>1, <3>2 DEF Order
    <2> QED BY <2>1, <2>2
  <1>3. Held' \subseteq Held \cup {book[o].symbol}
    BY DEF Fill, Held, TypeOK
  <1>4. UNCHANGED <<halted, halt, bar>>
    BY DEF Fill
  <1>5. Sending' => bar'.order.symbol = bar'.symbol /\ Sending
    BY <1>4 DEF Sending, SymbolInv
  <1> QED BY <1>1, <1>2, <1>3, <1>4, <1>5 DEF Beside

(* The halt cancels and closes what it listed, and lists what there is.    *)
LEMMA SymbolHalts ==
  ASSUME TypeOK, SymbolInv, HaltStep
  PROVE  SymbolInv'
  <1> USE DEF HaltUnchanged, HaltGoesOn
  <1>a. halted /\ halted' /\ UNCHANGED bar
    BY DEF HaltStep, HaltListOrders, HaltListPositions, HaltCancel, HaltClose, SymbolInv
  <1>b. Sending' => bar'.order.symbol = bar'.symbol
    BY <1>a DEF Sending, SymbolInv
  <1>1. CASE HaltListOrders
    <2>1. Resting' = Resting
      BY <1>1 DEF HaltListOrders, exchange, Resting
    <2>2. Left' = {} \/ Resting = {}
      BY <1>1, <2>1 DEF HaltListOrders, Left
    <2>3. halt'.at \in {"cancel", "list_positions"}
      BY <1>1 DEF HaltListOrders
    <2> QED BY <1>a, <1>b, <2>1, <2>2, <2>3 DEF SymbolInv, Left
  <1>2. ASSUME NEW o \in Oids, HaltCancel(o) PROVE SymbolInv'
    <2>1. Resting' = Resting \ {o} /\ \A p \in Resting' : book'[p] = book[p]
      BY <1>2 DEF HaltCancel, Gone, Resting, TypeOK
    <2>2. halt'.todo = halt.todo \ {o}
      BY <1>2 DEF HaltCancel
    <2>3. halt'.at = IF halt'.todo = {} THEN "list_positions" ELSE "cancel"
      BY <1>2 DEF HaltCancel
    <2>4. Left' \subseteq Left /\ Listed
      BY <1>2, <2>1, <2>2, <2>3 DEF HaltCancel, Left, Listed
    <2>5. Left' \subseteq Resting'
      BY DEF Left
    <2> QED BY <1>a, <1>b, <2>1, <2>3, <2>4, <2>5 DEF SymbolInv
  <1>3. CASE HaltListPositions
    <2>1. Resting' = Resting /\ book' = book /\ Held' = Held
      BY <1>3 DEF HaltListPositions, exchange, Resting, Held
    <2>2. Left' = Left /\ Listed
      BY <1>3, <2>1 DEF HaltListPositions, Left, Listed
    <2>3. halt'.at = (IF Held = {} THEN "done" ELSE "close") /\ halt'.todo = Held
      BY <1>3 DEF HaltListPositions
    <2> QED BY <1>a, <1>b, <2>1, <2>2, <2>3 DEF SymbolInv
  <1>4. ASSUME NEW s \in Symbols, HaltClose(s) PROVE SymbolInv'
    <2>1. Resting' = Resting /\ book' = book /\ Held' = Held \ {s}
      BY <1>4 DEF HaltClose, Resting, Held, TypeOK
    <2>2. Left' = Left /\ Listed
      BY <1>4, <2>1 DEF HaltClose, Left, Listed
    <2>3. /\ halt'.at = IF halt'.todo = {} THEN "done" ELSE "close"
          /\ halt'.todo = halt.todo \ {s}
          /\ Held \subseteq halt.todo \cup {bar.symbol}
      BY <1>4 DEF HaltClose, SymbolInv
    <2> QED BY <1>a, <1>b, <2>1, <2>2, <2>3 DEF SymbolInv
  <1> QED BY <1>1, <1>2, <1>3, <1>4 DEF HaltStep

(* Every step is the halt's, sets the flag, or goes on beside the halt.    *)
Flagging == SetFlag /\ UNCHANGED <<exchange, bar>>

LEMMA BesideStep == TypeOK /\ SymbolInv /\ [Next]_vars => HaltStep \/ Flagging \/ Beside
  <1> SUFFICES ASSUME TypeOK, SymbolInv, [Next]_vars PROVE HaltStep \/ Flagging \/ Beside
    OBVIOUS
  <1> USE DEF exchange, cache, router, history
  <1>a. bar \in BarStates
    BY DEF TypeOK
  <1>b. BarIdle.at = "idle" /\ BarIdle.symbol = bar.symbol
    BY <1>a DEF BarIdle, BarStates
  <1>c. ASSUME UNCHANGED <<halted, halt, book, pos>>,
               bar'.symbol = bar.symbol \/ ~halted,
               Sending' => bar'.order.symbol = bar'.symbol /\ (Sending \/ ~halted)
        PROVE  Beside
    <2>1. Resting' = Resting /\ Held' = Held
      BY <1>c DEF Resting, Held
    <2> QED BY <1>c, <2>1 DEF Beside
  <1>1. CASE UNCHANGED vars
    BY <1>1, BesideStill DEF vars
  <1>2. CASE Market
    <2>1. ASSUME NEW o \in Oids, DropReduceOnly(o) PROVE Beside
      BY <2>1, BesideStill DEF DropReduceOnly
    <2> QED BY <1>2, <2>1, BesideFills DEF Market
  <1>3. ASSUME NEW s \in Symbols, BarClose(s) PROVE Beside
    <2>1. UNCHANGED <<halted, halt, book, pos>> /\ ~halted /\ bar'.at = "read_state"
      BY <1>3, <1>a DEF BarClose, BarStates
    <2> QED BY <2>1, <1>c DEF Sending
  <1>4. CASE BarReadState
    BY <1>4, <1>a, BesideStill DEF BarReadState, BarStates
  <1>5. CASE BarReadFails \/ BarNoQuote \/ Refused
    <2>1. UNCHANGED <<book, pos, halted, halt>> /\ bar' = BarIdle
      BY <1>5 DEF BarReadFails, BarNoQuote, WriteCache, Refused, BarDone
    <2> QED BY <2>1, <1>b, BesideStill
  <1>6. CASE BarReadOrders
    <2>1. UNCHANGED <<book, pos, halted, halt>>
      BY <1>6 DEF BarReadOrders, WriteCache
    <2>2. CASE bar' = BarIdle
      BY <2>1, <2>2, <1>b, BesideStill
    <2>3. CASE bar' # BarIdle
      <3> DEFINE current == cachePos'[bar.symbol]
                 order == [symbol |-> bar.symbol, size |-> bar.target - current,
                           reduceOnly |-> ReduceOnly(current, bar.target)]
      <3>1. bar' = [bar EXCEPT !.at = "first", !.order = order]
        BY <1>6, <2>3 DEF BarReadOrders
      <3>0. order.symbol = bar.symbol
        OBVIOUS
      <3> HIDE DEF order
      <3>2. bar'.order.symbol = bar.symbol /\ bar'.symbol = bar.symbol
        BY <3>0, <3>1, <1>a DEF BarStates
      <3>3. ~halted
        BY <1>6, <2>3 DEF BarReadOrders, Approved
      <3> QED BY <2>1, <3>2, <3>3, <1>c
    <2> QED BY <2>2, <2>3
  <1>7. CASE WouldTake
    <2>1. UNCHANGED <<halted, halt, book, pos>> /\ Sending
      BY <1>7 DEF WouldTake, Sending
    <2>2. bar'.symbol = bar.symbol /\ bar'.order = bar.order
      BY <1>7, <1>a DEF WouldTake, BarStates
    <2> QED BY <2>1, <2>2, <1>c DEF SymbolInv
  <1>8. ASSUME NEW o \in Oids, Accepted(o) \/ SubmitRaises(o) PROVE Beside
    <2>1. /\ Sending
          /\ UNCHANGED <<halted, halt, pos>>
          /\ book' = [book EXCEPT ![o] = bar.order]
          /\ bar' = BarIdle
      BY <1>8 DEF Accepted, SubmitRaises, BarDone, Sending
    <2>2. \A p \in Resting' : \/ p \in Resting /\ book'[p].symbol = book[p].symbol
                              \/ Sending /\ book'[p].symbol = bar.order.symbol
      BY <2>1 DEF Resting, TypeOK
    <2>3. Held' = Held /\ ~Sending'
      BY <2>1, <1>b DEF Held, Sending
    <2> QED BY <2>1, <2>2, <2>3, <1>b DEF Beside
  <1>9. CASE StaleStep
    BY <1>9, BesideStill DEF StaleStep, StaleCancel, StaleCancelRefused, StaleCancelRaises
  <1>10. CASE StalePass \/ (\E o \in Oids : Age(o))
    BY <1>10, BesideStill DEF StalePass, Age
  <1>11. CASE WatchdogHalt \/ RecReadFails \/ RecHalt
    BY <1>11 DEF WatchdogHalt, RecReadFails, RecHalt, Flagging
  <1>12. CASE RecStart \/ RecReadState \/ RecReadOrders \/ RecNote \/ RecDies
    BY <1>12, BesideStill
       DEF RecStart, RecReadState, RecReadOrders, WriteCache, RecNote, RecDies
  <1> QED BY <1>1, <1>2, <1>3, <1>4, <1>5, <1>6, <1>7, <1>8, <1>9, <1>10, <1>11, <1>12
          DEF Next, BarStep, RecStep

(* Every step keeps what is left to one symbol.                            *)
LEMMA SymbolStep == TypeOK /\ SymbolInv /\ [Next]_vars => SymbolInv'
  BY BesideStep, SymbolHalts, SymbolFlag, SymbolKept DEF Flagging

(* SurvivorInOneSymbol: whichever task sets the flag and whatever fills    *)
(* while the account is being closed, what a halt that is through leaves   *)
(* is in the symbol the bar loop was last about (main.py:399-470 against   *)
(* kill_switch.py:77-135).                                                 *)
THEOREM SurvivorSymbol == Spec => []SurvivorInOneSymbol
  <1>1. Init => SymbolInv
    BY DEF Init, SymbolInv, Listed, Sending
  <1>2. TypeOK /\ SymbolInv /\ [Next]_vars => SymbolInv'
    BY SymbolStep
  <1>3. SymbolInv => SurvivorInOneSymbol
    BY DEF SymbolInv, SurvivorInOneSymbol, Listed, Left
  <1> QED BY <1>1, <1>2, <1>3, TypeCorrect, PTL DEF Spec

-----------------------------------------------------------------------------
(* The tasks that trade and the halt implement HaltContract, coin by coin. *)

Live == {book[o].symbol : o \in Resting} \cup {s \in {bar.order.symbol} : Sending}
Done == halt.at = "done"
Excused == {s \in {bar.symbol} : Done}

LEMMA Coins == TypeOK /\ SymbolInv => Live \subseteq Symbols /\ Held \subseteq Symbols
  <1> SUFFICES ASSUME TypeOK, SymbolInv
               PROVE  Live \subseteq Symbols /\ Held \subseteq Symbols
    OBVIOUS
  <1>1. bar.symbol \in Symbols
    BY DEF TypeOK, BarStates
  <1>2. \A o \in Resting : book[o].symbol \in Symbols
    BY DEF TypeOK, Resting, Order
  <1> QED BY <1>1, <1>2 DEF Live, Held, SymbolInv

LEMMA CoinsAfter ==
  (TypeOK /\ SymbolInv => Live \subseteq Symbols /\ Held \subseteq Symbols)'
  BY Coins, PTL

LEMMA ItsOwnSymbol ==
  ASSUME NEW S \in SUBSET Symbols
  PROVE  Contract!SymbolsOf(S) = S
  BY DEF Contract!SymbolsOf

(* When the halt is through, what is left is excused.                      *)
LEMMA DoneExcuses == SymbolInv /\ Done => Live \subseteq Excused /\ Held \subseteq Excused
  BY DEF SymbolInv, Done, Live, Excused, Listed, Left

LEMMA DoneExcusesAfter ==
  (SymbolInv /\ Done => Live \subseteq Excused /\ Held \subseteq Excused)'
  BY DoneExcuses, PTL

(* A step that only takes away while the flag is set: the contract settles *)
(* when the halt is through.                                               *)
LEMMA ContractHalted ==
  ASSUME TypeOK, TypeOK', SymbolInv, SymbolInv', halted, halted',
         bar'.symbol = bar.symbol, Live' \subseteq Live,
         Held' \subseteq Held \cup Live,
         Done => Done', ~Done /\ Done' => Held' \subseteq Held
  PROVE  Contract!Next
  <1>a. Contract!SymbolsOf(Live) = Live
    BY Coins, ItsOwnSymbol
  <1>b. Done' => Live' \subseteq Excused' /\ Held' \subseteq Excused'
    BY DoneExcusesAfter
  <1>1. CASE ~Done'
    <2>1. Excused = {}
      BY <1>1 DEF Excused
    <2>2. Contract!Undo
      BY <1>1, <1>a, <2>1 DEF Contract!Undo, Live, Done, Excused
    <2> QED BY <2>2 DEF Contract!Next
  <1>2. CASE Done
    <2>1. Excused' = Excused
      BY <1>2 DEF Excused
    <2>2. Contract!Remain
      BY <1>2, <1>b, <2>1 DEF Contract!Remain, Live, Done, Excused
    <2> QED BY <2>2 DEF Contract!Next
  <1>3. CASE ~Done /\ Done'
    <2>1. Excused = {}
      BY <1>3 DEF Excused
    <2>2. Contract!Settle
      BY <1>3, <1>b, <2>1 DEF Contract!Settle, Live, Done, Excused
    <2> QED BY <2>2 DEF Contract!Next
  <1> QED BY <1>1, <1>2, <1>3

(* What goes on beside the halt trades while the flag is clear, and only   *)
(* takes away once it is set.                                              *)
LEMMA ContractBeside ==
  ASSUME TypeOK, TypeOK', SymbolInv, SymbolInv', Beside
  PROVE  Contract!Next
  <1>1. CASE halted
    <2>1. bar'.symbol = bar.symbol /\ UNCHANGED <<halted, halt>>
      BY <1>1 DEF Beside
    <2>2. Sending' => Sending /\ bar'.order.symbol = bar.order.symbol
      BY <1>1, <2>1 DEF Beside, SymbolInv
    <2>3. Live' \subseteq Live
      BY <2>2 DEF Beside, Live
    <2>4. Held' \subseteq Held \cup Live
      BY DEF Beside, Live
    <2> QED BY <1>1, <2>1, <2>3, <2>4, ContractHalted DEF Done
  <1>2. CASE ~halted
    <2>1. ~Done /\ ~Done' /\ ~halted'
      BY <1>2 DEF Beside, SymbolInv, Done
    <2>2. Live' \subseteq Symbols /\ Held' \subseteq Symbols
      BY CoinsAfter
    <2>3. Contract!Trade
      BY <1>2, <2>1, <2>2 DEF Contract!Trade, Live, Done
    <2> QED BY <2>3 DEF Contract!Next
  <1> QED BY <1>1, <1>2

(* The halt's own steps only take away.                                    *)
LEMMA ContractHalts ==
  ASSUME TypeOK, TypeOK', SymbolInv, SymbolInv', HaltStep
  PROVE  Contract!Next
  <1>1. halted /\ halted' /\ UNCHANGED bar
    BY DEF HaltStep, HaltListOrders, HaltListPositions, HaltCancel, HaltClose, HaltUnchanged,
       SymbolInv
  <1>2. \A o \in Resting' : o \in Resting /\ book'[o] = book[o]
    BY DEF HaltStep, HaltListOrders, HaltListPositions, HaltCancel, HaltClose, exchange,
       Gone, Resting, TypeOK
  <1>3. Held' \subseteq Held
    BY DEF HaltStep, HaltListOrders, HaltListPositions, HaltCancel, HaltClose, exchange,
       Held, TypeOK
  <1>4. Live' \subseteq Live
    BY <1>1, <1>2 DEF Live, Sending
  <1>5. ~Done
    BY DEF HaltStep, HaltListOrders, HaltListPositions, HaltCancel, HaltClose, Done
  <1> QED BY <1>1, <1>3, <1>4, <1>5, ContractHalted

LEMMA ContractFlagged ==
  ASSUME TypeOK, SymbolInv, Flagging
  PROVE  [Contract!Next]_(Contract!vars)
  <1>1. UNCHANGED <<book, pos, bar>>
    BY DEF Flagging, exchange
  <1>2. UNCHANGED <<Live, Held>>
    BY <1>1 DEF Live, Held, Resting, Sending
  <1>3. CASE halted
    <2>1. UNCHANGED <<halted, halt>>
      BY <1>3 DEF Flagging, SetFlag
    <2> QED BY <1>1, <1>2, <2>1 DEF Contract!vars, Live
  <1>4. CASE ~halted
    <2>1. halted' /\ ~Done'
      BY <1>4 DEF Flagging, SetFlag, Done
    <2>2. Contract!SetFlag
      BY <1>2, <1>4, <2>1 DEF Contract!SetFlag, Live, Done
    <2> QED BY <2>2 DEF Contract!Next
  <1> QED BY <1>3, <1>4

LEMMA ContractStep ==
  TypeOK /\ TypeOK' /\ SymbolInv /\ SymbolInv' /\ [Next]_vars
    => [Contract!Next]_(Contract!vars)
  BY BesideStep, ContractHalts, ContractFlagged, ContractBeside

(* ImplementsContract: interleaved with fills, retries, stale passes and   *)
(* the reconciler, the halt still keeps what HaltContract promises: no     *)
(* coin gains an order once the flag is set, and when the sequence is      *)
(* through whatever is left, or still opens, is in the coin the bar loop   *)
(* was about (RISK.md:23-32 against main.py:399-470).                      *)
THEOREM Implementation == Spec => ImplementsContract
  <1>1. Init => Contract!Init
    BY DEF Init, Contract!Init, Resting, Held, Flat, Sending
  <1>2. Init => SymbolInv
    BY DEF Init, SymbolInv, Listed, Sending
  <1> QED
    BY <1>1, <1>2, TypeInit, TypeStep, SymbolStep, ContractStep, PTL
       DEF Spec, ImplementsContract, Contract!Spec

(* QuietAfterHalt: once the flag is set and no request is in flight, the   *)
(* account is quiet for good: the flag stays, no retry, late answer, stale *)
(* pass or new bar sends another order, and the book only loses orders.    *)
(* The flag is tested once, in submit_target (order_router.py:61-66), long *)
(* before the retry loop that sends (order_router.py:110-160).             *)
Quiet == halted /\ ~Sending

LEMMA QuietStep ==
  ASSUME TypeOK, SymbolInv, [Next]_vars, Quiet
  PROVE  Quiet' /\ Resting' \subseteq Resting
  <1>1. CASE HaltStep
    <2>1. halted' /\ UNCHANGED bar
      BY <1>1 DEF HaltStep, HaltListOrders, HaltListPositions, HaltCancel, HaltClose,
         HaltUnchanged, Quiet
    <2>2. Resting' \subseteq Resting
      BY <1>1 DEF HaltStep, HaltListOrders, HaltListPositions, HaltCancel, HaltClose,
         exchange, Gone, Resting, TypeOK
    <2> QED BY <2>1, <2>2 DEF Quiet, Sending
  <1>2. CASE Flagging
    BY <1>2 DEF Flagging, SetFlag, exchange, Quiet, Resting, Sending
  <1>3. CASE Beside
    BY <1>3 DEF Beside, Quiet
  <1> QED BY <1>1, <1>2, <1>3, BesideStep

THEOREM QuietAfterHalt == Spec => [][Quiet => Quiet' /\ Resting' \subseteq Resting]_vars
  <1>1. Init => SymbolInv
    BY DEF Init, SymbolInv, Listed, Sending
  <1>2. TypeOK /\ SymbolInv /\ [Next]_vars
          => [Quiet => Quiet' /\ Resting' \subseteq Resting]_vars
    BY QuietStep
  <1> QED BY <1>1, <1>2, TypeInit, TypeStep, SymbolStep, PTL DEF Spec

-----------------------------------------------------------------------------
(* The router's book.                                                      *)

(* An order leaves the router's book only when it leaves the exchange or   *)
(* its cancel is refused.                                                  *)
LEMMA TrackedStep == TypeOK /\ TrackedOrOrphan /\ [Next]_vars => TrackedOrOrphan'
  <1> SUFFICES ASSUME TypeOK, TrackedOrOrphan, [Next]_vars PROVE TrackedOrOrphan'
    OBVIOUS
  <1> USE DEF exchange, cache, router, history
  <1>a. ASSUME UNCHANGED <<submitted, orphans>>,
               book' = book \/ \E o \in Oids : book' = Gone(o)
        PROVE  TrackedOrOrphan'
    BY <1>a DEF TrackedOrOrphan, Resting, Gone, TypeOK
  <1>1. CASE UNCHANGED vars
    BY <1>1, <1>a DEF vars
  <1>2. CASE Market
    <2>1. ASSUME NEW o \in Oids, Fill(o) PROVE TrackedOrOrphan'
      <3>1. Resting' \subseteq Resting /\ UNCHANGED <<submitted, orphans>>
        BY <2>1 DEF Fill, Gone, Resting, TypeOK
      <3> QED BY <3>1 DEF TrackedOrOrphan
    <2> QED BY <1>2, <2>1, <1>a DEF Market, DropReduceOnly
  <1>3. CASE BarReadState \/ BarReadFails \/ BarNoQuote \/ WouldTake \/ Refused
    BY <1>3, <1>a DEF BarReadState, BarReadFails, BarNoQuote, WouldTake, Refused
  <1>10. CASE BarReadOrders
    BY <1>10, <1>a DEF BarReadOrders
  <1>11. ASSUME NEW s \in Symbols, BarClose(s) PROVE TrackedOrOrphan'
    BY <1>11, <1>a DEF BarClose
  <1>4. ASSUME NEW o \in Oids, Accepted(o) PROVE TrackedOrOrphan'
    BY <1>4 DEF Accepted, TrackedOrOrphan, Resting, TypeOK
  <1>5. ASSUME NEW o \in Oids, SubmitRaises(o) PROVE TrackedOrOrphan'
    BY <1>5 DEF SubmitRaises, TrackedOrOrphan, Resting, TypeOK
  <1>6. CASE StaleStep
    <2>1. ASSUME NEW o \in Oids, StaleCancel(o) PROVE TrackedOrOrphan'
      BY <2>1 DEF StaleCancel, Forget, Gone, TrackedOrOrphan, Resting, TypeOK
    <2>2. ASSUME NEW o \in Oids, StaleCancelRefused(o) PROVE TrackedOrOrphan'
      BY <2>2 DEF StaleCancelRefused, Forget, TrackedOrOrphan, Resting
    <2>3. ASSUME NEW o \in Oids, StaleCancelRaises(o) PROVE TrackedOrOrphan'
      BY <2>3, <1>a DEF StaleCancelRaises
    <2> QED BY <1>6, <2>1, <2>2, <2>3 DEF StaleStep
  <1>7. CASE StalePass \/ \E o \in Oids : Age(o)
    BY <1>7, <1>a DEF StalePass, Age
  <1>8. CASE HaltStep \/ WatchdogHalt
    BY <1>8, <1>a DEF HaltStep, HaltListOrders, HaltListPositions, HaltCancel, HaltClose,
       HaltUnchanged, WatchdogHalt
  <1>9. CASE RecStep \/ RecStart
    BY <1>9, <1>a DEF RecStep, RecStart, RecReadState, RecReadFails, RecReadOrders, RecNote,
       RecHalt, RecDies
  <1> QED BY <1>1, <1>2, <1>3, <1>4, <1>5, <1>6, <1>7, <1>8, <1>9, <1>10, <1>11
          DEF Next, BarStep

(* TrackedOrOrphan: whatever the retries, the stale passes and the halt do *)
(* to the same orders at once, a resting order is in the router's book     *)
(* unless its submission raised or its cancel was refused                  *)
(* (order_router.py:146-168, 263-320).                                     *)
THEOREM Tracked == Spec => []TrackedOrOrphan
  <1>1. Init => TrackedOrOrphan
    BY DEF Init, TrackedOrOrphan, Resting
  <1> QED BY <1>1, TrackedStep, TypeCorrect, PTL DEF Spec

-----------------------------------------------------------------------------
(* The reconciler and its judge.                                           *)

(* The judge watches, and constrains nothing: what is proved of the tasks  *)
(* holds of the judged ones.                                               *)
THEOREM Judged == JudgedSpec => Spec
  <1>1. JudgedInit => Init
    BY DEF JudgedInit
  <1>2. [JudgedNext]_judgedVars => [Next]_vars
    BY DEF JudgedNext, judgedVars
  <1> QED BY <1>1, <1>2, PTL DEF JudgedSpec, Spec

(* Whoever else steps leaves the reconciler's snapshot and its answer      *)
(* alone, whatever it does to the cache.                                   *)
RecWaits == rec' = rec /\ seen'["rec"] = seen["rec"]

LEMMA RecOrOther ==
  ASSUME TypeOK, [Next]_vars
  PROVE  RecStep \/ RecStart \/ RecWaits
  <1> USE DEF exchange, cache, router, history
  <1>a. seen \in [{"bar", "rec"} -> [Symbols -> Int]]
    BY DEF TypeOK
  <1>b. Read("bar")["rec"] = seen["rec"]
    BY <1>a DEF Read
  <1>1. CASE UNCHANGED vars
    BY <1>1 DEF vars, RecWaits
  <1>2. CASE Market
    BY <1>2 DEF Market, Fill, DropReduceOnly, RecWaits
  <1>3. CASE BarReadFails \/ BarReadOrders \/ BarNoQuote
    BY <1>3, <1>b DEF BarReadFails, BarReadOrders, BarNoQuote, WriteCache, RecWaits
  <1>4. CASE BarReadState
    BY <1>4, <1>a DEF BarReadState, RecWaits
  <1>5. CASE WouldTake \/ Refused \/ \E o \in Oids : Accepted(o) \/ SubmitRaises(o)
    BY <1>5 DEF WouldTake, Refused, Accepted, SubmitRaises, RecWaits
  <1>6. CASE \E s \in Symbols : BarClose(s)
    BY <1>6 DEF BarClose, RecWaits
  <1>7. CASE StaleStep \/ StalePass \/ \E o \in Oids : Age(o)
    BY <1>7 DEF StaleStep, StaleCancel, StaleCancelRefused, StaleCancelRaises, StalePass, Age,
       RecWaits
  <1>8. CASE HaltStep \/ WatchdogHalt
    BY <1>8 DEF HaltStep, HaltListOrders, HaltListPositions, HaltCancel, HaltClose,
       HaltUnchanged, WatchdogHalt, RecWaits
  <1> QED BY <1>1, <1>2, <1>3, <1>4, <1>5, <1>6, <1>7, <1>8 DEF Next, BarStep

(* The snapshot is the account as it was when the pass began.              *)
SnapshotTrue == rec.pos = pos /\ rec.orders = Resting

(* Until the account moves, the snapshot is as true as the cache was, and  *)
(* the first answer is the account.                                        *)
JudgeInv ==
  /\ rec.at \in {"read_state", "read_orders"} =>
       /\ pass = "true" => SnapshotTrue
       /\ pass = "untrue" => ~SnapshotTrue
  /\ rec.at = "read_orders" /\ pass \in {"true", "untrue"} => seen["rec"] = pos
  /\ ReconcilerIsRight

LEMMA JudgeStep == TypeOK /\ JudgeInv /\ [JudgedNext]_judgedVars => JudgeInv'
  <1> SUFFICES ASSUME TypeOK, JudgeInv, [JudgedNext]_judgedVars PROVE JudgeInv'
    OBVIOUS
  <1> USE DEF exchange, cache, router, history
  <1>0. UNCHANGED exchange => AccountStays
    BY DEF AccountStays, Resting
  <1>1. CASE UNCHANGED judgedVars
    <2>1. AccountStays /\ UNCHANGED <<rec, seen, pass>>
      BY <1>0, <1>1 DEF judgedVars, vars
    <2> QED BY <2>1 DEF JudgeInv, SnapshotTrue, AccountStays, ReconcilerIsRight
  <1>2. CASE Next /\ Judge /\ RecWaits
    <2>1. CASE pass' = "none" \/ pass' = "moved"
      BY <2>1 DEF JudgeInv, ReconcilerIsRight
    <2>2. CASE pass' = pass /\ AccountStays
      BY <1>2, <2>2 DEF RecWaits, JudgeInv, SnapshotTrue, AccountStays, ReconcilerIsRight
    <2> QED BY <1>2, <2>1, <2>2 DEF Judge, RecWaits
  <1>3. CASE Next /\ Judge /\ RecStart
    <2>1. /\ rec' = [at |-> "read_state", pos |-> cachePos, orders |-> cacheOrders]
          /\ rec.at = "idle" /\ AccountStays
      BY <1>0, <1>3 DEF RecStart
    <2>2. pass' = IF CacheTrue THEN "true" ELSE "untrue"
      BY <1>3, <2>1 DEF Judge
    <2>3. SnapshotTrue' <=> CacheTrue
      BY <2>1 DEF SnapshotTrue, CacheTrue, AccountStays
    <2> QED BY <2>1, <2>2, <2>3 DEF JudgeInv, ReconcilerIsRight
  <1>4. CASE Next /\ Judge /\ RecReadState
    <2>1. /\ rec.at = "read_state" /\ rec' = [rec EXCEPT !.at = "read_orders"]
          /\ seen' = [seen EXCEPT !["rec"] = pos] /\ AccountStays
      BY <1>0, <1>4 DEF RecReadState
    <2>2. rec'.at = "read_orders" /\ rec'.pos = rec.pos /\ rec'.orders = rec.orders
      BY <2>1 DEF TypeOK, RecStates
    <2>3. pass' = pass
      BY <1>4, <2>1, <2>2 DEF Judge
    <2>4. seen'["rec"] = pos'
      BY <2>1 DEF TypeOK, AccountStays
    <2>5. SnapshotTrue' <=> SnapshotTrue
      BY <2>1, <2>2 DEF SnapshotTrue, AccountStays
    <2> QED BY <2>1, <2>2, <2>3, <2>4, <2>5 DEF JudgeInv, ReconcilerIsRight
  <1>5. CASE Next /\ Judge /\ RecReadOrders
    <2>1. rec.at = "read_orders" /\ AccountStays
      BY <1>0, <1>5 DEF RecReadOrders
    <2>2. rec'.at = IF rec.pos # seen["rec"] \/ rec.orders # Resting THEN "halt" ELSE "note"
      BY <1>5 DEF RecReadOrders, WriteCache, RecIdle
    <2>3. pass' = pass
      BY <1>5, <2>1, <2>2 DEF Judge
    <2> QED BY <2>1, <2>2, <2>3 DEF JudgeInv, SnapshotTrue, ReconcilerIsRight
  <1>6. CASE Next /\ Judge /\ (RecReadFails \/ RecNote \/ RecHalt \/ RecDies)
    <2>1. rec'.at \in {"idle", "dead"}
      BY <1>6 DEF RecReadFails, RecNote, RecHalt, RecDies, RecIdle
    <2> QED BY <2>1 DEF JudgeInv, ReconcilerIsRight
  <1>7. JudgedNext => Next /\ Judge /\ (RecStep \/ RecStart \/ RecWaits)
    BY RecOrOther DEF JudgedNext
  <1> QED BY <1>1, <1>2, <1>3, <1>4, <1>5, <1>6, <1>7 DEF RecStep

(* ReconcilerIsRight: as long as the account does not move during a pass,  *)
(* the reconciler halts for a divergence exactly if the cache it began     *)
(* with was untrue (reconciler.py:73-98), although the bar loop refreshes  *)
(* the same cache meanwhile.                                               *)
THEOREM ReconcilerJudged == JudgedSpec => []ReconcilerIsRight
  <1>1. JudgedInit => JudgeInv
    BY DEF JudgedInit, Init, RecIdle, JudgeInv, ReconcilerIsRight
  <1>2. JudgeInv => ReconcilerIsRight
    BY DEF JudgeInv
  <1> QED BY <1>1, <1>2, Judged, TypeCorrect, JudgeStep, PTL DEF JudgedSpec
=============================================================================
