---------------------------- MODULE TradingCore -----------------------------
(***************************************************************************)
(* The tasks of LiveSystem.run (src/src/main.py) that touch the account,   *)
(* interleaved at their awaits, against the exchange:                      *)
(*                                                                         *)
(*   - the bar-close loop: evaluate, refresh the tracker, throttle, risk   *)
(*     check, submit an ALO order, retry it once (order_router.py);        *)
(*   - the reconciler: snapshot the cache, refresh, compare, halt;         *)
(*   - the stale-cancel loop over the router's own book of orders;         *)
(*   - the halt sequence (its failures are the subject of KillSwitch).     *)
(*                                                                         *)
(* The PositionTracker's cache is shared: a refresh is two reads of the    *)
(* exchange and then one write, and two tasks may be refreshing at once.   *)
(* Sizes are signed integers at one constant price, so a size is also a    *)
(* notional.  An order slot stands for a fresh oid: it is used again only  *)
(* when nobody remembers it.                                               *)
(***************************************************************************)
EXTENDS Integers, FiniteSets

CONSTANTS
  Symbols,         \* config.symbols
  Oids,            \* order slots
  Entries,         \* signed target sizes an entry signal may ask for
  ABudget,         \* equity * strategy_max_pct["mean_reversion"]
  Deployable,      \* equity less the allocator's buffer
  Pledges,         \* what the funding scheduler may hold reserved (FundingCapture)
  MaxSize,         \* caps.max_position_notional_pct * equity
  MaxPositions,    \* caps.max_concurrent_positions
  MaxOpenOrders,   \* caps.max_open_orders
  Reconciles,      \* whether the reconciler's interval ever passes
  CancelMayFail,   \* whether adapter.cancel may raise or be refused
  SubmitMayRaise,  \* whether an accepted order may come back as an exception
  JournalMayFail   \* whether the reconciler's journal row may raise

ASSUME SizesAssumption ==
  /\ Entries \subseteq Int \ {0}
  /\ ABudget \in Nat /\ MaxSize \in Nat
  /\ Deployable \in Nat /\ Pledges \subseteq Nat
  /\ MaxPositions \in Nat /\ MaxOpenOrders \in Nat \ {0}
  /\ {Reconciles, CancelMayFail, SubmitMayRaise, JournalMayFail} \subseteq BOOLEAN

ASSUME SlotsAssumption ==
  /\ IsFiniteSet(Oids)
  /\ Oids \cap Symbols = {}

VARIABLES
  book,         \* exchange: the resting orders, by oid
  pos,          \* exchange: signed position of each symbol
  cachePos,     \* PositionTracker._positions
  cacheOrders,  \* PositionTracker._orders (the adapter carries only oids)
  seen,         \* user_state answers of the refreshes in progress
  bar,          \* the bar-close task: await, symbol, target, order being sent
  aUsed,        \* LiveSystem._a_used_notional
  rec,          \* the reconciler task: await, snapshot of the cache
  submitted,    \* OrderRouter._submitted
  aged,         \* submitted orders older than stale_seconds
  cancelTodo,   \* what is left of a cancel_stale_orders pass
  halted,       \* KillSwitch._halted
  halt,         \* the halt sequence: await, what is left of its loop
  orphans,      \* history: orders that came to rest unknown to the router
  sentHalted    \* history: requests sent to the exchange while halted

exchange == <<book, pos>>
cache == <<cachePos, cacheOrders>>
router == <<submitted, aged, cancelTodo>>
history == <<orphans, sentHalted>>
vars == <<exchange, cache, seen, bar, aUsed, rec, router, halted, halt, history>>

Abs(n) == IF n < 0 THEN -n ELSE n
Larger(m, n) == IF m < n THEN n ELSE m
Smaller(m, n) == IF m < n THEN m ELSE n

NoOrder == [symbol |-> "none"]
Order == [symbol : Symbols, size : Int \ {0}, reduceOnly : BOOLEAN]
Resting == {o \in Oids : book[o] # NoOrder}
Held == {s \in Symbols : pos[s] # 0}

(* Where each task can be suspended, and what it holds there.              *)
BarStates ==
  [at : {"idle", "read_state", "read_orders", "first", "retry"},
   symbol : Symbols, target : Int, order : Order \cup {NoOrder}]
RecStates ==
  [at : {"idle", "read_state", "read_orders", "note", "halt", "dead"},
   pos : [Symbols -> Int], orders : SUBSET Oids]
HaltStates ==
  [at : {"idle", "list_orders", "cancel", "list_positions", "close", "done"},
   todo : SUBSET (Oids \cup Symbols)]

TypeOK ==
  /\ book \in [Oids -> Order \cup {NoOrder}]
  /\ pos \in [Symbols -> Int]
  /\ cachePos \in [Symbols -> Int]
  /\ cacheOrders \subseteq Oids
  /\ seen \in [{"bar", "rec"} -> [Symbols -> Int]]
  /\ bar \in BarStates
  /\ aUsed \in Nat
  /\ rec \in RecStates
  /\ submitted \subseteq Oids
  /\ aged \subseteq submitted
  /\ cancelTodo \subseteq Oids
  /\ halted \in BOOLEAN
  /\ halt \in HaltStates
  /\ orphans \subseteq Oids
  /\ sentHalted \in Nat

Flat == [s \in Symbols |-> 0]

(* The reconciler between two checks; the snapshot of the last is gone.    *)
RecIdle == [at |-> "idle", pos |-> Flat, orders |-> {}]

(* LiveSystem.run refreshes the tracker before it creates the tasks; the   *)
(* account starts flat.                                                    *)
Init ==
  /\ book = [o \in Oids |-> NoOrder]
  /\ pos = Flat
  /\ cachePos = Flat
  /\ cacheOrders = {}
  /\ seen = [t \in {"bar", "rec"} |-> Flat]
  /\ \E s \in Symbols :
       bar = [at |-> "idle", symbol |-> s, target |-> 0, order |-> NoOrder]
  /\ aUsed = 0
  /\ rec = RecIdle
  /\ submitted = {} /\ aged = {} /\ cancelTodo = {}
  /\ halted = FALSE
  /\ halt = [at |-> "idle", todo |-> {}]
  /\ orphans = {}
  /\ sentHalted = 0

-----------------------------------------------------------------------------
(* The exchange.  A definition that no action uses is a variant, as in      *)
(* KillSwitch.                                                             *)

(* Nobody remembers o, so a fresh order may be given this slot.            *)
Fresh(o) ==
  o \notin Resting \cup cacheOrders \cup submitted \cup cancelTodo
           \cup halt.todo \cup rec.orders

Gone(o) == [book EXCEPT ![o] = NoOrder]

Sign(n) == IF n < 0 THEN -1 ELSE 1

(* One unit of a resting order fills.  A reduce-only order fills only      *)
(* against the position it reduces.                                        *)
Fill(o) ==
  /\ o \in Resting
  /\ LET order == book[o]
         unit  == Sign(order.size)
     IN /\ order.reduceOnly => pos[order.symbol] * unit < 0
        /\ pos' = [pos EXCEPT ![order.symbol] = @ + unit]
        /\ book' = IF order.size = unit THEN Gone(o)
                   ELSE [book EXCEPT ![o].size = @ - unit]
  /\ UNCHANGED <<cache, seen, bar, aUsed, rec, router, halted, halt, history>>

(* The exchange drops a reduce-only order that has nothing to reduce.      *)
DropReduceOnly(o) ==
  /\ o \in Resting
  /\ book[o].reduceOnly
  /\ pos[book[o].symbol] * book[o].size >= 0
  /\ book' = Gone(o)
  /\ UNCHANGED <<pos, cache, seen, bar, aUsed, rec, router, halted, halt, history>>

-----------------------------------------------------------------------------
(* The risk gate between a target and an order.                            *)

(* allocate() leaves A the lesser of its own share and of what is left of  *)
(* the account, less the buffer and what the funding scheduler has         *)
(* reserved.  The throttle of main.py adds the used notional back.         *)
AvailableToA(pledged) ==
  Larger(0, Smaller(ABudget, Deployable - pledged) - aUsed)

Suppressed(target, pledged) == Abs(target) > AvailableToA(pledged) + aUsed

(* reduce_only iff the order strictly shrinks the position and keeps its   *)
(* sign or flattens it.                                                    *)
ReduceOnly(current, target) ==
  /\ current # 0
  /\ Abs(target) < Abs(current)
  /\ target * current >= 0

(* check_order on the cache as it stands, for the caps that depend on      *)
(* other tasks: halt flag, open orders, position size, open positions.     *)
ApprovedAboveCap(symbol, target) ==
  LET after == {s \in Symbols : cachePos'[s] # 0 /\ s # symbol}
               \cup {s \in {symbol} : target # 0}
  IN /\ ~halted
     /\ Cardinality(cacheOrders') <= MaxOpenOrders
     /\ Abs(target) <= MaxSize
     /\ Cardinality(after) <= MaxPositions

Approved(symbol, target) ==
  LET after == {s \in Symbols : cachePos'[s] # 0 /\ s # symbol}
               \cup {s \in {symbol} : target # 0}
  IN /\ ~halted
     /\ Cardinality(cacheOrders') < MaxOpenOrders
     /\ Abs(target) <= MaxSize
     /\ Cardinality(after) <= MaxPositions

-----------------------------------------------------------------------------
(* The bar-close loop: one symbol at a time.                               *)

(* The answer of user_state is a local of refresh and ends with it.        *)
Read(task) == [seen EXCEPT ![task] = Flat]

(* The second answer, list_open_orders, has come: both replace the cache.  *)
WriteCache(task) ==
  /\ cachePos' = seen[task]
  /\ cacheOrders' = Resting
  /\ seen' = Read(task)

BarIdle == [bar EXCEPT !.at = "idle", !.target = 0, !.order = NoOrder]

(* A bar of s has closed: the strategy holds or leaves the position in the *)
(* cache, or enters from flat, or stays flat.                              *)
BarClose(s) ==
  /\ bar.at = "idle"
  /\ ~halted
  /\ \E target \in {0, cachePos[s]} \cup {e \in Entries : cachePos[s] = 0} :
       bar' = [bar EXCEPT !.at = "read_state", !.symbol = s, !.target = target]
  /\ UNCHANGED <<exchange, cache, seen, aUsed, rec, router, halted, halt, history>>

(* PositionTracker.refresh, first read: user_state.                        *)
BarReadState ==
  /\ bar.at = "read_state"
  /\ seen' = [seen EXCEPT !["bar"] = pos]
  /\ bar' = [bar EXCEPT !.at = "read_orders"]
  /\ UNCHANGED <<exchange, cache, aUsed, rec, router, halted, halt, history>>

BarReadFails ==
  /\ bar.at \in {"read_state", "read_orders"}
  /\ bar' = BarIdle
  /\ seen' = Read("bar")
  /\ UNCHANGED <<exchange, cache, aUsed, rec, router, halted, halt, history>>

(* Second read, the write of the cache, and without another suspension the *)
(* throttle and submit_target up to the await of submit_alo.  A target     *)
(* that is not suppressed becomes A's used notional, whatever comes of it. *)
BarReadOrders ==
  /\ bar.at = "read_orders"
  /\ WriteCache("bar")
  /\ LET current == cachePos'[bar.symbol]
         order == [symbol |-> bar.symbol, size |-> bar.target - current,
                   reduceOnly |-> ReduceOnly(current, bar.target)]
         suppressed == \E p \in Pledges : Suppressed(bar.target, p)
         granted == \E p \in Pledges : ~Suppressed(bar.target, p)
     IN \/ /\ granted
           /\ order.size # 0
           /\ Approved(bar.symbol, bar.target)
           /\ bar' = [bar EXCEPT !.at = "first", !.order = order]
           /\ UNCHANGED aUsed
        \/ /\ granted
           /\ order.size = 0 \/ ~Approved(bar.symbol, bar.target)
           /\ bar' = BarIdle
           /\ aUsed' = Abs(bar.target)
        \/ /\ suppressed
           /\ bar' = BarIdle
           /\ UNCHANGED aUsed
  /\ UNCHANGED <<exchange, rec, router, halted, halt, history>>

(* No quote yet for the symbol: _compute_delta gives up.                   *)
BarNoQuote ==
  /\ bar.at = "read_orders"
  /\ \E p \in Pledges : ~Suppressed(bar.target, p)
  /\ WriteCache("bar")
  /\ bar' = BarIdle
  /\ aUsed' = Abs(bar.target)
  /\ UNCHANGED <<exchange, rec, router, halted, halt, history>>

(* submit_target returns and main.py notes the notional.                   *)
BarDone ==
  /\ bar' = BarIdle
  /\ aUsed' = Abs(bar.target)

AcceptedUnrecorded(o) ==
  /\ bar.at \in {"first", "retry"}
  /\ Fresh(o)
  /\ book' = [book EXCEPT ![o] = bar.order]
  /\ submitted' = IF bar.at = "first" THEN submitted \cup {o} ELSE submitted
  /\ orphans' = orphans \ {o}
  /\ BarDone
  /\ UNCHANGED <<pos, cache, seen, rec, aged, cancelTodo, halted, halt, sentHalted>>

AcceptedAndRetried(o) ==
  /\ bar.at \in {"first", "retry"}
  /\ Fresh(o)
  /\ book' = [book EXCEPT ![o] = bar.order]
  /\ submitted' = submitted \cup {o}
  /\ orphans' = orphans \ {o}
  /\ IF bar.at = "retry" THEN BarDone
     ELSE bar' = [bar EXCEPT !.at = "retry"] /\ UNCHANGED aUsed
  /\ UNCHANGED <<pos, cache, seen, rec, aged, cancelTodo, halted, halt, sentHalted>>

(* The order rests and the router records its oid, on either attempt.      *)
Accepted(o) ==
  /\ bar.at \in {"first", "retry"}
  /\ Fresh(o)
  /\ book' = [book EXCEPT ![o] = bar.order]
  /\ submitted' = submitted \cup {o}
  /\ orphans' = orphans \ {o}
  /\ BarDone
  /\ UNCHANGED <<pos, cache, seen, rec, aged, cancelTodo, halted, halt, sentHalted>>

WouldTakeForever ==
  /\ bar.at \in {"first", "retry"}
  /\ bar' = [bar EXCEPT !.at = "retry"]
  /\ sentHalted' = IF halted THEN sentHalted + 1 ELSE sentHalted
  /\ UNCHANGED <<exchange, cache, seen, aUsed, rec, router, halted, halt, orphans>>

(* Rejected as a taker: the order is sent again one tick away, at once and *)
(* without another look at the flag.                                       *)
WouldTake ==
  /\ bar.at = "first"
  /\ bar' = [bar EXCEPT !.at = "retry"]
  /\ sentHalted' = IF halted THEN sentHalted + 1 ELSE sentHalted
  /\ UNCHANGED <<exchange, cache, seen, aUsed, rec, router, halted, halt, orphans>>

(* Any other error, or a second rejection as a taker.                      *)
Refused ==
  /\ bar.at \in {"first", "retry"}
  /\ BarDone
  /\ UNCHANGED <<exchange, cache, seen, rec, router, halted, halt, history>>

(* submit_alo turns an exception into "not accepted", although the request *)
(* may have reached the exchange: nobody learns the oid.                   *)
SubmitRaises(o) ==
  /\ SubmitMayRaise
  /\ bar.at \in {"first", "retry"}
  /\ Fresh(o)
  /\ book' = [book EXCEPT ![o] = bar.order]
  /\ orphans' = orphans \cup {o}
  /\ BarDone
  /\ UNCHANGED <<pos, cache, seen, rec, router, halted, halt, sentHalted>>

-----------------------------------------------------------------------------
(* The stale-cancel loop.  It runs while halted, too.                      *)

Age(o) ==
  /\ o \in submitted \ aged
  /\ aged' = aged \cup {o}
  /\ UNCHANGED <<exchange, cache, seen, bar, aUsed, rec, submitted, cancelTodo,
                 halted, halt, history>>

StalePassUnlessHalted ==
  /\ ~halted
  /\ cancelTodo = {} /\ aged # {}
  /\ cancelTodo' = aged
  /\ UNCHANGED <<exchange, cache, seen, bar, aUsed, rec, submitted, aged,
                 halted, halt, history>>

StalePass ==
  /\ cancelTodo = {} /\ aged # {}
  /\ cancelTodo' = aged
  /\ UNCHANGED <<exchange, cache, seen, bar, aUsed, rec, submitted, aged,
                 halted, halt, history>>

Forget(o) ==
  /\ cancelTodo' = cancelTodo \ {o}
  /\ submitted' = submitted \ {o}
  /\ aged' = aged \ {o}

(* The order is gone afterwards, cancelled now or filled before.           *)
StaleCancel(o) ==
  /\ o \in cancelTodo
  /\ book' = Gone(o)
  /\ Forget(o)
  /\ UNCHANGED <<pos, cache, seen, bar, aUsed, rec, halted, halt, history>>

(* An error status without an exception: the order rests on and the router *)
(* forgets it all the same.                                                *)
StaleCancelRefused(o) ==
  /\ CancelMayFail
  /\ o \in cancelTodo \cap Resting
  /\ Forget(o)
  /\ orphans' = orphans \cup {o}
  /\ UNCHANGED <<exchange, cache, seen, bar, aUsed, rec, halted, halt, sentHalted>>

(* The call raises: the order stays in the router's book for a later pass. *)
StaleCancelRaises(o) ==
  /\ CancelMayFail
  /\ o \in cancelTodo
  /\ book' \in {book, Gone(o)}
  /\ cancelTodo' = cancelTodo \ {o}
  /\ UNCHANGED <<pos, cache, seen, bar, aUsed, rec, submitted, aged,
                 halted, halt, history>>

-----------------------------------------------------------------------------
(* halt(): the sequence of KillSwitch when every call is answered.         *)

SetFlag ==
  IF halted THEN UNCHANGED <<halted, halt>>
  ELSE halted' = TRUE /\ halt' = [at |-> "list_orders", todo |-> {}]

HaltGoesOn(loop, left, next) ==
  halt' = [at |-> IF left = {} THEN next ELSE loop, todo |-> left]

HaltUnchanged == UNCHANGED <<cache, seen, bar, aUsed, rec, router, halted, history>>

HaltListOrdersReturning ==
  /\ halt.at = "list_orders"
  /\ HaltGoesOn("cancel", Resting, "done")
  /\ UNCHANGED exchange
  /\ HaltUnchanged

HaltListOrders ==
  /\ halt.at = "list_orders"
  /\ HaltGoesOn("cancel", Resting, "list_positions")
  /\ UNCHANGED exchange
  /\ HaltUnchanged

HaltCancel(o) ==
  /\ halt.at = "cancel" /\ o \in halt.todo
  /\ book' = Gone(o)
  /\ HaltGoesOn("cancel", halt.todo \ {o}, "list_positions")
  /\ UNCHANGED pos
  /\ HaltUnchanged

HaltListPositions ==
  /\ halt.at = "list_positions"
  /\ HaltGoesOn("close", Held, "done")
  /\ UNCHANGED exchange
  /\ HaltUnchanged

HaltClose(s) ==
  /\ halt.at = "close" /\ s \in halt.todo
  /\ pos' = [pos EXCEPT ![s] = 0]
  /\ HaltGoesOn("close", halt.todo \ {s}, "done")
  /\ UNCHANGED book
  /\ HaltUnchanged

(* The WebSocket watchdog halts when the stream has been silent too long.  *)
WatchdogHalt ==
  /\ ~halted
  /\ SetFlag
  /\ UNCHANGED <<exchange, cache, seen, bar, aUsed, rec, router, history>>

-----------------------------------------------------------------------------
(* The reconciler.                                                         *)

RecStart ==
  /\ Reconciles
  /\ rec.at = "idle"
  /\ ~halted
  /\ rec' = [at |-> "read_state", pos |-> cachePos, orders |-> cacheOrders]
  /\ UNCHANGED <<exchange, cache, seen, bar, aUsed, router, halted, halt, history>>

RecReadState ==
  /\ rec.at = "read_state"
  /\ seen' = [seen EXCEPT !["rec"] = pos]
  /\ rec' = [rec EXCEPT !.at = "read_orders"]
  /\ UNCHANGED <<exchange, cache, bar, aUsed, router, halted, halt, history>>

RecReadFailsQuietly ==
  /\ rec.at \in {"read_state", "read_orders"}
  /\ rec' = RecIdle
  /\ seen' = Read("rec")
  /\ UNCHANGED <<exchange, cache, bar, aUsed, router, halted, halt, history>>

(* A refresh that raises halts.                                            *)
RecReadFails ==
  /\ rec.at \in {"read_state", "read_orders"}
  /\ rec' = RecIdle
  /\ seen' = Read("rec")
  /\ SetFlag
  /\ UNCHANGED <<exchange, cache, bar, aUsed, router, history>>

RecReadOrdersAliasing ==
  /\ rec.at = "read_orders"
  /\ WriteCache("rec")
  /\ rec' = [RecIdle EXCEPT !.at =
              IF cachePos # cachePos' \/ cacheOrders # cacheOrders' THEN "halt" ELSE "note"]
  /\ UNCHANGED <<exchange, bar, aUsed, router, halted, halt, history>>

(* The write of the cache and the comparison with the snapshot.  The row   *)
(* in the journal is awaited in either case, before any halt.              *)
RecReadOrders ==
  /\ rec.at = "read_orders"
  /\ WriteCache("rec")
  /\ rec' = [RecIdle EXCEPT !.at =
              IF rec.pos # cachePos' \/ rec.orders # cacheOrders' THEN "halt" ELSE "note"]
  /\ UNCHANGED <<exchange, bar, aUsed, router, halted, halt, history>>

RecNote ==
  /\ rec.at = "note"
  /\ rec' = RecIdle
  /\ UNCHANGED <<exchange, cache, seen, bar, aUsed, router, halted, halt, history>>

RecHalt ==
  /\ rec.at = "halt"
  /\ rec' = RecIdle
  /\ SetFlag
  /\ UNCHANGED <<exchange, cache, seen, bar, aUsed, router, history>>

(* The journal raises and nothing catches it: the task ends.               *)
RecDies ==
  /\ JournalMayFail
  /\ rec.at \in {"note", "halt"}
  /\ rec' = [RecIdle EXCEPT !.at = "dead"]
  /\ UNCHANGED <<exchange, cache, seen, bar, aUsed, router, halted, halt, history>>

-----------------------------------------------------------------------------
Market == \E o \in Oids : Fill(o) \/ DropReduceOnly(o)

BarStep ==
  \/ BarReadState \/ BarReadFails \/ BarReadOrders \/ BarNoQuote
  \/ WouldTake \/ Refused
  \/ \E o \in Oids : Accepted(o) \/ SubmitRaises(o)

StaleStep ==
  \E o \in Oids : StaleCancel(o) \/ StaleCancelRefused(o) \/ StaleCancelRaises(o)

HaltStep ==
  \/ HaltListOrders \/ HaltListPositions
  \/ \E o \in Oids : HaltCancel(o)
  \/ \E s \in Symbols : HaltClose(s)

RecStep == RecReadState \/ RecReadFails \/ RecReadOrders
           \/ RecNote \/ RecHalt \/ RecDies

Next ==
  \/ Market
  \/ BarStep \/ \E s \in Symbols : BarClose(s)
  \/ StaleStep \/ StalePass \/ \E o \in Oids : Age(o)
  \/ HaltStep \/ WatchdogHalt
  \/ RecStep \/ RecStart

(* Timers fire and every await ends; bars, fills and silences need not     *)
(* come.                                                                   *)
Fairness ==
  /\ WF_vars(BarStep)
  /\ WF_vars(StalePass) /\ WF_vars(StaleStep)
  /\ \A o \in Oids : WF_vars(Age(o))
  /\ WF_vars(HaltStep)
  /\ WF_vars(RecStart) /\ WF_vars(RecStep)

Spec == Init /\ [][Next]_vars
FairSpec == Spec /\ Fairness

-----------------------------------------------------------------------------
(* Properties that hold                                                    *)

(* However the tasks interleave, the account never has more open orders    *)
(* than the cap of check_order (manager.py:223): the check reads the cache *)
(* its own task has just written, and no other task places orders.         *)
OpenOrdersWithinCap == Cardinality(Resting) <= MaxOpenOrders

(* When the halt sequence is through, at most one order rests: the one the *)
(* bar loop was sending when the flag was set (order_router.py:104, 144).  *)
AtMostOneSurvivor == halt.at = "done" => Cardinality(Resting) <= 1

(* When the halt sequence is through, an order rests only if its symbol is *)
(* the one the bar loop was last about, and only in that symbol can there  *)
(* be a position.                                                          *)
SurvivorInOneSymbol ==
  halt.at = "done" => /\ Held \subseteq {bar.symbol}
                      /\ \A o \in Resting : book[o].symbol = bar.symbol

(* A request is being sent, and the flag is not looked at again.           *)
Sending == bar.at \in {"first", "retry"}

(* The tasks that trade and the halt together keep the contract of         *)
(* HaltContract, coin by coin: an order is here the coin it is in, resting *)
(* or being sent.  Once the flag is set no coin gains one, positions open  *)
(* from those there are only, and when the sequence is through what is     *)
(* left is excused, which is the coin the bar loop was last about.         *)
Contract == INSTANCE HaltContract WITH
  Orders <- Symbols,
  SymbolOf <- [s \in Symbols |-> s],
  live <- {book[o].symbol : o \in Resting} \cup {s \in {bar.order.symbol} : Sending},
  open <- Held,
  settled <- halt.at = "done",
  excused <- {s \in {bar.symbol} : halt.at = "done"}

ImplementsContract == Contract!Spec

(* At most one request is sent to the exchange after the flag is set: the  *)
(* single retry (order_router.py:299).                                     *)
OneRequestWhileHalted == sentHalted <= 1

(* An order the router does not know of is one whose submission raised or  *)
(* whose cancel was refused; accepted orders are always recorded.          *)
TrackedOrOrphan == Resting \subseteq submitted \cup orphans

(* An order in the router's book does not rest for ever: it fills, is      *)
(* cancelled when stale, halted or not, or the cancel was refused          *)
(* (order_router.py:146-168).  A cancel that raises is tried again at the  *)
(* next pass; the premise is that not every attempt raises.                *)
TrackedOrdersEnd ==
  \A o \in Oids :
    SF_vars(StaleCancel(o)) =>
      ((o \in Resting \cap submitted) ~> (o \notin Resting \/ o \in orphans))

(* An order the router does not know of does not stay hidden while the     *)
(* system trades: it goes, enters the cache through a refresh, or the      *)
(* system halts (reconciler.py:74-98).                                     *)
OrphansAreNoticed ==
  \A o \in Oids :
    (o \in Resting \cap orphans) ~> (o \notin Resting \/ o \in cacheOrders \/ halted)
=============================================================================
