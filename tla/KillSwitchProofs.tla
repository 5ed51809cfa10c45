-------------------------- MODULE KillSwitchProofs --------------------------
(***************************************************************************)
(* Proofs about KillSwitch and TelegramCommands, for any number of         *)
(* callers, orders and symbols, and, at the end, about the stream whose    *)
(* silence makes a caller of the watchdog (WsClient), for any times.       *)
(*                                                                         *)
(* The invariant of a halt follows the runner, the caller whose sequence   *)
(* belongs to the present halt, along its program counter: what is left of *)
(* the orders is explained or still to do from the first answer on, and    *)
(* what is left of the positions from the second on.                       *)
(***************************************************************************)
EXTENDS TelegramCommands, WsClient, TLAPS

Working == {"list_orders", "cancel", "list_positions", "close", "journal"}

(* The explanations gathered so far by the running sequence.               *)
Failed == errors[runner]

(* A clear flag knows of no halt; a set one of everything in flight.       *)
FlagInv ==
  /\ ~halted => runner = NoCaller /\ ~settled
  /\ ~settled => report = {}
  /\ halted => inflight \subseteq late

(* The runner works until it reports, and never reports twice.             *)
RunnerInv ==
  runner # NoCaller =>
    /\ halted
    /\ ~settled => pc[runner] \in Working
    /\ settled => pc[runner] \notin Working

(* Every loop holds the kind of item it iterates over.                     *)
LoopInv ==
  \A c \in Callers :
    /\ pc[c] = "cancel" => todo[c] \subseteq Orders
    /\ pc[c] = "close" => todo[c] \subseteq Symbols

OrdersInv ==
  runner # NoCaller /\ ~settled /\ "list_open_orders" \notin Failed =>
    /\ pc[runner] = "cancel" =>
         resting \subseteq late \cup Failed \cup refused \cup todo[runner]
    /\ pc[runner] \in {"list_positions", "close", "journal"} =>
         resting \subseteq late \cup Failed \cup refused

Suspects == {SymbolOf[o] : o \in late \cup ((Failed \cup refused) \cap Orders)}

PositionsInv ==
  runner # NoCaller /\ ~settled /\ Failed \cap ListFailures = {} =>
    /\ pc[runner] = "close" =>
         open \subseteq Suspects \cup Failed \cup refused \cup todo[runner]
    /\ pc[runner] = "journal" => open \subseteq Suspects \cup Failed \cup refused

Accounts ==
  /\ FlagInv
  /\ RunnerInv
  /\ LoopInv
  /\ OrdersInv
  /\ PositionsInv
  /\ SettledOrders
  /\ SettledPositions

-----------------------------------------------------------------------------
(* The order and the coins in which a step works.                          *)
Items == Orders \cup Symbols

(* A caller that leaves an await keeps the types: GoOn only moves it along *)
(* its loop, drops items from it and adds to its errors.                   *)
LEMMA GoOnType ==
  ASSUME TypeOK, NEW c \in Callers, NEW loop \in Steps, NEW next \in Steps,
         NEW left \in SUBSET Items, NEW failed \in SUBSET ErrorItems,
         GoOn(c, loop, left, next, failed)
  PROVE  /\ pc' \in [Callers -> Steps]
         /\ todo' \in [Callers -> SUBSET (Orders \cup Symbols)]
         /\ errors' \in [Callers -> SUBSET ErrorItems]
  BY DEF GoOn, TypeOK, Items

(* Every step keeps every variable within its type.                        *)
LEMMA TypeStep == TypeOK /\ [Next]_vars => TypeOK'
  <1> SUFFICES ASSUME TypeOK, [Next]_vars PROVE TypeOK'
    OBVIOUS
  <1> USE CallersAssumption, ItemsAssumption
  <1> USE DEF Steps, HaltSteps, ResumeSteps, exchange, history
  <1>0. Route = [start |-> "list_orders", cancelled |-> "list_positions",
                 closed |-> "journal"]
    BY DEF Route
  <1>1. ASSUME NEW o \in Orders, Submit(o) \/ Land(o) \/ Fill(o) PROVE TypeOK'
    BY <1>1 DEF Submit, Land, Fill, TypeOK
  <1>2. ASSUME NEW c \in Callers, Halt(c) PROVE TypeOK'
    BY <1>0, <1>2 DEF Halt, TypeOK, vars
  <1>3. ASSUME NEW c \in Callers, Resume(c) PROVE TypeOK'
    BY <1>3 DEF Resume, TypeOK
  <1>4. ASSUME NEW c \in Callers, ListOrders(c) \/ ListOrdersFails(c) PROVE TypeOK'
    <2>1. CASE ListOrders(c)
      <3>1. resting \in SUBSET Items
        BY DEF TypeOK, Items
      <3> QED BY <1>0, <2>1, <3>1, GoOnType DEF ListOrders, TypeOK
    <2>2. CASE ListOrdersFails(c)
      BY <1>0, <2>2, GoOnType DEF ListOrdersFails, TypeOK, ErrorItems, ListFailures
    <2> QED BY <1>4, <2>1, <2>2
  <1>5. ASSUME NEW c \in Callers, NEW o \in Orders,
               CancelOrder(c, o) \/ CancelRefused(c, o) \/ CancelRaises(c, o)
        PROVE  TypeOK'
    <2>1. todo[c] \ {o} \in SUBSET Items /\ {o} \in SUBSET ErrorItems
      BY DEF TypeOK, Items, ErrorItems
    <2> QED BY <1>0, <1>5, <2>1, GoOnType DEF CancelOrder, CancelRefused, CancelRaises, TypeOK
  <1>6. ASSUME NEW c \in Callers, ListPositions(c) \/ ListPositionsFails(c) PROVE TypeOK'
    <2>1. CASE ListPositions(c)
      <3>1. open \in SUBSET Items
        BY DEF TypeOK, Items
      <3> QED BY <1>0, <2>1, <3>1, GoOnType DEF ListPositions, TypeOK
    <2>2. CASE ListPositionsFails(c)
      BY <1>0, <2>2, GoOnType DEF ListPositionsFails, TypeOK, ErrorItems, ListFailures
    <2> QED BY <1>6, <2>1, <2>2
  <1>7. ASSUME NEW c \in Callers, NEW s \in Symbols,
               ClosePosition(c, s) \/ CloseRefused(c, s) \/ CloseRaises(c, s)
        PROVE  TypeOK'
    <2>1. todo[c] \ {s} \in SUBSET Items /\ {s} \in SUBSET ErrorItems
      BY DEF TypeOK, Items, ErrorItems
    <2> QED BY <1>0, <1>7, <2>1, GoOnType DEF ClosePosition, CloseRefused, CloseRaises, TypeOK
  <1>8. ASSUME NEW c \in Callers,
               \/ JournalHalt(c) \/ Notify(c) \/ NotifyFails(c)
               \/ JournalNotifyError(c) \/ JournalResume(c) \/ NotifyResume(c)
        PROVE  TypeOK'
    <2>1. CASE JournalHalt(c)
      <3>1. errors[c] \in SUBSET ErrorItems
        BY DEF TypeOK
      <3>2. CASE runner = c
        BY <2>1, <3>1, <3>2 DEF JournalHalt, TypeOK
      <3>3. CASE runner # c
        BY <2>1, <3>3 DEF JournalHalt, TypeOK
      <3> QED BY <3>2, <3>3
    <2>2. CASE Notify(c) \/ JournalNotifyError(c) \/ NotifyResume(c)
      BY <2>2 DEF Notify, JournalNotifyError, NotifyResume, TypeOK
    <2>3. CASE NotifyFails(c)
      BY <2>3 DEF NotifyFails, TypeOK
    <2>4. CASE JournalResume(c)
      BY <2>4 DEF JournalResume, TypeOK
    <2> QED BY <1>8, <2>1, <2>2, <2>3, <2>4
  <1>9. ASSUME NEW c \in Callers, Abort(c) \/ JournalRaises(c) PROVE TypeOK'
    BY <1>9 DEF Abort, JournalRaises, Unwind, TypeOK
  <1>10. CASE UNCHANGED vars
    BY <1>10 DEF vars, TypeOK
  <1> QED
    BY <1>1, <1>2, <1>3, <1>4, <1>5, <1>6, <1>7, <1>8, <1>9, <1>10
       DEF Next, Market, HaltStep

(* Type correctness of the kill switch.                                    *)
THEOREM TypeCorrect == Spec => []TypeOK
  <1>1. Init => TypeOK
    BY CallersAssumption DEF Init, TypeOK, Steps
  <1> QED BY <1>1, TypeStep, PTL DEF Spec

-----------------------------------------------------------------------------
(* The inductive step of the settlement invariant.                         *)

(* Trading: a landing order was in flight, a filling one rested, and while *)
(* halted both are explained or still to do.                               *)
LEMMA MarketKeeps ==
  ASSUME TypeOK, Accounts, NEW o \in Orders, Submit(o) \/ Land(o) \/ Fill(o)
  PROVE  Accounts'
  <1> USE ItemsAssumption
  <1> USE DEF exchange, history, Accounts
  <1>1. CASE Submit(o)
    BY <1>1 DEF Submit, TypeOK, FlagInv, RunnerInv, LoopInv, OrdersInv, PositionsInv,
       SettledOrders, SettledPositions, Failed, Suspects, ExplainedOrders
  <1>2. CASE Land(o)
    BY <1>2 DEF Land, TypeOK, FlagInv, RunnerInv, LoopInv, OrdersInv, PositionsInv,
       SettledOrders, SettledPositions, Failed, Suspects, ExplainedOrders
  <1>3. CASE Fill(o)
    <2>1. FlagInv' /\ RunnerInv' /\ LoopInv' /\ OrdersInv' /\ SettledOrders'
      BY <1>3 DEF Fill, TypeOK, FlagInv, RunnerInv, LoopInv, OrdersInv, SettledOrders,
                  Failed, ExplainedOrders
    <2>2. PositionsInv'
      BY <1>3 DEF Fill, TypeOK, OrdersInv, PositionsInv, Failed, Suspects, ListFailures
    <2>3. SettledPositions'
      BY <1>3 DEF Fill, TypeOK, SettledOrders, SettledPositions, ExplainedOrders, ListFailures
    <2> QED BY <2>1, <2>2, <2>3
  <1> QED BY <1>1, <1>2, <1>3

(* Setting and clearing the flag start a new account.                      *)
LEMMA FlagKeeps ==
  ASSUME TypeOK, Accounts, NEW c \in Callers, Halt(c) \/ Resume(c)
  PROVE  Accounts'
  <1> USE CallersAssumption, ItemsAssumption
  <1> USE DEF exchange, history, Accounts
  <1>1. CASE Halt(c) /\ halted
    BY <1>1 DEF Halt, vars, FlagInv, RunnerInv, LoopInv, OrdersInv, PositionsInv,
       SettledOrders, SettledPositions, Failed, Suspects, ExplainedOrders
  <1>2. CASE Halt(c) /\ ~halted
    <2>1. pc' = [pc EXCEPT ![c] = "list_orders"] /\ runner' = c
      BY <1>2 DEF Halt, Route
    <2> QED
      BY <1>2, <2>1 DEF Halt, TypeOK, FlagInv, RunnerInv, LoopInv, OrdersInv,
         PositionsInv, SettledOrders, SettledPositions, Working
  <1>3. CASE Resume(c)
    BY <1>3 DEF Resume, TypeOK, FlagInv, RunnerInv, LoopInv, OrdersInv, PositionsInv,
       SettledOrders, SettledPositions
  <1> QED BY <1>1, <1>2, <1>3

(* A step of a caller that is not the runner only shrinks what is left.    *)
LEMMA BystanderKeeps ==
  ASSUME TypeOK, Accounts, NEW c \in Callers, runner # c,
         pc'[runner] = pc[runner] \/ runner = NoCaller,
         todo'[runner] = todo[runner] \/ runner = NoCaller,
         errors'[runner] = errors[runner] \/ runner = NoCaller,
         LoopInv',
         resting' \subseteq resting, open' \subseteq open,
         UNCHANGED <<halted, inflight, history>>
  PROVE  Accounts'
  <1> USE DEF history, Accounts
  <1> SUFFICES FlagInv' /\ RunnerInv' /\ OrdersInv' /\ PositionsInv'
               /\ SettledOrders' /\ SettledPositions'
    OBVIOUS
  <1>1. FlagInv' /\ RunnerInv'
    BY DEF FlagInv, RunnerInv
  <1>2. OrdersInv'
    BY DEF OrdersInv, Failed
  <1>3. PositionsInv'
    BY DEF PositionsInv, Failed, Suspects
  <1>4. SettledOrders' /\ SettledPositions'
    BY DEF SettledOrders, SettledPositions, ExplainedOrders
  <1> QED BY <1>1, <1>2, <1>3, <1>4

(* The calls of the cancel stage.                                          *)
LEMMA CancelKeeps ==
  ASSUME TypeOK, Accounts, NEW c \in Callers,
         \/ ListOrders(c) \/ ListOrdersFails(c)
         \/ \E o \in Orders : CancelOrder(c, o) \/ CancelRefused(c, o) \/ CancelRaises(c, o)
  PROVE  Accounts'
  <1> USE CallersAssumption, ItemsAssumption
  <1> USE DEF exchange, history, GoOn
  <1>0. Route.cancelled = "list_positions"
    BY DEF Route
  <1>1. LoopInv'
    BY <1>0 DEF Accounts, LoopInv, TypeOK, ListOrders, ListOrdersFails, CancelOrder, CancelRefused,
           CancelRaises
  <1>2. CASE runner # c
    BY <1>1, <1>2, BystanderKeeps DEF TypeOK, ListOrders, ListOrdersFails, CancelOrder, CancelRefused,
           CancelRaises
  <1>3. CASE runner = c
    <2> USE DEF Accounts
    <2>1. halted /\ ~settled /\ ~settled' /\ halted' /\ runner' = runner
      BY <1>3 DEF FlagInv, RunnerInv, Working, ListOrders, ListOrdersFails, CancelOrder, CancelRefused,
           CancelRaises
    <2>2. FlagInv' /\ RunnerInv'
      BY <1>0, <1>3, <2>1 DEF TypeOK, FlagInv, RunnerInv, Working, ListOrders, ListOrdersFails, CancelOrder, CancelRefused,
           CancelRaises
    <2>3. OrdersInv'
      BY <1>0, <1>3, <2>1 DEF TypeOK, OrdersInv, Failed, ListOrders, ListOrdersFails, CancelOrder, CancelRefused,
           CancelRaises
    <2>4. PositionsInv'
      BY <1>0, <1>3, <2>1 DEF TypeOK, PositionsInv, Failed, Suspects, ListOrders, ListOrdersFails, CancelOrder, CancelRefused,
           CancelRaises
    <2>5. SettledOrders' /\ SettledPositions'
      BY <2>1 DEF SettledOrders, SettledPositions
    <2> QED BY <1>1, <2>2, <2>3, <2>4, <2>5
  <1> QED BY <1>2, <1>3

(* The calls of the close stage.                                           *)
LEMMA CloseKeeps ==
  ASSUME TypeOK, Accounts, NEW c \in Callers,
         \/ ListPositions(c) \/ ListPositionsFails(c)
         \/ \E s \in Symbols : ClosePosition(c, s) \/ CloseRefused(c, s) \/ CloseRaises(c, s)
  PROVE  Accounts'
  <1> USE CallersAssumption, ItemsAssumption
  <1> USE DEF exchange, history, GoOn
  <1>0. Route.closed = "journal"
    BY DEF Route
  <1>1. LoopInv'
    BY <1>0 DEF Accounts, LoopInv, TypeOK, ListPositions, ListPositionsFails,
                ClosePosition, CloseRefused, CloseRaises
  <1>2. CASE runner # c
    BY <1>1, <1>2, BystanderKeeps DEF TypeOK, ListPositions, ListPositionsFails,
       ClosePosition, CloseRefused, CloseRaises
  <1>3. CASE runner = c
    <2> USE DEF Accounts
    <2>1. halted /\ ~settled /\ ~settled' /\ halted' /\ runner' = runner
      BY <1>3 DEF FlagInv, RunnerInv, Working, ListPositions, ListPositionsFails,
                  ClosePosition, CloseRefused, CloseRaises
    <2>2. FlagInv' /\ RunnerInv'
      BY <1>0, <1>3, <2>1 DEF TypeOK, FlagInv, RunnerInv, Working, ListPositions,
         ListPositionsFails, ClosePosition, CloseRefused, CloseRaises
    <2>3. OrdersInv'
      BY <1>0, <1>3, <2>1 DEF TypeOK, OrdersInv, Failed, ListPositions,
         ListPositionsFails, ClosePosition, CloseRefused, CloseRaises
    <2>4. PositionsInv'
      BY <1>0, <1>3, <2>1 DEF TypeOK, PositionsInv, Failed, Suspects, ListFailures,
         ListPositions, ListPositionsFails, ClosePosition, CloseRefused, CloseRaises
    <2>5. SettledOrders' /\ SettledPositions'
      BY <2>1 DEF SettledOrders, SettledPositions
    <2> QED BY <1>1, <2>2, <2>3, <2>4, <2>5
  <1> QED BY <1>2, <1>3

(* The report turns the accounts of the runner into those of the halt.     *)
LEMMA ReportKeeps ==
  ASSUME TypeOK, Accounts, NEW c \in Callers, JournalHalt(c)
  PROVE  Accounts'
  <1> USE CallersAssumption, ItemsAssumption
  <1> USE DEF exchange, history
  <1>1. LoopInv'
    BY DEF Accounts, LoopInv, TypeOK, JournalHalt
  <1>2. CASE runner # c
    BY <1>1, <1>2, BystanderKeeps DEF TypeOK, JournalHalt
  <1>3. CASE runner = c
    <2> USE DEF Accounts
    <2>1. halted /\ ~settled /\ settled' /\ report' = Failed
      BY <1>3 DEF FlagInv, RunnerInv, Working, JournalHalt, Failed
    <2>2. FlagInv' /\ RunnerInv'
      BY <1>3, <2>1 DEF TypeOK, FlagInv, RunnerInv, Working, JournalHalt
    <2>3. OrdersInv' /\ PositionsInv'
      BY <2>1 DEF OrdersInv, PositionsInv
    <2>4. SettledOrders'
      <3> SUFFICES ASSUME "list_open_orders" \notin Failed
                   PROVE  resting \subseteq late \cup (Failed \cap Orders) \cup (refused \cap Orders)
        BY <2>1 DEF SettledOrders, ExplainedOrders, JournalHalt
      <3> QED BY <1>3, <2>1 DEF OrdersInv, JournalHalt, TypeOK
    <2>5. SettledPositions'
      <3> SUFFICES ASSUME Failed \cap ListFailures = {}
                   PROVE  open \subseteq Suspects \cup Failed \cup refused
        BY <2>1 DEF SettledPositions, ExplainedOrders, JournalHalt, Suspects
      <3> QED BY <1>3, <2>1 DEF PositionsInv, JournalHalt
    <2> QED BY <1>1, <2>2, <2>3, <2>4, <2>5
  <1> QED BY <1>2, <1>3

(* What follows the report, resume() and the ends of a frame leave the     *)
(* accounts alone.                                                         *)
LEMMA TailKeeps ==
  ASSUME TypeOK, Accounts, NEW c \in Callers,
         \/ Notify(c) \/ NotifyFails(c) \/ JournalNotifyError(c)
         \/ JournalResume(c) \/ NotifyResume(c)
  PROVE  Accounts'
  <1> USE CallersAssumption
  <1> USE DEF exchange, history
  <1> USE DEF Notify, NotifyFails, JournalNotifyError, JournalResume, NotifyResume
  <1>1. LoopInv'
    BY DEF Accounts, LoopInv, TypeOK
  <1>2. CASE runner # c
    BY <1>1, <1>2, BystanderKeeps DEF TypeOK
  <1>3. CASE runner = c
    <2>1. settled /\ settled'
      BY <1>3 DEF Accounts, RunnerInv, Working
    <2> QED
      BY <1>1, <1>3, <2>1 DEF Accounts, TypeOK, FlagInv, RunnerInv, Working, OrdersInv,
         PositionsInv, SettledOrders, SettledPositions, ExplainedOrders
  <1> QED BY <1>2, <1>3

LEMMA UnwindKeeps ==
  ASSUME TypeOK, Accounts, NEW c \in Callers, Unwind(c)
  PROVE  Accounts'
  <1> USE CallersAssumption
  <1> USE DEF exchange, history
  <1>1. LoopInv'
    BY DEF Accounts, LoopInv, TypeOK, Unwind
  <1>2. CASE runner # c
    BY <1>1, <1>2, BystanderKeeps DEF TypeOK, Unwind
  <1>3. CASE runner = c
    BY <1>1, <1>3 DEF Unwind, Accounts, TypeOK, FlagInv, RunnerInv, OrdersInv, PositionsInv,
       SettledOrders, SettledPositions, ExplainedOrders
  <1> QED BY <1>2, <1>3

LEMMA AccountsStep == TypeOK /\ Accounts /\ [Next]_vars => Accounts'
  <1> SUFFICES ASSUME TypeOK, Accounts, [Next]_vars PROVE Accounts'
    OBVIOUS
  <1>1. CASE Market
    BY <1>1, MarketKeeps DEF Market
  <1>2. ASSUME NEW c \in Callers, Halt(c) \/ Resume(c) \/ HaltStep(c) PROVE Accounts'
    BY <1>2, FlagKeeps, CancelKeeps, CloseKeeps, ReportKeeps, TailKeeps DEF HaltStep
  <1>3. ASSUME NEW c \in Callers, Abort(c) \/ JournalRaises(c) PROVE Accounts'
    BY <1>3, UnwindKeeps DEF Abort, JournalRaises
  <1>4. CASE UNCHANGED vars
    BY <1>4 DEF vars, exchange, history, Accounts, FlagInv, RunnerInv, LoopInv, OrdersInv,
       PositionsInv, SettledOrders, SettledPositions, ExplainedOrders, Failed, Suspects
  <1> QED BY <1>1, <1>2, <1>3, <1>4 DEF Next

-----------------------------------------------------------------------------
(* Once a halt has reported, every resting order and every open position   *)
(* is explained (kill_switch.py:83-127), however many callers, aborted     *)
(* sequences and resumes came before.                                      *)
THEOREM Settlement == Spec => []ReportExplainsRest
  <1>1. Init => TypeOK /\ Accounts
    BY CallersAssumption DEF Init, TypeOK, Steps, Accounts, FlagInv, RunnerInv, LoopInv,
       OrdersInv, PositionsInv, SettledOrders, SettledPositions
  <1>2. TypeOK /\ Accounts => ReportExplainsRest
    BY DEF Accounts, ReportExplainsRest
  <1> QED BY <1>1, <1>2, TypeStep, AccountsStep, PTL DEF Spec

-----------------------------------------------------------------------------
(* The kill switch implements HaltContract.                                *)

Settled == settled /\ report \cap ListFailures = {}
Excused == ExplainedOrders \cup (report \cap Symbols) \cup (refused \cap Symbols)
Live    == inflight \cup resting

(* What is left after the report is excused, in the words of the contract. *)
LEMMA LeftIsExcused ==
  ASSUME TypeOK, SettledPositions, Settled
  PROVE  open \subseteq Contract!SymbolsOf(Excused \cap Orders) \cup Excused
  BY ItemsAssumption DEF TypeOK, SettledPositions, Settled, Excused, ExplainedOrders,
     Contract!SymbolsOf

(* While halted, a step that only takes away from the account and excuses  *)
(* no less is a step of the contract.                                      *)
LEMMA HaltedStep ==
  ASSUME TypeOK, TypeOK', Accounts', halted, halted',
         Live' \subseteq Live,
         open' \subseteq open \cup Contract!SymbolsOf(Live),
         Excused \subseteq Excused',
         Settled => Settled' /\ Excused' = Excused,
         ~Settled /\ Settled' => UNCHANGED <<Live, open>>
  PROVE  Contract!Next
  <1>1. Settled' => open' \subseteq Contract!SymbolsOf(Excused' \cap Orders) \cup Excused'
    BY ItemsAssumption DEF TypeOK, Accounts, SettledPositions, Settled, Excused,
       ExplainedOrders, Contract!SymbolsOf
  <1>0. Settled' => Live' \subseteq Excused'
    BY DEF Accounts, FlagInv, SettledOrders, Settled, Live, Excused, ExplainedOrders,
       ListFailures
  <1>2. CASE Settled
    <2>1. Contract!Remain
      BY <1>1, <1>2 DEF Contract!Remain, Settled, Excused, Live
    <2> QED BY <2>1 DEF Contract!Next
  <1>3. CASE ~Settled /\ Settled'
    <2>1. Contract!Settle
      BY <1>0, <1>1, <1>3 DEF Contract!Settle, Settled, Excused, Live
    <2> QED BY <2>1 DEF Contract!Next
  <1>4. CASE ~Settled /\ ~Settled'
    <2>1. Contract!Undo
      BY <1>4 DEF Contract!Undo, Settled, Excused, Live
    <2> QED BY <2>1 DEF Contract!Next
  <1> QED BY <1>2, <1>3, <1>4

(* Every step of the kill switch is a step of the contract or a stutter.   *)
LEMMA ContractStep ==
  TypeOK /\ TypeOK' /\ Accounts /\ Accounts' /\ [Next]_vars
    => [Contract!Next]_(Contract!vars)
  <1> SUFFICES ASSUME TypeOK, TypeOK', Accounts, Accounts', [Next]_vars
               PROVE  [Contract!Next]_(Contract!vars)
    OBVIOUS
  <1> USE CallersAssumption, ItemsAssumption
  <1> USE DEF exchange, history
  <1>2. ASSUME NEW o \in Orders, Submit(o) \/ Land(o) \/ Fill(o)
        PROVE  Contract!Next
    <2>1. CASE ~halted
      <3>1. Contract!Trade
        BY <1>2, <2>1 DEF Submit, Land, Fill, TypeOK, Contract!Trade, ExplainedOrders
      <3> QED BY <3>1 DEF Contract!Next
    <2>2. CASE halted
      <3>1. /\ halted' /\ Live' \subseteq Live
            /\ open' \subseteq open \cup Contract!SymbolsOf(Live)
            /\ UNCHANGED <<settled, report, late, refused>>
        BY <1>2, <2>2 DEF Submit, Land, Fill, TypeOK, Live, Contract!SymbolsOf
      <3>2. Settled' = Settled /\ Excused' = Excused
        BY <3>1 DEF Settled, Excused, ExplainedOrders
      <3> QED BY <2>2, <3>1, <3>2, HaltedStep
    <2> QED BY <2>1, <2>2
  <1>3. ASSUME NEW c \in Callers, Halt(c) PROVE [Contract!Next]_(Contract!vars)
    <2>1. CASE halted
      BY <1>3, <2>1 DEF Halt, vars, Contract!vars, ExplainedOrders
    <2>2. CASE ~halted
      <3>1. Contract!SetFlag
        BY <1>3, <2>2 DEF Halt, Contract!SetFlag, TypeOK, ExplainedOrders, Accounts, FlagInv
      <3> QED BY <3>1 DEF Contract!Next
    <2> QED BY <2>1, <2>2
  <1>4. ASSUME NEW c \in Callers, Resume(c) PROVE Contract!Next
    <2>1. Contract!Resume
      BY <1>4 DEF Resume, Contract!Resume, ExplainedOrders
    <2> QED BY <2>1 DEF Contract!Next
  <1>5. ASSUME NEW c \in Callers, Abort(c) \/ JournalRaises(c)
        PROVE  UNCHANGED Contract!vars
    BY <1>5 DEF Abort, JournalRaises, Unwind, Contract!vars, ExplainedOrders
  <1>6. CASE UNCHANGED vars
    BY <1>6 DEF vars, Contract!vars, ExplainedOrders
  <1>7. ASSUME NEW c \in Callers, HaltStep(c) PROVE [Contract!Next]_(Contract!vars)
    <2>1. /\ UNCHANGED <<halted, inflight, late>>
          /\ resting' \subseteq resting /\ open' \subseteq open
          /\ refused \subseteq refused'
      BY <1>7 DEF HaltStep, TypeOK, ListOrders, ListOrdersFails, CancelOrder, CancelRefused,
         CancelRaises, ListPositions, ListPositionsFails, ClosePosition, CloseRefused,
         CloseRaises, JournalHalt, Notify, NotifyFails, JournalNotifyError, JournalResume,
         NotifyResume
    <2>2. runner # c => UNCHANGED <<settled, report, refused>>
      BY <1>7 DEF HaltStep, ListOrders, ListOrdersFails, CancelOrder, CancelRefused,
         CancelRaises, ListPositions, ListPositionsFails, ClosePosition, CloseRefused,
         CloseRaises, JournalHalt, Notify, NotifyFails, JournalNotifyError, JournalResume,
         NotifyResume
    <2>3. runner = c /\ settled => UNCHANGED <<settled, report, refused>>
      BY <1>7 DEF Accounts, RunnerInv, Working, HaltStep, ListOrders, ListOrdersFails,
         CancelOrder, CancelRefused, CancelRaises, ListPositions, ListPositionsFails,
         ClosePosition, CloseRefused, CloseRaises, JournalHalt, Notify, NotifyFails,
         JournalNotifyError, JournalResume, NotifyResume
    <2>4. ~settled /\ settled' => UNCHANGED <<inflight, resting, open>>
      BY <1>7 DEF HaltStep, ListOrders, ListOrdersFails, CancelOrder, CancelRefused,
         CancelRaises, ListPositions, ListPositionsFails, ClosePosition, CloseRefused,
         CloseRaises, JournalHalt, Notify, NotifyFails, JournalNotifyError, JournalResume,
         NotifyResume
    <2>5. CASE ~halted
      <3>1. runner # c /\ ~settled
        BY <2>5 DEF Accounts, FlagInv
      <3>2. Contract!Trade
        BY <2>1, <2>2, <2>5, <3>1 DEF Contract!Trade, TypeOK, ExplainedOrders
      <3> QED BY <3>2 DEF Contract!Next
    <2>6. CASE halted
      <3>1. settled => Settled' = Settled /\ Excused' = Excused
        BY <2>1, <2>2, <2>3 DEF Settled, Excused, ExplainedOrders
      <3>2. ~settled => Excused \subseteq Excused'
        BY <2>1 DEF Accounts, FlagInv, Excused, ExplainedOrders
      <3>3. ~Settled /\ Settled' => UNCHANGED <<Live, open>>
        BY <2>4, <3>1 DEF Settled, Live
      <3>4. Live' \subseteq Live /\ halted'
        BY <2>1, <2>6 DEF Live
      <3>5. Settled => settled
        BY DEF Settled
      <3> QED BY <2>1, <2>6, <3>1, <3>2, <3>3, <3>4, <3>5, HaltedStep
    <2> QED BY <2>5, <2>6
  <1> QED
    BY <1>2, <1>3, <1>4, <1>5, <1>6, <1>7 DEF Next, Market

(* The kill switch, seen from the account, keeps the contract of           *)
(* HaltContract: no order is born while halted, a report excuses whatever  *)
(* is left, and what is left only shrinks until the operator resumes.      *)
THEOREM Implementation == Spec => ImplementsContract
  <1>1. Init => Contract!Init
    BY DEF Init, Contract!Init, ExplainedOrders
  <1>2. Init => TypeOK /\ Accounts
    BY CallersAssumption DEF Init, TypeOK, Steps, Accounts, FlagInv, RunnerInv, LoopInv,
       OrdersInv, PositionsInv, SettledOrders, SettledPositions
  <1> QED
    BY <1>1, <1>2, TypeStep, AccountsStep, ContractStep, PTL
       DEF Spec, ImplementsContract, Contract!Spec

(* NothingBorn: while the flag is set no order appears, in flight or on    *)
(* the book, whoever runs the sequence and however often it is re-entered  *)
(* (kill_switch.py:3-12, order_router.py:61-66).                           *)
THEOREM NothingBorn == Spec => [][halted /\ halted' => Live' \subseteq Live]_vars
  <1>1. Init => TypeOK /\ Accounts
    BY CallersAssumption DEF Init, TypeOK, Steps, Accounts, FlagInv, RunnerInv, LoopInv,
       OrdersInv, PositionsInv, SettledOrders, SettledPositions
  <1>2. [Contract!Next]_(Contract!vars) => (halted /\ halted' => Live' \subseteq Live)
    BY DEF Contract!Next, Contract!Trade, Contract!SetFlag, Contract!Undo, Contract!Settle,
       Contract!Remain, Contract!Resume, Contract!vars, Live
  <1>3. TypeOK /\ TypeOK' /\ Accounts /\ Accounts' /\ [Next]_vars
          => [halted /\ halted' => Live' \subseteq Live]_vars
    BY <1>2, ContractStep
  <1> QED BY <1>1, <1>3, TypeStep, AccountsStep, PTL DEF Spec

(* Without an operator at most one sequence ever runs: the flag is tested  *)
(* and set in one step (kill_switch.py:79-83) and never cleared.           *)
THEOREM SingleSequence == Spec => []OneSequence
  <1> DEFINE Busy == \A c \in Callers : pc[c] \in HaltSteps => halted
             Alone == \A c, d \in Callers : pc[c] \in HaltSteps /\ pc[d] \in HaltSteps => c = d
             Inv == TypeOK /\ (Operators = {} => Busy /\ Alone)
  <1>1. Init => Inv
    BY CallersAssumption DEF Init, TypeOK, Steps, HaltSteps
  <1>2. Inv /\ [Next]_vars => Inv'
    <2> SUFFICES ASSUME Inv, [Next]_vars PROVE Inv'
      OBVIOUS
    <2>1. TypeOK'
      BY TypeStep
    <2> SUFFICES ASSUME Operators = {} PROVE Busy' /\ Alone'
      BY <2>1
    <2>2. CASE Market \/ UNCHANGED vars
      BY <2>2 DEF Market, Submit, Land, Fill, vars
    <2>3. ASSUME NEW c \in Callers, Halt(c) PROVE Busy' /\ Alone'
      BY <2>3 DEF Halt, vars, TypeOK
    <2>4. ASSUME NEW c \in Callers, HaltStep(c) \/ Abort(c) \/ JournalRaises(c)
          PROVE  Busy' /\ Alone'
      <3>1. halted' = halted
        BY <2>4 DEF HaltStep, Abort, JournalRaises, Unwind, exchange, history, ListOrders,
           ListOrdersFails, CancelOrder, CancelRefused, CancelRaises, ListPositions,
           ListPositionsFails, ClosePosition, CloseRefused, CloseRaises, JournalHalt, Notify,
           NotifyFails, JournalNotifyError, JournalResume, NotifyResume
      <3>2. /\ \A d \in Callers \ {c} : pc'[d] = pc[d]
            /\ pc'[c] \in HaltSteps => pc[c] \in HaltSteps
        BY <2>4 DEF TypeOK, HaltSteps, HaltStep, Abort, JournalRaises, Unwind, GoOn, Route,
           ListOrders, ListOrdersFails, CancelOrder, CancelRefused, CancelRaises,
           ListPositions, ListPositionsFails, ClosePosition, CloseRefused, CloseRaises,
           JournalHalt, Notify, NotifyFails, JournalNotifyError, JournalResume, NotifyResume
      <3> QED BY <3>1, <3>2
    <2>5. ASSUME NEW c \in Callers PROVE ~Resume(c)
      BY DEF Resume
    <2> QED BY <2>2, <2>3, <2>4, <2>5 DEF Next
  <1>3. Inv => OneSequence
    BY DEF OneSequence
  <1> QED BY <1>1, <1>2, <1>3, PTL DEF Spec

(* The journal row of a halt is written by a caller that found the flag    *)
(* set, and until it is written somebody is on the way to it.              *)
JournalInv ==
  Operators = {} =>
    /\ \A c \in Callers : pc[c] \notin ResumeSteps
    /\ \A c \in Callers : pc[c] \in HaltSteps => halted
    /\ lastRecord = "halt" => halted
    /\ halted /\ Cancellable = {} /\ ~JournalMayFail =>
         lastRecord = "halt" \/ \E c \in Callers : pc[c] \in Working

LEMMA JournalStep == TypeOK /\ JournalInv /\ [Next]_vars => JournalInv'
  <1> SUFFICES ASSUME TypeOK, JournalInv, [Next]_vars, Operators = {} PROVE JournalInv'
    BY DEF JournalInv
  <1> USE CallersAssumption DEF JournalInv, exchange, history, HaltSteps, ResumeSteps, Working
  <1>1. CASE Market \/ UNCHANGED vars
    <2>1. UNCHANGED <<halted, pc, lastRecord>>
      BY <1>1 DEF Market, Submit, Land, Fill, vars
    <2> QED BY <2>1
  <1>2. ASSUME NEW c \in Callers, Halt(c) PROVE JournalInv'
    <2>1. CASE halted
      BY <1>2, <2>1 DEF Halt, vars
    <2>2. CASE ~halted
      <3>1. halted' /\ pc' = [pc EXCEPT ![c] = "list_orders"] /\ UNCHANGED lastRecord
        BY <1>2, <2>2 DEF Halt, Route
      <3> QED BY <3>1 DEF TypeOK
    <2> QED BY <2>1, <2>2
  <1>3. ASSUME NEW c \in Callers PROVE ~Resume(c)
    BY DEF Resume
  <1>4. ASSUME NEW c \in Callers,
               \/ ListOrders(c) \/ ListOrdersFails(c)
               \/ \E o \in Orders : CancelOrder(c, o) \/ CancelRefused(c, o) \/ CancelRaises(c, o)
               \/ ListPositions(c) \/ ListPositionsFails(c)
               \/ \E s \in Symbols : ClosePosition(c, s) \/ CloseRefused(c, s) \/ CloseRaises(c, s)
        PROVE  JournalInv'
    <2>1. UNCHANGED <<halted, lastRecord>> /\ pc[c] \in Working
      BY <1>4 DEF ListOrders, ListOrdersFails, CancelOrder, CancelRefused, CancelRaises,
         ListPositions, ListPositionsFails, ClosePosition, CloseRefused, CloseRaises
    <2>2. \E step \in Working : pc' = [pc EXCEPT ![c] = step]
      BY <1>4 DEF GoOn, Route, ListOrders, ListOrdersFails, CancelOrder, CancelRefused,
         CancelRaises, ListPositions, ListPositionsFails, ClosePosition, CloseRefused,
         CloseRaises
    <2> QED BY <2>1, <2>2 DEF TypeOK
  <1>5. ASSUME NEW c \in Callers, JournalHalt(c) PROVE JournalInv'
    BY <1>5 DEF JournalHalt, TypeOK
  <1>6. ASSUME NEW c \in Callers, Notify(c) \/ NotifyFails(c) \/ JournalNotifyError(c)
        PROVE  JournalInv'
    <2>1. UNCHANGED <<halted, lastRecord>> /\ pc[c] \notin Working
      BY <1>6 DEF Notify, NotifyFails, JournalNotifyError
    <2>2. \E step \in {"idle", "notify_error"} : pc' = [pc EXCEPT ![c] = step]
      BY <1>6 DEF Notify, NotifyFails, JournalNotifyError
    <2>3. pc[c] \in HaltSteps
      BY <1>6 DEF Notify, NotifyFails, JournalNotifyError
    <2> QED BY <2>1, <2>2, <2>3 DEF TypeOK
  <1>7. ASSUME NEW c \in Callers PROVE ~JournalResume(c) /\ ~NotifyResume(c)
    BY DEF JournalResume, NotifyResume
  <1>8. ASSUME NEW c \in Callers, Abort(c) \/ JournalRaises(c) PROVE JournalInv'
    BY <1>8 DEF Abort, JournalRaises, Unwind, TypeOK
  <1> QED BY <1>1, <1>2, <1>3, <1>4, <1>5, <1>6, <1>7, <1>8 DEF Next, HaltStep

(* Without an operator the journal and the flag agree whenever nobody is   *)
(* in halt(), for any callers and whatever fails (kill_switch.py:77-135).  *)
THEOREM JournalTells == Spec => []JournalTellsFlag
  <1>1. Init => JournalInv
    BY DEF Init, JournalInv, HaltSteps, ResumeSteps
  <1>2. JournalInv => JournalTellsFlag
    BY DEF JournalInv, JournalTellsFlag, Working
  <1> QED BY <1>1, <1>2, JournalStep, TypeStep, TypeCorrect, PTL DEF Spec

-----------------------------------------------------------------------------
(* The operator's commands: whatever operators command, the kill switch    *)
(* behaves as KillSwitch says, so its theorems hold; and an operator who   *)
(* is told "halted" can rely on what AnswerExplained says.                 *)

(* An operator is in halt() or resume() only while its handler is awaited, *)
(* has no answer before then, and has set the flag when it is.             *)
HandlerInv ==
  \A c \in Operators :
    /\ ~(stage[c] = "handler" /\ command[c] # "/status") => pc[c] = "idle"
    /\ stage[c] # "idle" => told[c] = "nothing"
    /\ stage[c] = "handler" /\ command[c] = "/halt" /\ Operators = {c} => halted
    /\ told[c] = "halted" /\ Operators = {c} => halted

(* Only a cancellation or the journal ends a sequence before its report.   *)
RunnerStays ==
  halted /\ ~settled /\ Cancellable = {} /\ ~JournalMayFail => runner # NoCaller

LEMMA TelegramStep == [TelegramNext]_telegramVars => [Next]_vars
  <1> SUFFICES ASSUME [TelegramNext]_telegramVars PROVE [Next]_vars
    OBVIOUS
  <1> USE CallersAssumption
  <1>1. ASSUME NEW c \in Operators, Command(c)
        PROVE  \/ Halt(c) \/ Resume(c) \/ HaltStep(c) \/ Abort(c) \/ JournalRaises(c)
               \/ UNCHANGED vars
    BY <1>1 DEF Command, Receive, DispatchFails, OnHalt, OnResume, OnStatus, Handle,
       HandlerRaises, Status
  <1> QED BY <1>1 DEF TelegramNext, telegramVars, Next

(* With operators at its keys the kill switch is still a KillSwitch.       *)
THEOREM Commanded == TelegramSpec => Spec
  <1>1. TelegramInit => Init
    BY DEF TelegramInit
  <1> QED BY <1>1, TelegramStep, PTL DEF TelegramSpec, Spec

LEMMA TelegramTypes == TelegramSpec => []TelegramTypeOK
  <1>1. TelegramInit => TelegramTypeOK
    BY DEF TelegramInit, TelegramTypeOK
  <1>2. TelegramTypeOK /\ [TelegramNext]_telegramVars => TelegramTypeOK'
    <2> SUFFICES ASSUME TelegramTypeOK, [TelegramNext]_telegramVars PROVE TelegramTypeOK'
      OBVIOUS
    <2>1. CASE UNCHANGED telegram
      BY <2>1 DEF telegram, TelegramTypeOK
    <2>2. ASSUME NEW c \in Operators, Command(c) PROVE TelegramTypeOK'
      <3>1. ASSUME NEW text \in {"nothing", "halted", "resumed", "running", "error"},
                   Answer(c, text)
            PROVE  TelegramTypeOK'
        BY <3>1 DEF Answer, TelegramTypeOK
      <3>2. CASE \E cmd \in Commands : Receive(c, cmd)
        BY <3>2 DEF Receive, TelegramTypeOK
      <3>3. CASE Await(c)
        BY <3>3 DEF Await, TelegramTypeOK
      <3> QED BY <2>1, <2>2, <3>1, <3>2, <3>3
              DEF Command, DispatchFails, OnHalt, OnResume, OnStatus, Handle, HandlerRaises, Status
    <2> QED BY <2>1, <2>2 DEF TelegramNext, telegramVars, telegram
  <1> QED BY <1>1, <1>2, PTL DEF TelegramSpec

LEMMA AccountsHold == Spec => [](TypeOK /\ Accounts)
  <1>1. Init => TypeOK /\ Accounts
    BY CallersAssumption DEF Init, TypeOK, Steps, Accounts, FlagInv, RunnerInv, LoopInv,
       OrdersInv, PositionsInv, SettledOrders, SettledPositions
  <1> QED BY <1>1, TypeStep, AccountsStep, PTL DEF Spec

(* A caller moves nobody else, and nobody but an operator clears the flag. *)
LEMMA CallerMoves ==
  ASSUME TypeOK, NEW c \in Callers,
         Halt(c) \/ Resume(c) \/ HaltStep(c) \/ Abort(c) \/ JournalRaises(c)
  PROVE  /\ \A d \in Callers \ {c} : pc'[d] = pc[d]
         /\ ~Resume(c) => (halted => halted')
  BY DEF TypeOK, Halt, Resume, HaltStep, Abort, JournalRaises, Unwind, GoOn, exchange, history,
     vars, ListOrders, ListOrdersFails, CancelOrder, CancelRefused, CancelRaises,
     ListPositions, ListPositionsFails, ClosePosition, CloseRefused, CloseRaises, JournalHalt,
     Notify, NotifyFails, JournalNotifyError, JournalResume, NotifyResume

LEMMA RunnerStaysStep == TypeOK /\ RunnerStays /\ [Next]_vars => RunnerStays'
  <1> SUFFICES ASSUME TypeOK, RunnerStays, [Next]_vars, Cancellable = {}, ~JournalMayFail
               PROVE  halted' /\ ~settled' => runner' # NoCaller
    BY DEF RunnerStays
  <1> USE CallersAssumption DEF RunnerStays, exchange, history
  <1>1. CASE Market \/ UNCHANGED vars
    BY <1>1 DEF Market, Submit, Land, Fill, vars
  <1>2. ASSUME NEW c \in Callers, Halt(c) \/ Resume(c)
        PROVE  halted' /\ ~settled' => runner' # NoCaller
    BY <1>2 DEF Halt, Resume, vars
  <1>3. ASSUME NEW c \in Callers, HaltStep(c)
        PROVE  halted' /\ ~settled' => runner' # NoCaller
    BY <1>3 DEF TypeOK, HaltStep, ListOrders, ListOrdersFails, CancelOrder, CancelRefused,
       CancelRaises, ListPositions, ListPositionsFails, ClosePosition, CloseRefused, CloseRaises,
       JournalHalt, Notify, NotifyFails, JournalNotifyError, JournalResume, NotifyResume
  <1>4. ASSUME NEW c \in Callers PROVE ~Abort(c) /\ ~JournalRaises(c)
    BY DEF Abort, JournalRaises
  <1> QED BY <1>1, <1>2, <1>3, <1>4 DEF Next

LEMMA HandlerStep ==
  TypeOK /\ TelegramTypeOK /\ HandlerInv /\ [TelegramNext]_telegramVars => HandlerInv'
  <1> SUFFICES ASSUME TypeOK, TelegramTypeOK, HandlerInv, [TelegramNext]_telegramVars
               PROVE  HandlerInv'
    OBVIOUS
  <1> USE CallersAssumption
  <1>1. CASE UNCHANGED telegramVars
    BY <1>1 DEF telegramVars, telegram, vars, HandlerInv
  <1>2. CASE Market /\ UNCHANGED telegram
    BY <1>2 DEF Market, Submit, Land, Fill, telegram, HandlerInv
  <1>3. ASSUME NEW d \in Callers \ Operators, UNCHANGED telegram,
               Halt(d) \/ HaltStep(d) \/ Abort(d) \/ JournalRaises(d)
        PROVE  HandlerInv'
    <2>1. \A c \in Operators : pc'[c] = pc[c]
      BY <1>3, CallerMoves
    <2>2. halted => halted'
      BY <1>3, CallerMoves DEF Resume
    <2> QED BY <1>3, <2>1, <2>2 DEF telegram, HandlerInv
  <1>4. ASSUME NEW d \in Operators, Command(d) PROVE HandlerInv'
    <2> USE DEF telegram, HandlerInv, TelegramTypeOK
    <2>0. ASSUME NEW c \in Operators, c # d
          PROVE  /\ pc'[c] = pc[c] /\ stage'[c] = stage[c]
                 /\ command'[c] = command[c] /\ told'[c] = told[c]
                 /\ Operators # {c}
      <3>1. pc'[c] = pc[c]
        <4>1. \/ Halt(d) \/ Resume(d) \/ HaltStep(d) \/ Abort(d) \/ JournalRaises(d)
              \/ UNCHANGED vars
          BY <1>4 DEF Command, Receive, DispatchFails, OnHalt, OnResume, OnStatus, Handle,
             HandlerRaises, Status
        <4> QED BY <2>0, <4>1, CallerMoves DEF vars
      <3>2. stage'[c] = stage[c] /\ command'[c] = command[c] /\ told'[c] = told[c]
        BY <1>4, <2>0 DEF Command, Receive, DispatchFails, OnHalt, OnResume, OnStatus, Handle,
           HandlerRaises, Status, Answer, Await
      <3> QED BY <2>0, <3>1, <3>2
    <2> DEFINE Fits ==
          /\ ~(stage'[d] = "handler" /\ command'[d] # "/status") => pc'[d] = "idle"
          /\ stage'[d] # "idle" => told'[d] = "nothing"
          /\ stage'[d] = "handler" /\ command'[d] = "/halt" /\ Operators = {d} => halted'
          /\ told'[d] = "halted" /\ Operators = {d} => halted'
    <2> SUFFICES Fits
      BY <2>0
    <2>1. CASE \E cmd \in Commands : Receive(d, cmd)
      BY <2>1 DEF Receive, vars
    <2>2. CASE DispatchFails(d) \/ OnStatus(d) \/ Status(d)
      BY <2>2 DEF DispatchFails, OnStatus, Status, Dispatched, Answer, Await, vars
    <2>3. CASE OnHalt(d)
      <3>1. command[d] = "/halt" /\ stage[d] = "journal" /\ told[d] = "nothing" /\ halted'
        BY <2>3 DEF OnHalt, Halt, Dispatched, vars
      <3>2. CASE halted
        <4>1. pc'[d] = "idle"
          BY <2>3, <3>2 DEF OnHalt, Halt, vars
        <4> QED BY <2>3, <3>1, <3>2, <4>1 DEF OnHalt, Answer
      <3>3. CASE ~halted
        BY <2>3, <3>1, <3>3 DEF OnHalt, Await
      <3> QED BY <3>2, <3>3
    <2>4. CASE OnResume(d)
      <3>1. command[d] = "/resume" /\ stage[d] = "journal" /\ told[d] = "nothing"
        BY <2>4 DEF OnResume, Dispatched
      <3>2. CASE halted
        BY <2>4, <3>1, <3>2 DEF OnResume, Await
      <3>3. CASE ~halted
        <4>1. pc'[d] = "idle"
          BY <2>4, <3>1, <3>3 DEF OnResume, vars
        <4> QED BY <2>4, <3>1, <3>3, <4>1 DEF OnResume, Answer
      <3> QED BY <3>2, <3>3
    <2>5. CASE Handle(d)
      <3>1. ~Resume(d)
        <4>1. HaltStep(d) => pc[d] # "idle"
          BY DEF HaltStep, ListOrders, ListOrdersFails, CancelOrder, CancelRefused, CancelRaises,
             ListPositions, ListPositionsFails, ClosePosition, CloseRefused, CloseRaises,
             JournalHalt, Notify, NotifyFails, JournalNotifyError, JournalResume, NotifyResume
        <4> QED BY <2>5, <4>1 DEF Handle, Resume
      <3>2. halted => halted'
        BY <2>5, <3>1, CallerMoves DEF Handle
      <3>3. stage[d] = "handler" /\ command[d] # "/status" /\ told[d] = "nothing"
        BY <2>5 DEF Handle
      <3>4. CASE pc'[d] = "idle"
        <4>1. Answer(d, IF command[d] = "/halt" THEN "halted" ELSE "resumed")
          BY <2>5, <3>4 DEF Handle
        <4>2. /\ stage'[d] = "idle"
              /\ told'[d] = IF command[d] = "/halt" THEN "halted" ELSE "resumed"
          BY <4>1 DEF Answer
        <4> QED BY <3>2, <3>3, <3>4, <4>2
      <3>5. CASE pc'[d] # "idle"
        BY <2>5, <3>2, <3>3, <3>5 DEF Handle
      <3> QED BY <3>4, <3>5
    <2>6. CASE HandlerRaises(d)
      <3>1. pc'[d] = "idle" \/ (UNCHANGED pc /\ command[d] = "/status")
        BY <2>6 DEF HandlerRaises, Abort, JournalRaises, Unwind, TypeOK, vars
      <3>2. pc'[d] = "idle"
        BY <2>6, <3>1 DEF HandlerRaises
      <3>3. stage'[d] = "idle" /\ told'[d] = "error"
        BY <2>6 DEF HandlerRaises, Answer
      <3> QED BY <3>2, <3>3
    <2> QED BY <1>4, <2>1, <2>2, <2>3, <2>4, <2>5, <2>6 DEF Command
  <1> QED BY <1>1, <1>2, <1>3, <1>4 DEF TelegramNext

(* "halted" means what AnswerExplained says, for any operators and callers *)
(* (telegram.py:95-98, kill_switch.py:79-83).                              *)
THEOREM Answers == TelegramSpec => []AnswerExplained
  <1>1. TelegramInit => HandlerInv /\ RunnerStays
    BY CallersAssumption DEF TelegramInit, Init, HandlerInv, RunnerStays
  <1>2. TypeOK /\ Accounts /\ HandlerInv /\ RunnerStays => AnswerExplained
    <2> SUFFICES ASSUME Accounts, HandlerInv, RunnerStays,
                        NEW c \in Operators, told[c] = "halted"
                 PROVE  /\ Operators = {c} => halted
                        /\ halted /\ ~settled /\ runner # NoCaller =>
                             runner # c /\ pc[runner] \in HaltSteps
                        /\ halted /\ ~settled /\ runner = NoCaller =>
                             Cancellable # {} \/ JournalMayFail
      BY DEF AnswerExplained
    <2>1. pc[c] = "idle"
      BY DEF HandlerInv
    <2>2. runner # NoCaller /\ ~settled => pc[runner] \in Working
      BY DEF Accounts, RunnerInv
    <2> QED BY <2>1, <2>2, CallersAssumption DEF HandlerInv, RunnerStays, Working, HaltSteps
  <1> QED BY <1>1, <1>2, Commanded, TelegramTypes, AccountsHold, TelegramStep, RunnerStaysStep,
             HandlerStep, PTL DEF TelegramSpec
(* The commanded kill switch keeps the contract of a halt.                 *)
THEOREM CommandedContract == TelegramSpec => ImplementsContract
  BY Commanded, Implementation

(* A halt whose report names no error, which nothing was in flight for and *)
(* of which the exchange refused nothing, has left the account flat, and   *)
(* flat it stays until somebody resumes ("cancel all open orders ... close *)
(* all positions", RISK.md:23-32).                                         *)
Clean == settled /\ report = {} /\ late = {} /\ refused = {}

THEOREM CleanHalt == Spec => [](Clean => inflight = {} /\ resting = {} /\ open = {})
  <1>1. TypeOK /\ Accounts /\ Clean => inflight = {} /\ resting = {} /\ open = {}
    <2> SUFFICES ASSUME TypeOK, Accounts, Clean
                 PROVE  inflight = {} /\ resting = {} /\ open = {}
      OBVIOUS
    <2>1. ExplainedOrders = {} /\ report \cap ListFailures = {}
      BY DEF Clean, ExplainedOrders
    <2>2. resting = {}
      BY <2>1 DEF Accounts, SettledOrders, Clean
    <2>3. open = {}
      BY <2>1 DEF Accounts, SettledPositions, Clean
    <2>4. inflight = {}
      BY DEF Accounts, FlagInv, TypeOK, Clean
    <2> QED BY <2>2, <2>3, <2>4
  <1> QED BY <1>1, AccountsHold, PTL

-----------------------------------------------------------------------------
(* A sequence never goes back.                                             *)

Place == [list_orders |-> 1, cancel |-> 2, list_positions |-> 3, close |-> 4,
          journal |-> 5, notify |-> 6, notify_error |-> 7, idle |-> 8]

(* A caller in halt() comes to a later await, or has less left to do in    *)
(* the loop it is in.                                                      *)
Advances(c) ==
  \/ Place[pc[c]] < Place[pc'[c]]
  \/ pc'[c] = pc[c] /\ todo'[c] \subseteq todo[c] /\ todo'[c] # todo[c]

Waits(c) == pc'[c] = pc[c] /\ todo'[c] = todo[c] /\ errors'[c] = errors[c]

(* Whoever is in halt() waits or advances, whatever fails and whatever the *)
(* others do, and forgets no error on the way to its report.               *)
Progresses(c) ==
  pc[c] \in HaltSteps =>
    /\ Waits(c) \/ Advances(c)
    /\ pc'[c] # "idle" => errors[c] \subseteq errors'[c]

LEMMA PlaceIs ==
  /\ Place["list_orders"] = 1 /\ Place["cancel"] = 2 /\ Place["list_positions"] = 3
  /\ Place["close"] = 4 /\ Place["journal"] = 5 /\ Place["notify"] = 6
  /\ Place["notify_error"] = 7 /\ Place["idle"] = 8
  BY DEF Place

(* Leaving an await, with items of its loop done or with none to do.       *)
LEMMA GoOnAdvances ==
  ASSUME TypeOK, NEW c \in Callers, NEW loop \in HaltSteps, NEW next \in HaltSteps,
         NEW left, NEW failed, GoOn(c, loop, left, next, failed),
         Place[loop] < Place[next], pc[c] # loop => Place[pc[c]] < Place[loop],
         Place[pc[c]] \in Nat, Place[loop] \in Nat, Place[next] \in Nat,
         pc[c] = loop => left \subseteq todo[c] /\ left # todo[c]
  PROVE  Advances(c) /\ errors[c] \subseteq errors'[c]
  <1>1. /\ pc'[c] = (IF left = {} THEN next ELSE loop)
        /\ todo'[c] = left /\ errors'[c] = errors[c] \cup failed
    BY DEF GoOn, TypeOK
  <1>2. CASE left = {}
    BY <1>1, <1>2 DEF Advances
  <1>3. CASE left # {} /\ pc[c] = loop
    BY <1>1, <1>3 DEF Advances
  <1>4. CASE left # {} /\ pc[c] # loop
    BY <1>1, <1>4 DEF Advances
  <1> QED BY <1>2, <1>3, <1>4

(* A sequence's own step.                                                  *)
LEMMA OwnStep ==
  ASSUME TypeOK, NEW c \in Callers, HaltStep(c), pc[c] \in HaltSteps
  PROVE  Advances(c) /\ (pc'[c] # "idle" => errors[c] \subseteq errors'[c])
  <1> USE PlaceIs
  <1>0. /\ Route = [start |-> "list_orders", cancelled |-> "list_positions",
                     closed |-> "journal"]
        /\ {"cancel", "close", "list_positions", "journal"} \subseteq HaltSteps
    BY DEF Route, HaltSteps
  <1>1. CASE ListOrders(c) \/ ListOrdersFails(c)
    BY <1>0, <1>1, GoOnAdvances DEF ListOrders, ListOrdersFails
  <1>2. CASE \E o \in Orders : CancelOrder(c, o) \/ CancelRefused(c, o) \/ CancelRaises(c, o)
    <2>1. PICK o \in Orders : CancelOrder(c, o) \/ CancelRefused(c, o) \/ CancelRaises(c, o)
      BY <1>2
    <2>2. todo[c] \ {o} \subseteq todo[c] /\ todo[c] \ {o} # todo[c] /\ pc[c] = "cancel"
      BY <2>1 DEF CancelOrder, CancelRefused, CancelRaises
    <2>3. PICK failed : GoOn(c, "cancel", todo[c] \ {o}, "list_positions", failed)
      BY <1>0, <2>1 DEF CancelOrder, CancelRefused, CancelRaises
    <2> QED BY <1>0, <2>2, <2>3, GoOnAdvances
  <1>3. CASE ListPositions(c) \/ ListPositionsFails(c)
    BY <1>0, <1>3, GoOnAdvances DEF ListPositions, ListPositionsFails
  <1>4. CASE \E s \in Symbols : ClosePosition(c, s) \/ CloseRefused(c, s) \/ CloseRaises(c, s)
    <2>1. PICK s \in Symbols : ClosePosition(c, s) \/ CloseRefused(c, s) \/ CloseRaises(c, s)
      BY <1>4
    <2>2. todo[c] \ {s} \subseteq todo[c] /\ todo[c] \ {s} # todo[c] /\ pc[c] = "close"
      BY <2>1 DEF ClosePosition, CloseRefused, CloseRaises
    <2>3. PICK failed : GoOn(c, "close", todo[c] \ {s}, "journal", failed)
      BY <1>0, <2>1 DEF ClosePosition, CloseRefused, CloseRaises
    <2> QED BY <1>0, <2>2, <2>3, GoOnAdvances
  <1>5. CASE JournalHalt(c) \/ Notify(c) \/ NotifyFails(c) \/ JournalNotifyError(c)
    BY <1>5 DEF JournalHalt, Notify, NotifyFails, JournalNotifyError, Advances, TypeOK, HaltSteps
  <1>6. CASE JournalResume(c) \/ NotifyResume(c)
    BY <1>6 DEF JournalResume, NotifyResume, HaltSteps
  <1> QED BY <1>1, <1>2, <1>3, <1>4, <1>5, <1>6 DEF HaltStep

(* Nobody else touches it.                                                 *)
LEMMA OthersWait ==
  ASSUME TypeOK, NEW c \in Callers, NEW d \in Callers, d # c,
         Halt(d) \/ Resume(d) \/ HaltStep(d) \/ Abort(d) \/ JournalRaises(d)
  PROVE  Waits(c)
  BY DEF TypeOK, Waits, Halt, Resume, HaltStep, Abort, JournalRaises, Unwind, GoOn, vars,
     ListOrders, ListOrdersFails, CancelOrder, CancelRefused, CancelRaises,
     ListPositions, ListPositionsFails, ClosePosition, CloseRefused, CloseRaises, JournalHalt,
     Notify, NotifyFails, JournalNotifyError, JournalResume, NotifyResume

LEMMA ProgressStep ==
  ASSUME TypeOK, [Next]_vars, NEW c \in Callers
  PROVE  Progresses(c)
  <1> SUFFICES ASSUME pc[c] \in HaltSteps
               PROVE  /\ Waits(c) \/ Advances(c)
                      /\ pc'[c] # "idle" => errors[c] \subseteq errors'[c]
    BY DEF Progresses
  <1>1. CASE Market \/ UNCHANGED vars
    BY <1>1 DEF Market, Submit, Land, Fill, vars, Waits
  <1>2. ASSUME NEW d \in Callers, d # c,
               Halt(d) \/ Resume(d) \/ HaltStep(d) \/ Abort(d) \/ JournalRaises(d)
        PROVE  Waits(c)
    BY <1>2, OthersWait
  <1>3. CASE Halt(c) \/ Resume(c)
    BY <1>3 DEF Halt, Resume, HaltSteps
  <1>4. CASE HaltStep(c)
    BY <1>4, OwnStep
  <1>5. CASE Abort(c) \/ JournalRaises(c)
    BY <1>5, PlaceIs DEF Abort, JournalRaises, Unwind, TypeOK, HaltSteps, Advances
  <1> QED BY <1>1, <1>2, <1>3, <1>4, <1>5 DEF Next, Waits

(* What HaltSettles rests on besides fairness: a halt never goes back to   *)
(* an earlier await and each loop loses an item with every answer, so that *)
(* finitely many answers bring it to its report with all the errors it met *)
(* (kill_switch.py:84-127).                                                *)
THEOREM HaltAdvances == Spec => [][\A c \in Callers : Progresses(c)]_vars
  <1>1. TypeOK /\ [Next]_vars => [\A c \in Callers : Progresses(c)]_vars
    BY ProgressStep
  <1> QED BY <1>1, TypeCorrect, PTL DEF Spec

-----------------------------------------------------------------------------
(* The watchdog, the caller that halts for a silent stream.                *)

LEMMA Times ==
  /\ Stale \in Nat \ {0} /\ FirstDelay \in Nat \ {0} /\ MaxBackoff \in Nat \ {0}
  /\ OpenTimeout \in Nat \ {0} /\ MaxQuiet \in Nat \ {0}
  /\ FirstDelay <= MaxBackoff /\ Stale + 1 < MaxQuiet
  BY TimesAssumption DEF TimesAssumption

LEMMA SmallerIs ==
  \A m, n \in Int : Smaller(m, n) \in {m, n} /\ Smaller(m, n) <= m /\ Smaller(m, n) <= n
  BY DEF Smaller

(* Doubled after every failure, the backoff never passes max_backoff.      *)
LEMMA Doubled ==
  ASSUME NEW b \in FirstDelay..MaxBackoff
  PROVE  Smaller(2 * b, MaxBackoff) \in FirstDelay..MaxBackoff
  <1>1. b \in Int /\ 2 * b \in Int /\ FirstDelay <= 2 * b
    BY Times
  <1> QED BY <1>1, SmallerIs, Times

(* A unit of time more, as far as times are told apart.                    *)
LEMMA LaterIs ==
  ASSUME NEW m \in 0..MaxQuiet, NEW n \in 0..MaxQuiet, m <= n
  PROVE  /\ Smaller(m + 1, MaxQuiet) \in 0..MaxQuiet
         /\ Smaller(m + 1, MaxQuiet) <= Smaller(n + 1, MaxQuiet)
  BY Times DEF Smaller

(* What the timers are set to is within their ranges.                      *)
LEMMA TimerRanges ==
  /\ 0 \in 0..MaxQuiet /\ FirstDelay \in FirstDelay..MaxBackoff
  /\ OpenTimeout \in 0..(MaxBackoff + OpenTimeout)
  /\ \A b \in FirstDelay..MaxBackoff : b \in 0..(MaxBackoff + OpenTimeout)
  BY Times

(* Every step keeps every variable of the stream within its type.          *)
LEMMA StreamTypeStep == StreamTypeOK /\ [StreamNext]_streamVars => StreamTypeOK'
  <1> SUFFICES ASSUME StreamTypeOK, [StreamNext]_streamVars PROVE StreamTypeOK'
    OBVIOUS
  <1> USE DEF StreamTypeOK, silence
  <1>1. CASE Connect \/ Subscribed \/ Fails
    <2>1. CASE Connect
      BY TimerRanges, <2>1 DEF Connect
    <2>2. CASE Subscribed \/ Fails
      BY <2>2 DEF Subscribed, Fails
    <2> QED BY <1>1, <2>1, <2>2
  <1>2. CASE Message
    <2>1. CASE stopped
      BY TimerRanges, <1>2, <2>1 DEF Message
    <2>2. CASE ~stopped
      BY TimerRanges, <1>2, <2>2 DEF Message
    <2> QED BY <2>1, <2>2
  <1>3. CASE CleanEnd \/ Slept
    BY TimerRanges, <1>3 DEF CleanEnd, Slept, Again
  <1>4. CASE Told
    BY TimerRanges, <1>4, Doubled DEF Told
  <1>5. CASE Check \/ HaltDone
    BY <1>5 DEF Check, HaltDone, Alarm
  <1>6. CASE Resumed \/ Stop \/ Cancelled
    BY <1>6 DEF Resumed, Stop, Cancelled, client
  <1>7. CASE TimePasses
    <2>1. last' \in 0..MaxQuiet /\ quiet' \in 0..MaxQuiet
      BY <1>7, LaterIs, Times DEF TimePasses
    <2>2. delay' \in 0..(MaxBackoff + OpenTimeout)
      BY <1>7, Times DEF TimePasses
    <2> QED BY <1>7, <2>1, <2>2 DEF TimePasses
  <1>8. CASE UNCHANGED streamVars
    BY <1>8 DEF streamVars, client
  <1> QED BY <1>1, <1>2, <1>3, <1>4, <1>5, <1>6, <1>7, <1>8 DEF StreamNext

(* The clock of a connection is never ahead of the silence: a message sets *)
(* both back, a new connection the clock alone (ws_client.py:104).         *)
ClockInv == last <= quiet

LEMMA ClockStep ==
  StreamTypeOK /\ ClockInv /\ [StreamNext]_streamVars => ClockInv'
  <1> SUFFICES ASSUME StreamTypeOK, ClockInv, [StreamNext]_streamVars PROVE ClockInv'
    OBVIOUS
  <1> USE Times
  <1> USE DEF ClockInv, silence
  <1>1. CASE Connect \/ Message
    BY <1>1 DEF Connect, Message, StreamTypeOK
  <1>2. CASE TimePasses
    BY <1>2, LaterIs DEF TimePasses, StreamTypeOK
  <1>3. CASE \/ Subscribed \/ CleanEnd \/ Fails \/ Told \/ Slept \/ Check \/ HaltDone
             \/ Resumed \/ Stop \/ Cancelled \/ UNCHANGED streamVars
    BY <1>3 DEF Subscribed, CleanEnd, Fails, Told, Slept, Check, HaltDone, Resumed, Stop,
       Cancelled, streamVars, client
  <1> QED BY <1>1, <1>2, <1>3 DEF StreamNext

LEMMA StreamInitially == StreamInit => StreamTypeOK /\ ClockInv
  <1> SUFFICES ASSUME StreamInit PROVE StreamTypeOK /\ ClockInv
    OBVIOUS
  <1>1. ClockInv
    BY DEF StreamInit, ClockInv
  <1>2. StreamTypeOK
    BY TimerRanges DEF StreamInit, StreamTypeOK
  <1> QED BY <1>1, <1>2

(* The stream and its watchdog keep their types: there is no watchdog but  *)
(* beside a connection that reads, and the backoff stays within its bounds *)
(* (ws_client.py:90-126).                                                  *)
THEOREM StreamTypes == StreamSpec => []StreamTypeOK
  BY StreamInitially, StreamTypeStep, PTL DEF StreamSpec

(* The watchdog sounds no false alarm: when it does, no message has come   *)
(* for stale_seconds, on whatever connections (ws_client.py:130-137).      *)
THEOREM NoneFalse == StreamSpec => NoFalseAlarm
  <1>1. /\ StreamTypeOK /\ ClockInv /\ [StreamNext]_streamVars
        => [~emitted /\ emitted' => quiet >= Stale]_streamVars
    <2> SUFFICES ASSUME StreamTypeOK, ClockInv, StreamNext, ~emitted, emitted'
                 PROVE  quiet >= Stale
      OBVIOUS
    <2>1. Check
      BY DEF StreamNext, Connect, Subscribed, Message, CleanEnd, Fails, Told, Slept,
         HaltDone, Resumed, Stop, Cancelled, TimePasses, client
    <2>2. last >= Stale
      BY <2>1 DEF Check, Alarm
    <2> QED BY <2>2, Times DEF ClockInv, StreamTypeOK
  <1> QED BY <1>1, StreamInitially, StreamTypeStep, ClockStep, PTL DEF StreamSpec, NoFalseAlarm
=============================================================================
