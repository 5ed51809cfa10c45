----------------------------- MODULE KillSwitch -----------------------------
(***************************************************************************)
(* The halt sequence of src/src/risk/kill_switch.py, run by several        *)
(* asyncio callers against an exchange that keeps trading while it runs.   *)
(*                                                                         *)
(* A caller is a task that may call halt(): the WebSocket watchdog, the    *)
(* reconciler, the operator's command router.  One action of a caller is   *)
(* the code between two awaits that really suspend; `pc` names the await   *)
(* the caller is suspended at.  The asyncio.Lock around the flag is never  *)
(* contended (nothing suspends inside it), so the test-and-set of the flag *)
(* is one step.                                                            *)
(*                                                                         *)
(* The exchange is external: an order in flight lands, is dropped or is    *)
(* filled whenever it likes, and a call may be answered, refused without   *)
(* an exception (the adapter ignores the answers of cancel and             *)
(* market_close), or raise.                                                *)
(***************************************************************************)
CONSTANTS
  Orders,          \* order slots of the account on the exchange
  Symbols,         \* traded coins
  SymbolOf,        \* the coin an order is for
  Callers,         \* tasks that may call halt()
  Operators,       \* the callers that may call resume()
  Cancellable,     \* the callers whose task can be cancelled in mid-halt
  NoCaller,        \* stands for "nobody"
  JournalMayFail   \* whether journal.append may raise (disk full, locked file)

ASSUME CallersAssumption ==
  /\ Operators \subseteq Callers
  /\ Cancellable \subseteq Callers
  /\ NoCaller \notin Callers
  /\ JournalMayFail \in BOOLEAN

ASSUME ItemsAssumption ==
  /\ SymbolOf \in [Orders -> Symbols]
  /\ Orders \cap Symbols = {}

VARIABLES
  halted,      \* KillSwitch._halted
  pc,          \* the await each caller is suspended at
  todo,        \* what is left of the for loop a caller is in
  errors,      \* cancel_errors and close_errors of each running halt()
  inflight,    \* exchange: orders sent by the router and not yet answered
  resting,     \* exchange: open orders
  open,        \* exchange: symbols with a position
  runner,      \* history: the caller running the sequence of this halt
  settled,     \* history: this halt has journalled its report
  report,      \* history: the errors in that report
  late,        \* history: the orders in flight when the flag was set
  refused,     \* history: what the exchange refused to undo without raising
  lastRecord   \* history: the newest halt or resume row of the journal

exchange == <<inflight, resting, open>>
history  == <<runner, settled, report, late, refused>>
vars == <<halted, pc, todo, errors, exchange, history, lastRecord>>

(* The two list calls can fail as a whole; the error lists then say so.    *)
ListFailures == {"list_open_orders", "list_positions"}
ErrorItems   == Orders \cup Symbols \cup ListFailures

HaltSteps == {"list_orders", "cancel", "list_positions", "close",
              "journal", "notify", "notify_error"}
ResumeSteps == {"resume_journal", "resume_notify", "resume_notify_error"}
Steps == {"idle"} \cup HaltSteps \cup ResumeSteps

TypeOK ==
  /\ halted \in BOOLEAN
  /\ pc \in [Callers -> Steps]
  /\ todo \in [Callers -> SUBSET (Orders \cup Symbols)]
  /\ errors \in [Callers -> SUBSET ErrorItems]
  /\ inflight \subseteq Orders
  /\ resting \subseteq Orders
  /\ open \subseteq Symbols
  /\ runner \in Callers \cup {NoCaller}
  /\ settled \in BOOLEAN
  /\ report \subseteq ErrorItems
  /\ late \subseteq Orders
  /\ refused \subseteq Orders \cup Symbols
  /\ lastRecord \in {"none", "halt", "resume"}

Init ==
  /\ halted = FALSE
  /\ pc = [c \in Callers |-> "idle"]
  /\ todo = [c \in Callers |-> {}]
  /\ errors = [c \in Callers |-> {}]
  /\ inflight = {} /\ resting = {} /\ open = {}
  /\ runner = NoCaller
  /\ settled = FALSE
  /\ report = {} /\ late = {} /\ refused = {}
  /\ lastRecord = "none"

(* Where halt() goes when it has set the flag, when it has worked through  *)
(* the orders, and when it has worked through the positions.               *)
RouteClosingFirst ==
  [start |-> "list_positions", cancelled |-> "journal", closed |-> "list_orders"]
Route ==
  [start |-> "list_orders", cancelled |-> "list_positions", closed |-> "journal"]

-----------------------------------------------------------------------------
(* The rest of the program and the exchange.                               *)
(*                                                                         *)
(* A definition whose name has a suffix and that no action uses is a       *)
(* variant: the definition below it with one plausible slip.  PROJECT.json *)
(* names the property each variant must break.                             *)

SubmitUnchecked(o) ==
  /\ o \notin inflight \cup resting
  /\ inflight' = inflight \cup {o}
  /\ UNCHANGED <<halted, pc, todo, errors, resting, open, history, lastRecord>>

(* The router sends an order: submit_target tested the flag in this step.  *)
Submit(o) ==
  /\ ~halted
  /\ o \notin inflight \cup resting
  /\ inflight' = inflight \cup {o}
  /\ UNCHANGED <<halted, pc, todo, errors, resting, open, history, lastRecord>>

(* The exchange answers: the order rests, or it was rejected or lost.      *)
Land(o) ==
  /\ o \in inflight
  /\ inflight' = inflight \ {o}
  /\ resting' \in {resting, resting \cup {o}}
  /\ UNCHANGED <<halted, pc, todo, errors, open, history, lastRecord>>

(* A resting order fills, wholly or in part, and opens or flattens the     *)
(* position in its coin.                                                   *)
Fill(o) ==
  /\ o \in resting
  /\ resting' \in {resting, resting \ {o}}
  /\ open' \in {open \cup {SymbolOf[o]}, open \ {SymbolOf[o]}}
  /\ UNCHANGED <<halted, pc, todo, errors, inflight, history, lastRecord>>

-----------------------------------------------------------------------------
(* halt(reason)                                                            *)

HaltReentrant(c) ==
  /\ pc[c] = "idle"
  /\ halted' = TRUE
  /\ pc' = [pc EXCEPT ![c] = Route.start]
  /\ todo' = [todo EXCEPT ![c] = {}]
  /\ errors' = [errors EXCEPT ![c] = {}]
  /\ runner' = c
  /\ settled' = FALSE
  /\ report' = {}
  /\ late' = inflight
  /\ refused' = {}
  /\ UNCHANGED <<exchange, lastRecord>>

(* Re-entry is a no-op; the first caller sets the flag and goes on to the  *)
(* first await, list_open_orders.                                          *)
Halt(c) ==
  /\ pc[c] = "idle"
  /\ IF halted
     THEN UNCHANGED vars
     ELSE /\ halted' = TRUE
          /\ pc' = [pc EXCEPT ![c] = Route.start]
          /\ todo' = [todo EXCEPT ![c] = {}]
          /\ errors' = [errors EXCEPT ![c] = {}]
          /\ runner' = c
          /\ settled' = FALSE
          /\ report' = {}
          /\ late' = inflight
          /\ refused' = {}
          /\ UNCHANGED <<exchange, lastRecord>>

(* Caller c leaves an await: it goes on with the items `left` of its loop, *)
(* or past the loop when there are none, adding `failed` to its errors.    *)
GoOn(c, loop, left, next, failed) ==
  /\ pc' = [pc EXCEPT ![c] = IF left = {} THEN next ELSE loop]
  /\ todo' = [todo EXCEPT ![c] = left]
  /\ errors' = [errors EXCEPT ![c] = @ \cup failed]

ListOrders(c) ==
  /\ pc[c] = "list_orders"
  /\ GoOn(c, "cancel", resting, Route.cancelled, {})
  /\ UNCHANGED <<halted, exchange, history, lastRecord>>

ListOrdersFailsReturning(c) ==
  /\ pc[c] = "list_orders"
  /\ pc' = [pc EXCEPT ![c] = "idle"]
  /\ UNCHANGED <<halted, todo, errors, exchange, history, lastRecord>>

ListOrdersFails(c) ==
  /\ pc[c] = "list_orders"
  /\ GoOn(c, "cancel", {}, Route.cancelled, {"list_open_orders"})
  /\ UNCHANGED <<halted, exchange, history, lastRecord>>

(* The exchange cancels the order; an order that has filled or gone in the *)
(* meantime is answered with an error status that nobody reads.            *)
CancelOrder(c, o) ==
  /\ pc[c] = "cancel" /\ o \in todo[c]
  /\ resting' = resting \ {o}
  /\ GoOn(c, "cancel", todo[c] \ {o}, Route.cancelled, {})
  /\ UNCHANGED <<halted, inflight, open, history, lastRecord>>

(* An error status for an order that does rest: no exception, no effect.   *)
CancelRefused(c, o) ==
  /\ pc[c] = "cancel" /\ o \in todo[c] \cap resting
  /\ refused' = IF runner = c THEN refused \cup {o} ELSE refused
  /\ GoOn(c, "cancel", todo[c] \ {o}, Route.cancelled, {})
  /\ UNCHANGED <<halted, exchange, runner, settled, report, late, lastRecord>>

CancelRaisesStartingOver(c, o) ==
  /\ pc[c] = "cancel" /\ o \in todo[c]
  /\ pc' = [pc EXCEPT ![c] = "list_orders"]
  /\ todo' = [todo EXCEPT ![c] = {}]
  /\ UNCHANGED <<halted, errors, exchange, history, lastRecord>>

(* The call raises; the exchange may have cancelled the order all the same.*)
CancelRaises(c, o) ==
  /\ pc[c] = "cancel" /\ o \in todo[c]
  /\ resting' \in {resting, resting \ {o}}
  /\ GoOn(c, "cancel", todo[c] \ {o}, Route.cancelled, {o})
  /\ UNCHANGED <<halted, inflight, open, history, lastRecord>>

ListPositions(c) ==
  /\ pc[c] = "list_positions"
  /\ GoOn(c, "close", open, Route.closed, {})
  /\ UNCHANGED <<halted, exchange, history, lastRecord>>

ListPositionsFails(c) ==
  /\ pc[c] = "list_positions"
  /\ GoOn(c, "close", {}, Route.closed, {"list_positions"})
  /\ UNCHANGED <<halted, exchange, history, lastRecord>>

ClosePosition(c, s) ==
  /\ pc[c] = "close" /\ s \in todo[c]
  /\ open' = open \ {s}
  /\ GoOn(c, "close", todo[c] \ {s}, Route.closed, {})
  /\ UNCHANGED <<halted, inflight, resting, history, lastRecord>>

(* The market order finds no (or not enough) liquidity within the SDK's    *)
(* slippage, or is refused: the call returns and the position stays.       *)
CloseRefused(c, s) ==
  /\ pc[c] = "close" /\ s \in todo[c] \cap open
  /\ refused' = IF runner = c THEN refused \cup {s} ELSE refused
  /\ GoOn(c, "close", todo[c] \ {s}, Route.closed, {})
  /\ UNCHANGED <<halted, exchange, runner, settled, report, late, lastRecord>>

CloseRaises(c, s) ==
  /\ pc[c] = "close" /\ s \in todo[c]
  /\ open' \in {open, open \ {s}}
  /\ GoOn(c, "close", todo[c] \ {s}, Route.closed, {s})
  /\ UNCHANGED <<halted, inflight, resting, history, lastRecord>>

JournalHaltWithoutErrors(c) ==
  /\ pc[c] = "journal"
  /\ pc' = [pc EXCEPT ![c] = "notify"]
  /\ lastRecord' = "halt"
  /\ IF runner = c
     THEN settled' = TRUE /\ report' = {}
     ELSE UNCHANGED <<settled, report>>
  /\ UNCHANGED <<halted, todo, errors, exchange, runner, late, refused>>

(* The halt row, with the errors met on the way.                           *)
JournalHalt(c) ==
  /\ pc[c] = "journal"
  /\ pc' = [pc EXCEPT ![c] = "notify"]
  /\ lastRecord' = "halt"
  /\ IF runner = c
     THEN settled' = TRUE /\ report' = errors[c]
     ELSE UNCHANGED <<settled, report>>
  /\ UNCHANGED <<halted, todo, errors, exchange, runner, late, refused>>

(* notifier.send returns, or raises and the error is journalled.           *)
Notify(c) ==
  /\ pc[c] = "notify"
  /\ pc' = [pc EXCEPT ![c] = "idle"]
  /\ UNCHANGED <<halted, todo, errors, exchange, history, lastRecord>>

NotifyFails(c) ==
  /\ pc[c] \in {"notify", "resume_notify"}
  /\ pc' = [pc EXCEPT ![c] = IF @ = "notify" THEN "notify_error"
                                             ELSE "resume_notify_error"]
  /\ UNCHANGED <<halted, todo, errors, exchange, history, lastRecord>>

JournalNotifyError(c) ==
  /\ pc[c] \in {"notify_error", "resume_notify_error"}
  /\ pc' = [pc EXCEPT ![c] = "idle"]
  /\ UNCHANGED <<halted, todo, errors, exchange, history, lastRecord>>

-----------------------------------------------------------------------------
(* resume()                                                                *)

(* A sequence still running goes on, but no longer belongs to a halt.      *)
Resume(c) ==
  /\ c \in Operators
  /\ pc[c] = "idle"
  /\ halted
  /\ halted' = FALSE
  /\ pc' = [pc EXCEPT ![c] = "resume_journal"]
  /\ runner' = NoCaller
  /\ settled' = FALSE
  /\ report' = {} /\ late' = {} /\ refused' = {}
  /\ UNCHANGED <<todo, errors, exchange, lastRecord>>

JournalResume(c) ==
  /\ pc[c] = "resume_journal"
  /\ pc' = [pc EXCEPT ![c] = "resume_notify"]
  /\ lastRecord' = "resume"
  /\ UNCHANGED <<halted, todo, errors, exchange, history>>

NotifyResume(c) ==
  /\ pc[c] = "resume_notify"
  /\ pc' = [pc EXCEPT ![c] = "idle"]
  /\ UNCHANGED <<halted, todo, errors, exchange, history, lastRecord>>

-----------------------------------------------------------------------------
(* Ends of a sequence that the contract does not speak of.                 *)

(* The frame of c is gone.  The flag stays as it is.                       *)
Unwind(c) ==
  /\ pc' = [pc EXCEPT ![c] = "idle"]
  /\ todo' = [todo EXCEPT ![c] = {}]
  /\ errors' = [errors EXCEPT ![c] = {}]
  /\ runner' = IF runner = c THEN NoCaller ELSE runner
  /\ UNCHANGED <<halted, exchange, settled, report, late, refused, lastRecord>>

(* CancelledError is no Exception: every handler lets it pass.  ws_client  *)
(* cancels its watchdog, and with it the halt it awaits, when the stream   *)
(* ends; LiveSystem.run cancels every task.                                *)
Abort(c) ==
  /\ c \in Cancellable
  /\ pc[c] # "idle"
  /\ Unwind(c)

(* None of the journal calls of halt() and resume() is guarded.            *)
JournalRaises(c) ==
  /\ JournalMayFail
  /\ pc[c] \in {"journal", "notify_error", "resume_journal", "resume_notify_error"}
  /\ Unwind(c)

-----------------------------------------------------------------------------
HaltStep(c) ==
  \/ ListOrders(c) \/ ListOrdersFails(c)
  \/ \E o \in Orders : CancelOrder(c, o) \/ CancelRefused(c, o) \/ CancelRaises(c, o)
  \/ ListPositions(c) \/ ListPositionsFails(c)
  \/ \E s \in Symbols : ClosePosition(c, s) \/ CloseRefused(c, s) \/ CloseRaises(c, s)
  \/ JournalHalt(c) \/ Notify(c)
  \/ NotifyFails(c) \/ JournalNotifyError(c)
  \/ JournalResume(c) \/ NotifyResume(c)

Market == \E o \in Orders : Submit(o) \/ Land(o) \/ Fill(o)

Next ==
  \/ Market
  \/ \E c \in Callers : Halt(c) \/ Resume(c) \/ HaltStep(c)
                        \/ Abort(c) \/ JournalRaises(c)

(* Every await of a sequence is answered (or raises), and every order in   *)
(* flight is: requests end, if only by a timeout of the HTTP client.       *)
Fairness ==
  /\ \A c \in Callers : WF_vars(HaltStep(c) \/ JournalRaises(c))
  /\ \A o \in Orders : WF_vars(Land(o))

Spec == Init /\ [][Next]_vars

-----------------------------------------------------------------------------
(* Properties                                                              *)

(* What a settled halt has an explanation for: an order in flight when the *)
(* flag was set, an order or symbol its report names, or one the exchange  *)
(* refused to undo without raising.                                        *)
ExplainedOrders == late \cup (report \cap Orders) \cup (refused \cap Orders)

(* Once a halt has journalled its report, every order still resting is one *)
(* the report explains: halt() lists the orders after setting the flag and *)
(* tries each (kill_switch.py:83-99).                                      *)
SettledOrders ==
  settled /\ "list_open_orders" \notin report => resting \subseteq ExplainedOrders

(* Once a halt has journalled its report, a position can only come from an *)
(* order the report explains, or be one the report names or the exchange   *)
(* refused to close.  It holds because positions are listed after the last *)
(* cancel (kill_switch.py:95-115): no listed order can fill behind it.     *)
SettledPositions ==
  settled /\ report \cap ListFailures = {} =>
    open \subseteq {SymbolOf[o] : o \in ExplainedOrders} \cup report \cup refused

(* A halt that has reported leaves nothing unexplained, of orders or of    *)
(* positions.                                                              *)
ReportExplainsRest == SettledOrders /\ SettledPositions

(* At most one sequence works for the present halt: a second sequence in   *)
(* progress belongs to a halt that was resumed meanwhile, so without an    *)
(* operator there is never a second one (the flag test, kill_switch.py:80).*)
OneSequence ==
  Operators = {} =>
    \A c, d \in Callers : pc[c] \in HaltSteps /\ pc[d] \in HaltSteps => c = d

(* halt() "MUST" reach its journal row once the flag is set                *)
(* (kill_switch.py:3-9), unless the operator resumes.                      *)
HaltSettles == halted ~> (settled \/ ~halted)

(* When no caller is in halt() any more, the journal tells the flag        *)
(* ("system of record for ... halts", journal.py:3): a halt row means a    *)
(* set flag, and a set flag has its row whatever failed on the way, unless *)
(* the sequence was lost to a cancellation or to the journal itself.  It   *)
(* takes that nobody resumes: a resume in the middle of a sequence is      *)
(* journalled before the halt that it ends.                                *)
JournalTellsFlag ==
  Operators = {} /\ (\A c \in Callers : pc[c] = "idle") =>
    /\ lastRecord = "halt" => halted
    /\ halted => lastRecord = "halt" \/ Cancellable # {} \/ JournalMayFail

(* The kill switch implements the contract of HaltContract: seen from      *)
(* outside, with the orders alive on the exchange, the open positions and  *)
(* what the halt has an explanation for, whoever runs the sequence.        *)
Contract == INSTANCE HaltContract WITH
  live <- inflight \cup resting,
  settled <- settled /\ report \cap ListFailures = {},
  excused <- ExplainedOrders \cup (report \cap Symbols) \cup (refused \cap Symbols)

ImplementsContract == Contract!Spec
=============================================================================
