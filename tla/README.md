# HTA in TLA+

HTA is an automated trading system for perpetual futures: one asyncio process
that evaluates two strategies, sends orders to an exchange, watches itself and
halts when something is wrong (`src/src`), a dashboard that follows it, and
backtests of the strategies. These modules specify mostly the part of it that
runs live: what its tasks do to the account when they are interleaved, when calls
fail and when the exchange keeps trading between two awaits; what a dashboard
client and an operator are told of that; and what the backtests make of a cache of
history that earlier runs left behind.

Paths below are relative to the repository; the Python package is `src/src`.

## 1. The system

| component | code | state | operations | interacts with |
|---|---|---|---|---|
| Live system | `main.py` | `_a_used_notional`, `_funding_state`, last bar per coin | starts every task; bar-close loop, stale-cancel loop, funding loop, heartbeat, handlers of stream events | everything |
| Order router | `execution/order_router.py` | `_submitted` (its own book), `_recent_submissions` | `submit_target` (delta, risk check, ALO order, one retry), `cancel_stale_orders` | tracker, risk manager, kill switch, adapter |
| Position tracker | `execution/position_tracker.py` | cache of positions and open orders | `refresh`: two reads, then one write | adapter; read by router and reconciler |
| Reconciler | `execution/reconciler.py` | a snapshot during a check | `check_once`: snapshot, refresh, compare, journal, halt | tracker, journal, kill switch |
| Risk manager | `risk/manager.py` | none | `check_order`: ten caps in order | called by the router |
| Kill switch | `risk/kill_switch.py` | `_halted` | `halt`: flag, cancel all, close all, journal, notify; `resume` | adapter, journal, notifier; called by the watchdog, the reconciler and the operator |
| Exchange adapter | `execution/exchange_adapter.py` | none | the SDK's calls in threads; an exception of `submit_alo` becomes "not accepted" | exchange |
| Capital allocator | `execution/capital_allocator.py` | none | `allocate`: what each strategy may still open | bar loop, funding loop |
| Funding capture (B) | `strategies/funding_capture.py` | phase, target, times and legs of each coin | `evaluate_symbol`: idle, entry pending, holding, exit pending | allocator, oracle |
| Funding-rate oracle | `execution/funding_rate_oracle.py` | latest rates | poll: replace all rates, or fail and keep them | exchange |
| Mean reversion (A) | `strategies/mean_reversion.py`, `marketdata/features.py` | none | target size from a frame of bars | bar loop |
| Market-data client | `marketdata/ws_client.py` | connection, clock of the last message, alarm | connect, subscribe, read, watchdog, reconnect with backoff | exchange; its handler halts |
| Candle store | `marketdata/candle_store.py` | bars per coin and interval | fold trades into bars | market-data client, bar loop |
| Dashboard bus | `dashboard_api/bus.py` | subscribers, a bounded queue each, drops, slow flag | `subscribe`, `publish` (never waits), `unsubscribe` | router, kill switch, heartbeat publish |
| Dashboard sessions | `dashboard_api/ws.py` | one handler with four tasks per client | subscribe, snapshot, send, watch for slowness, end | bus, queries, client |
| Dashboard REST, queries, auth | `dashboard_api/*.py` | none | reads of the journal's database | journal |
| Journal | `storage/journal.py` | SQLite tables: events, and the state table | append a row, upsert the newest value of a (kind, key) | every task |
| Telegram | `notify/telegram.py` | none | notifier (log and journal); command router `/halt`, `/resume`, `/status` | journal, kill switch |
| Historical data loaders | `backtest/data_loader.py`, `funding_data_loader.py` | parquet files, one per window | read a window or fetch and write it; merge, trim | exchange's history, scripts |
| Backtest simulator | `backtest/simulator.py` | the open position of a walk | walk over the bars of each coin: exit, enter, skip | scripts |
| Funding simulator | `backtest/funding_simulator.py` | equity | one attempt per funding tick | scripts |
| Web dashboard, scripts, deployment | `src/dashboard`, `src/scripts`, `src/deploy` | - | user interface, drivers | REST, sessions |

Everything live runs in one event loop. There are no data races; what goes
wrong goes wrong between two awaits. The hard behaviours are:

* a flag, a cache or a price read before an await and used after it (the halt
  flag and the retry, the two reads of a refresh, the two writers of the cache);
* calls of which nobody learns the outcome (an exception after the order was
  placed, a cancel refused without an exception);
* a sequence cut short (the watchdog that runs a halt is cancelled with its
  connection; an unguarded journal row raises);
* silence, timeouts and retries (the stream, the fill window of a funding
  pair, rates that are old);
* limits that are reached (open orders, orders per minute, queues);
* what is published and what is stored, in that order, with an await in between
  (positions on the bus and in the state table), and a reader between the two;
* files written by a run that was killed, or while the window they are named
  after was not over.

What makes each component correct: the kill switch leaves nothing behind that
its report does not explain; the router, tracker and risk manager together keep
the caps on the account itself, not only on the cache; every order ends; a
drift is noticed; the funding machine enters for the right tick, ends half
pairs and gives its capital back; the stream's silence is reported, and only
its silence; the bus loses nothing uncounted and sheds
the slow that still read; a client that
lost nothing knows the newest of every position; an operator who is told "halted"
can tell what that means; a history has no unexplained holes, and what is computed
from it adds up. `PROJECT.json`
lists the hazards line by line with the properties that cover them.

## 2. The modules

`HaltContract` is the abstract specification of a halt. Two modules implement
it: `KillSwitch`, in which every call may fail, and `TradingCore`, in which the
tasks of the live system interleave with the halt. `TradingCore` composes router, tracker, risk gate, reconciler,
stale-cancel loop and a kill switch whose calls succeed, and `Reconciliation` puts a
judge over it that asks whether the reconciler's verdicts are right. `RiskManager` has all
of `check_order`, over an account that fills and moves. `FundingCapture`
EXTENDS `CapitalAllocator`, and `MeanReversion` `CandleStore`. `TelegramCommands`
puts an operator's commands over the whole of `KillSwitch`, and `LiveView` composes
`Dashboard`, bus and sessions, with the heartbeat loop and the journal's state
table. `Backtests` composes `HistoryCache` with the two simulators. `WsClient`
stands alone: it meets the rest through `halt()`. `MC*` modules give the constants
small values; `*Proofs` modules hold the theorems (those of `WsClient` are in
`KillSwitchProofs`, beside the halt that its watchdog calls), and `SumLemmas` what
they share about sums.

In every module an action is the code between two awaits that can really
suspend, and a task's `pc`, `at` or `session` names the await. Awaits that
cannot suspend (the uncontended lock of the kill switch) are no steps.
Variables that the code does not have are marked "history". A definition with
a suffix and no use (`SubmitUnchecked`) is a variant: the definition below it
with one plausible slip. `PROJECT.json` names the property each variant must
break, which shows that the property depends on that code.

**KillSwitch.** `halted` is `_halted`; `pc[c]` the await of caller `c`;
`todo[c]` the rest of the `for` loop it is in; `errors[c]` its two error lists.
`Halt` is the flag test and set, then come `ListOrders`, `CancelOrder`,
`ListPositions`, `ClosePosition`, `JournalHalt`, `Notify`, each with its ways
to fail: raise (recorded in the report) or be refused without raising (the
adapter drops the answers of cancel and market_close, so nobody knows). `Route`
is the order of the sequence. `Abort` is the cancellation of the task, from
`ws_client.py:126` or from `LiveSystem.run`; `JournalRaises` an unguarded
journal call. `Submit`, `Land` and `Fill` are the router and the exchange: an
order in flight may land after the flag is set, a resting one may fill until it
is cancelled. A request takes effect, if at all, before its answer or exception.
The operator does not trade by hand.

**HaltContract** sees `halted`, what lives on the exchange, what is open, and
what is excused. While halted nothing is created except what was in flight; when
the report is out everything left is excused, and nothing changes any more but
that. `Contract` is the refinement mapping in both modules. For `KillSwitch` what
is excused was in flight, is named in the report, or was refused. For `TradingCore`
no call fails, so no report is needed: an order counts as the coin it is in, from
the moment it is sent, and the only excuse is the coin the bar loop was last about.

**TradingCore.** `book` and `pos` are the exchange, `cachePos` and
`cacheOrders` the tracker's cache, `seen[task]` the answer to the first read of
a refresh in progress, `bar` the bar-close task, `rec` the reconciler,
`submitted`, `aged` and `cancelTodo` the router's book and a pass over it,
`halt` the sequence. `BarReadOrders` is everything from the second answer to the
await of the submission, without a suspension: write the cache, throttle, delta,
risk check. `WouldTake` sends the retry. Entry signals are any target of
`Entries`; sizes are taken at one constant price, so a size is a notional. The
funding loop appears as `Pledges`, what the allocator may see reserved. A slot
of `Oids` is reused only when nobody remembers it, so it is a fresh oid.

**Reconciliation** adds one history variable to `TradingCore` and constrains nothing.
`pass` says of a pass of `check_once` whether the cache told the account when the pass
took its snapshot, and turns to "moved" when a position changes or an order comes or
goes before the comparison. The bar loop may refresh the same cache in between.

**RiskManager.** `Account` is `_build_account_state`, `Intent` is
`_compute_delta`, `Broken` the ten tests of `check_order` in the order of
`Codes`. The account trades: fills by units, cancels, flips, price moves with
their effect on equity. `recent` is `_recent_submissions` by age. Quotients are
multiplied out, as Decimals compare exactly. `near` (close to liquidation) is
whatever the exchange says. The equity may fall to nothing and below; `Account`
then has the one dollar that the code puts in its place. The history variables `moved`
and `doubled` say that a price has changed, and that two orders have rested in one
symbol at a time; what `ExposureWithinCaps` says of sizes holds while neither is so.

**FundingCapture.** Time is in units of 30 seconds, so the minute either side of
`pre_tick_seconds` is 2, `pre_tick_seconds` itself 20, `fill_window_seconds` 3
and `post_tick_min_seconds` 2, all as the code's defaults; only the hour is
shortened, to 30 units, which is longer than the time from an entry to its exit. `left` is the true time to the hour, `oracle[c]` what the
oracle believes, which `Poll` may renew or drop and time makes stale. `due` says
that the loop, which runs every 5 seconds, has yet to run in this unit.
`FundingTick` is a run that gets to its end, `FundingTickBreaksOff` one whose
journal row raises: a coin's state is stored before its row is awaited, so the coins
up to that one have moved and the others have not. Of the six runs in a unit one at
least gets to its end.
`main.py` reports no fills to the machine today; `Fill` and `Unwind` are a
caller that does, and need not happen, so today's behaviour is included.

**CandleStore** keeps the bars of one coin. A bar is its interval and the number
of trades it summarises: prices and volume are functions of the trades, and the
properties only ask whether a bar has changed. `Kept` is `deque(maxlen=history)`.

**MeanReversion.** `closed`, `counting` and `held` are `_SymbolState`'s
`last_closed_bar_open_ms`, `entry_open_ms is not None` and `bars_held`; `tracked` is
the coin in the tracker's cache. `Evaluate` runs from the flag test to the await of
the signal's journal row, without a suspension: it marks the bar, counts it, and
decides on the position in the cache. Only then is the cache refreshed (`Read`,
`Write` by the task "bar") and the target submitted. The task "rec" is the
reconciler, whose refresh may overlap. The indicators are arbitrary: any z-score
of `Scores`, any RSI, any size, so every verdict of `evaluate` on a frame of bars is
covered. Orders fill or end at any time and the halt flag comes and goes; what
else becomes of them is in `TradingCore`.

**WsClient.** `at` and `watch` are the two tasks; `last` and `emitted` the clock
and the alarm; `delay` what is left of a timer; `flag` the kill switch's `_halted`. A unit of time is the watchdog's
interval, `stale_seconds / 5`, so `Stale` is 5. Subscribing and journalling take
no time.

**Dashboard.** Messages are numbers in order of publication. `queue`, `drops`,
`dropped` (time stamps by age) and `slow` are the subscription; `session` the
await of the handler; `sending` what the sender has taken and not yet sent. Whether
a send ever ends is the client's affair.

**LiveView.** `held` is the tracker's cache, `beat` the await the heartbeat loop is
suspended at, `left` the positions of this tick it has yet to go through, `rows` the
state table. `NextPosition` publishes a position and begins to write its row, in one
step; `PositionRow` is the row written, `RowRaises` the `except` around the tick. A
coin's position is a topic, equity and heartbeat are one topic. `Join` subscribes
and reads the rows: neither suspends, since the queries of a snapshot block the
event loop. Rows are replaced and never deleted, as in the code. One bus for the
trading loop and the sessions is the wiring that the documentation calls the
production path (dashboard_api/main.py:4-6, dashboard-api.service:20-21). No code
under `src` does it: `scripts/run_live.py` makes no bus and calls no `create_app`, and
the standalone app begins with an empty bus of its own. `LiveView` is about the
documented wiring.

**TelegramCommands.** `command[c]` and `stage[c]` are a `dispatch` and its await,
`told[c]` its answer. The row of a command is written before its handler runs
(`DispatchFails` when it raises). The handler's awaits are those of `halt()` and
`resume()`, so `Handle` is a step of `KillSwitch` by the operator's task. The bot
loop that is to call `dispatch` does not exist yet.

**HistoryCache.** Time is in bars. `files` is the cache directory; a file has its
window, the time it was asked for, and whether it was written to its end. The two
loaders differ in three things: chunks of candles are anchored at fixed times while
funding windows begin with the history asked for (`FirstWindow`); the last chunk of
candles ends after the present, the last funding window with it (`WindowEnd`);
candles are trimmed to the history at the end (`Finish`). `KilledWriting` leaves the
file that `to_parquet` was writing in place. Scripts run again over the same files.

**BacktestSimulator** and **FundingSimulator.** One step per bar, one per funding
tick. Indicators, draws and sizing are arbitrary, so every verdict of
`compute_signals` and every outcome is covered; of a walk's prices only whether the
open is usable remains. Funding attempts keep their arithmetic, in parts of `Unit`.

**Backtests.** `RunCandles` and `RunFunding` hand what a finished load returned to
the simulator; a run of a script (`Start`) begins with nothing but the files.

## 3. The runs

| run | asks | bounds, and why they do |
|---|---|---|
| `halt_sequence` | what a settled halt leaves, one sequence, journal and flag, the contract, and that it settles | two orders in two coins: two items in every loop, an order landing late in one coin while the other is cancelled; two callers for re-entry; no task is cancelled here, which is `halt_aborted` |
| `telegram` | what the answer "halted" tells; the contract under resume in mid-sequence, cancelled tasks, failing journal | one order, an operator and a watchdog that can be cancelled; the sequence of an old halt may run beside a new one |
| `halt_aborted` | violated: a halt settles | one order, a watchdog whose task can be cancelled |
| `core_safety` | the open-orders cap, origin of unknown orders | one coin, two orders under a cap of one, all failures on |
| `core_halt` | what a halt can miss, and the contract of the tasks together | two coins, two orders under a cap of two; a cap of one position, so that it takes two orders resting together to hold both coins, which they do |
| `core_liveness` | tracked orders end, unknown ones are noticed, and the reconciler's verdicts | one coin, one order, with reconciler, lost answers, cancels that raise or are refused; the bar loop's refresh overlaps the reconciler's. The verdicts were also checked on the instance of `core_safety` |
| `risk` | how far resting orders can take the account above the caps; rate, closing, an account without equity | three coins and two orders, under caps of one position and two orders, so that the cap on positions is exceeded and by how much can be seen; equities -1..3, sizes -1..2, prices 1 and 2: partial fills, flips, two orders in one coin. As with the shipped caps (7 times 30% of equity, under 3x), the cap on leverage cannot be reached before the others here; the theorem covers caps where it can |
| `funding_capture` | entries, half pairs, exits, buffer, pledges | one coin; A asks for nothing, its share, or far more. Coins meet only in the pledges; the safety properties were also checked with two, and the theorems hold for any number |
| `ws_client` | alarms and reconnection | silences up to 8 units, beyond which nothing is told apart |
| `mean_reversion` | bars evaluated once, in order, when final; the time stop | six intervals under a history of three, so that bars are dropped; two trades an interval, late ones included; a time stop of one bar, which the intervals suffice to pass; two orders |
| `dashboard` | queues, drops, sessions, what a client knows | one client, as clients share nothing but the messages; two coins, so that one row is written while the other waits; queues of two, four messages, two drops make slow. Whether sends end is a premise of `SlowReadersGo` |
| `backtests` | holes in histories, walks, attempts | chunks of three bars under a history of four, so that two or three windows meet and the present lies within the last; three bars of time pass, enough to run again over an early file; a time stop of one bar, scores on both sides of every threshold; rates and costs that gain and lose; one cost of 300% of the notional, far from any in use, is there to reach the guard for an equity that is used up |

Symmetry is used for coins and order slots in runs without liveness; nothing
in those modules tells them apart. Deadlock is checked in the runs of
`TelegramCommands` (all runs of the kill switch are runs of it; without operators it
is `KillSwitch` with nothing added), `RiskManager`, `FundingCapture` and
`MeanReversion`. It is not in those of `TradingCore` (a halted system with nothing
left really is at its end), `WsClient` (after `stop`), `LiveView` (every client gone
and every message published) and `Backtests` (a script has ended and time is up).

What they show, beyond the absence of errors:

* `ReportExplainsRest`: after a halt has reported, what is still
  there was in flight when the flag was set, is named in the report, or was
  refused by the exchange without an exception. It depends on the order of the
  sequence: orders first (`Route`).
* `AtMostOneSurvivor`, `OneRequestWhileHalted` and the contract of `TradingCore`:
  in the live system that remainder is at most one order, in the coin the bar loop
  was busy with; no other coin gains an order or keeps a position; and one request
  at most is sent after the flag.
* `OpenOrdersWithinCap`: the cap is safe although three tasks share the cache,
  because the check reads what its own task wrote in the same step.
* `ReconcilerIsRight`: comparing a snapshot with a cache that another task may rewrite
  meanwhile is sound as long as the account stays still: the reconciler halts for a
  divergence only if the cache was untrue when it began, and finds none only if it was
  true. It depends on the snapshot being a copy. That the account stays still is
  needed: a fill, or an order of the router's own, during the pass may halt a system
  whose cache was true (section 6).
* `TrackedOrdersEnd`, `OrphansAreNoticed`: no order of the router's book rests
  for ever, though its cancel raise any number of times, if not every time; an order
  it does not know of is seen by a refresh or halts. Being seen is enough: that a
  drift seen by the bar loop is never reported is not caught (section 6).
* `ExposureWithinCaps`: each order is judged as if no other rested, so the account
  exceeds the caps, and the property says by how much. Wherever prices go it holds at
  most `max_open_orders - 1` positions more than the cap: with the shipped caps of two
  and six, seven. While prices stand still each position is within its own cap, and
  each other resting order adds one position's worth at most to the leverage, as long
  as no coin has two orders at a time. Two in one coin add up without a bound: one
  target ordered twice fills into twice its size (section 6).
* `EntersForNextTick`: an entry is for the coming tick however old the rates
  are, since an old rate's tick comes no nearer than its window.
* `BufferKept` is about strategy A with each pair by itself: every pair is granted
  the same available notional, so two together may take more (section 6).
* The funding bounds (`HalfPairBounded`, `ExitsOnTime`) survive runs of the loop
  that a journal row breaks off after any coin, as long as the journal lets one run
  in thirty seconds through.
* `CloseIsNeverTooBig`: a close is never refused for what it is. With no equity left
  the account is checked as if it had a dollar, and no approved order leaves a
  position worth more than the cap's share of one.
* `AnswerExplained`: an operator told "halted" knows that the flag is set, and that
  the report is out unless the sequence is another caller's: still at work, or lost.
* `ClientKnowsNewest`: a client that lost nothing has the newest message on each
  position it asked for, from its snapshot or after it. The exception is exactly
  the window between a position's publication and its row.
* `HistoryExplained`, `LongTradesHaveGaps`: the only way a finished load can lack a
  bar, or a backtest trade can outlast its time stop in time, is a file that was
  written before that bar was over. Such files exist after every run (section 6).
* `LeavesAsLive`: the exits of the walk and of the live strategy, written apart,
  agree wherever the z-score is known, save on the stop itself and, if a target is
  set beyond the stop, between the two (`Disputed`).
* `EachBarOnce` is stronger than the code's test for inequality: bars ascend, and
  the last but one never comes before the one evaluated last, even when bars are
  dropped and intervals skipped. `EvaluatedBarsFinal` is why late trades may be
  ignored and why the newest bar must not be evaluated.
* `TimeStopAsksFlat`: the two bars beyond `time_stop_bars` are the price of a count
  that runs on the cache: one evaluation may precede the refresh that finds the
  position, the next only starts the count. With one refresh less TLC finds a
  position that is held on.

## 4. Fairness

Safety is checked without fairness, or with fairness where a run asks both
kinds of question (it removes no reachable state). Liveness assumes weak
fairness of:

* the answers to awaited calls (`HaltStep`, `BarStep`, `RecStep`, `StaleStep`):
  every SDK call is an HTTP request in a thread, which ends or times out;
* the periodic loops (`StalePass`, `RecStart`, `FundingTick`, `Check`, `SlowSeen`),
  the end of a session one of whose tasks has ended (`End`), and time: they sleep for fixed intervals in an event loop in which
  every callback is short;
* orders in flight (`Land`), which are answered or lost;
* `Unwind` in FundingCapture: exit orders are filled in the end. Entries,
  fills, rates and A's targets need not come;
* an attempt to connect ending by its timeout. The network need do nothing else.
  Nothing that is sent to a dashboard client need end: no send of `ws.py` is timed.

Two properties carry what they need as a premise, for single clients and orders.
`SlowReadersGo` is about a client to which the snapshot and the errors before a
`close()` are sent some time (`SendsEnd`, weak fairness); of one that has stopped
reading nothing is claimed (section 6). `TrackedOrdersEnd` is about an order whose
cancel does not raise at every pass (strong fairness of `StaleCancel`).

Weak fairness of `FundingTick` says that the journal does not fail for ever:
of the six runs of the loop in a unit one gets to its end. Where it fails for
longer, so may the bounds.

No strong fairness is assumed elsewhere. `core_liveness` has the journal working: a
reconciler whose journal raised is dead, in the code as in the model.

## 5. The proofs

`TLC` checks the instances above; the following is proved for every value of the
constants that satisfies the modules' assumptions.

| module | theorem | says |
|---|---|---|
| `KillSwitchProofs` | `TypeCorrect` | the state is well typed |
| | `Settlement` | `ReportExplainsRest`: what is left when a halt has reported is explained |
| | `Implementation` | `KillSwitch` implements `HaltContract` under the mapping `Contract` |
| | `SingleSequence` | without an operator at most one halt sequence runs |
| | `JournalTells` | without a resume the journal's newest row tells the flag |
| | `Commanded` | under an operator's commands the kill switch takes only its own steps |
| | `CommandedContract` | under an operator's commands, too, the kill switch implements `HaltContract` |
| | `Answers` | what the answer "halted" tells |
| | `CleanHalt` | a settled halt with an empty report, nothing in flight when the flag was set and nothing refused leaves the account empty |
| | `NothingBorn` | while the flag is set no order appears |
| | `HaltAdvances` | a halt sequence never goes back, its loops only shrink, its errors are kept |
| | `StreamTypes` | the state of `WsClient` is well typed |
| | `NoneFalse` | the watchdog raises no false alarm |
| `TradingCoreProofs` | `TypeCorrect` | the state is well typed |
| | `QuietAfterHalt` | once the flag is set and nothing is being sent, no order is ever sent and the book only loses orders |
| | `Judged` | the judge of `Reconciliation` constrains nothing |
| | `ReconcilerJudged` | `ReconcilerIsRight`: on an account that stays still the reconciler's verdict is true |
| | `OpenOrdersCapped` | never more open orders than `max_open_orders` |
| | `Survivor` | at most one order outlives a finished halt |
| | `OneRequest` | at most one request is sent after the flag is set |
| | `SurvivorSymbol` | what outlives a finished halt lies in one coin |
| | `Implementation` | `TradingCore` implements `HaltContract`, coin by coin, under its mapping `Contract` |
| | `Tracked` | an order nobody recorded is one whose submission raised, or whose cancel was refused |
| `RiskManagerProofs` | `TypeCorrect` | the state is well typed |
| | `RateLimited` | never more orders within 60 seconds than `max_orders_per_minute` |
| | `Closable` | a close is not refused for what it is; no equity, no position |
| | `ExposureCapped` | never more positions than the cap and the other resting orders; at constant prices sizes and leverage are bounded too |
| `FundingCaptureProofs` | `TypeCorrect` | the state is well typed, and no notional negative |
| | `Pledges` | a notional is pledged exactly while a pair is worked on, and an idle coin has no leg |
| | `NextTick` | an entry is for the coming tick |
| | `HalfPairs` | a half-filled pair is not left to wait beyond the window |
| | `Exits` | no pair is held beyond its time to exit |
| | `Buffer` | A's use and B's pledge for a coin together leave the buffer |
| `MeanReversionProofs` | `TypeCorrect` | the state is well typed, the bars bounded by `History` |
| | `EachBar` | every closed bar is evaluated at most once and in order |
| | `Final` | what was evaluated does not change |
| | `TimeStops` | the time stop bounds what the refreshes find |
| `LiveViewProofs` | `Typed` | the state is well typed |
| | `Follows` | the heartbeat loop does nothing to bus and sessions that `Dashboard` does not allow |
| | `Accounted` | each client's messages are in order and accounted for |
| | `Unsubscribed` | sessions that are over leave no subscription |
| | `Informed` | a client that lost nothing knows the newest of every position |
| `BacktestsProofs` | `TypeCorrect` | the state of downloads, walk and attempts is well typed |
| | `DownloadsExplained` | what a finished load lacks is explained by an early file |
| | `Accounted` | trades do not overlap, and every entry signal is accounted for |
| | `AsLive` | the walk leaves a position when the live strategy would |
| | `LongTrades` | a trade longer than its rows spans a bar that an early file hides |
| | `AddUp` | counts, equity curve and totals of the funding attempts agree |

`SumLemmas` holds what several of these need: sums over finite sets by the library's
`SumFunctionOnSet` (that they exist, take out or add an element, are monotone, change
with one element, and by how much when some elements are raised), and induction over the naturals, stated for a set instead of a
predicate, as the provers have no predicate variables. Every sum over a set of
variable size in the modules is written with that operator, or counts.

**Assumptions.** `KillSwitch` and `TradingCore` assume of their constants only
their types, that orders are not coins (`todo` holds either) and, in
`TradingCore`, that the order slots are finitely many. `MeanReversion` assumes
types and a history of at least one bar, as `CandleStore.__init__` checks.
`HistoryCache` assumes chunks and histories of at least one bar, as
`load_candles` checks, and `Dashboard` queues, thresholds and windows of at least one, as the defaults are.
`ScheduleAssumption` asks for windows that fit into the hour.
`WindowsAssumption` is about numbers that the code does not check: a pair's
entry window must end before its time to exit, or a pair that fills late would
begin its holding too old for `ExitsOnTime`. The defaults satisfy it by far
(3 + 2 + 2 <= 20 + 2).
Where sums are proved about, what is summed over is assumed finite: the symbols and
order slots of `RiskManager`, the strategies of `CapitalAllocator`, the coins of
`FundingCapture` and of `BacktestSimulator`. `RiskManager` starts from a positive
equity, as an account that trades has. No relation between the thresholds, caps or
costs is assumed.

**Settlement.** `ReportExplainsRest` speaks of the end of a sequence and is not
inductive. `Accounts` is. It follows the `runner`, the caller whose sequence
belongs to the present halt: `FlagInv` says what the flag implies, `RunnerInv`
that the runner works until it reports and never reports twice, `LoopInv` that a
loop holds the items it iterates over, and `OrdersInv` and `PositionsInv` that at
each await every order or position on the exchange is still to be worked off, was
in flight at the halt, is named in the report, or was refused. The last two use
the order of the sequence: a position may still grow while an order rests, so
only after the cancels can the list of positions be complete. Other callers,
aborted sequences and sequences of an earlier halt only take things away. The
proof that `KillSwitch` implements `HaltContract` maps every action to a step of
it or a stutter, and takes from `Accounts` that a report excuses what is left.
`CleanHalt` and `NothingBorn` are read off it: a clean report excuses nothing, and no
action of the contract adds to what lives while its flag stays set.

**Progress.** `HaltSettles` is liveness and stays with TLC; `HaltAdvances` is the part
of it that is safety, for loops of any length. `Place` numbers the awaits in the order
of the code. A caller's own step goes to a later place, or stays in its loop with an
item less, and adds to the errors (`OwnStep`, from `GoOnAdvances`); a step of anybody
else leaves it where it is (`OthersWait`); only a cancellation or the journal throws
it out. So each sequence takes at most as many steps as it has awaits and items.

**Journal.** `JournalInv` adds to `JournalTellsFlag` who is on the way: without an
operator nobody is in `resume()`, whoever is in `halt()` past the flag test finds the
flag set, and while the row of a set flag is missing its sequence is still before it,
since only a cancellation or the journal takes a sequence away.

**Commands.** `Commanded` is what carries the theorems of `KillSwitchProofs` over to
the commanded kill switch: every command, handler step and failure is a step of
`KillSwitch` or leaves it alone. `Answers` adds two invariants. `HandlerInv`: an
operator is in `halt()` or `resume()` only while its handler is awaited, and has no
answer before. `RunnerStays`: only a cancellation or the journal takes a sequence
away before its report. With `RunnerInv` of `Accounts` they say who is to blame when
"halted" comes before the report.

**The watchdog.** `NoFalseAlarm` compares the clock of `_last_msg_at`, which every
connection starts anew, with the silence as it is over all connections. `ClockInv` says
that the clock is never ahead of the silence: a message resets both, a connection only
the clock, and time moves both until they are no longer counted (`LaterIs`). The bound
`MaxQuiet` is beyond the limit by assumption, so it hides no alarm.

**Downloads.** The inductive invariant says of a load in progress that every bar of
the history before the cursor has a row, or a file that was written before the bar
was over; that a row is in a file that is still there, asked for when the row
says; and that no two rows are for one bar. `MergeLoads` shows it for a window read
and a window fetched alike. Windows follow one another without a gap
(`cursor' = WindowEnd`), and the first begins no later than the history.

**Walks.** A finished load has finitely many bars, and finitely many integers can be
put in order (`SortExists`, by induction over their number, the largest last), so the
`CHOOSE` of `Sorted` finds what it asks for (`SortedIs`). `WalkInv` says of a walk
that the bars of each coin ascend, that the open position was entered at an earlier
index of its coin, and of every trade that it was entered and left at two indices
`held` apart (`Positioned`); the trades of the coin being walked are over before the
present bar, or before the open position's, so that a new one overlaps none and is
not yet among them, which keeps the count. `WalksLoaded` ties what is walked to
the load. A trade that lasts longer than its rows then has more integers between its
ends than bars (`GapBetween`), one of them is no bar, and `DownloadsExplained` has
the file that hides it.

**Attempts.** Counts, curve and totals are sums over the indices of the attempts; one
more attempt adds one term to each (`SumNext`) and leaves the earlier points of the
curve as they were. What was received less what was paid is the net of every attempt,
and half of an equity, twice, is no more than it (`LegOf`).

**The open-orders cap.** `CapInv` adds to the cap that a bar task between its
check and the answer has room for one more order (`RoomForOne`): the cache it
checked was written in the same step, no other task places orders, and
everything else on the exchange only removes them.

**The survivor.** `SurvivorInv` says that, once the halt has listed the orders, at
most one order rests that the halt will leave alone, and none while the bar task
is still sending. `OneRequestInv` adds to `OneRequestWhileHalted` that after a
request the flag is set and the bar task is not at its first attempt, so that the
retry, which is not retried, cannot be sent again. `SymbolInv` follows the coins:
from the listing of the orders on, what the halt will leave is of the coin the bar
loop is about, which changes only while the flag is not set; and while positions are
being closed, those that are open are still to be closed or in that coin.
`TrackedOrOrphan` is inductive as it stands.

**The judge.** `JudgeInv` follows a pass during which the account has not moved. Up to
the comparison the snapshot tells the account (`SnapshotTrue`) exactly if the cache did
when the pass began, and from the first answer on what was read of the positions is
what they are. No other task changes the snapshot or what this refresh has read
(`RecOrOther`). What the refresh then writes is the account, so comparing it with the
snapshot tells whether the cache was true.

**The contract, coin by coin.** `BesideStep` sorts the steps of `TradingCore` in
three: the halt's own, those that set the flag, and those beside the halt, which
once the flag is set start no request and change no coin (`Beside`). With `SymbolInv`
before and after the step, the halt's own steps undo, or settle where the sequence
is through; the others trade while the flag is clear, undo while the sequence works,
and after it leave only what is in the excused coin. No action of `TradingCore`
resumes, so the contract's last action stays unused here; `KillSwitch` has it.

**Caps.** `RateInv`: the router's count is the count of what the exchange took, as
both are noted in the step of the answer, and time takes the same from both
(`SumShift`). `ApprovedMeans` says what an approval tells of the ten tests, whichever
order they come in. `CoinsInv` counts the coins that are held or ordered. An order that is
approved leaves at most `MaxPositions` held with its own, and fewer than
`MaxOpenOrders` others rest, one coin each; fills and cancels add no coin and prices
do not matter, so the bound stands until the next approval. An order that only
closes adds none (`CoinsSubmit`). For sizes, `Ceiling` is a size for each coin that
neither the position exceeds nor what it will be when its order has filled, each
within the cap and together within the leverage the account can reach. A partial fill
lies between the two ends, and what is between two sizes is no larger in magnitude
than the larger, through a flip too (`ExposureFill`). An approved order that does not
fit under the ceiling raises it to its target, leaves the coins with an order what
they had and lowers the others to what they hold (`CeilingRaised`): the leverage that
`check_order` has just found allowed then bounds the sum, but for what the coins with
an order may still add, one cap's worth each (`SumRaised`). It is there that one order
per coin and prices at rest are needed.

**Funding.** `OracleInv`: a high rate whose tick is still ahead agrees with the
true clock, old or not. `PairsInv`: outside a halt each coin satisfies `InTime`,
which bounds the wait of an entry, and the distance of its tick by that wait, by
whether the loop has yet to run in this unit of time. A run that breaks off moves
some coins as a whole run would and leaves the others, so it keeps `InTime` coin by
coin (`BreaksOff`). `BufferInv` is `BufferKept` with naturals for what is drawn. A
grant is at most what the allocator offers (`Offered`), and that counts B's pledges
for all coins, each of which is at most their sum (`PledgedCovers`). A pair that is
kept keeps what it had, one that enters has what is offered (`EvaluateTarget`).

**Bars.** `BarsInv` says that the bars ascend by interval and that the last but one
is not before the bar evaluated last. A trade opens a bar after all others
(`OpenedBars` says what the bounded sequence then holds), joins the newest, which is
later than any evaluated one, or is ignored. So the last but one only moves on,
and nothing up to the evaluated bar changes.

**Time stop.** `HeldInv` compares the count with `saw`, the refreshes for bars that
found the coin: while the task idles the count lags two behind, and one from an
evaluation to the next refresh. The reconciler's refresh either leaves both alone
or ends both. It holds for any thresholds, as the time stop comes before
the target and needs no score.

**Sessions.** A client's ledger balances (`Balanced`): what it got, what is being sent
and what is queued ascend in this order, each part before the next, the queue is no
longer than it may be, and their number with the drops is the number of matches. One
lemma each shows that a delivery (with room, and by dropping the oldest), a taking and
a sending keep it, and `StreamInOrder` what it says of the concatenation. Only a session
that is gone has no ledger: the message it had in hand is lost. `Informed` adds
`RowsInv`, that a row lags behind its newest message only while it is being written or
after its writing failed, which is what a client that joins then is excused for, and
`KnowsInv`, message by message: a follower that lost nothing keeps all it has, and a
publication it asked for finds room in its queue, or it would have lost one.

**Only model-checked.** Liveness, for which fairness and ENABLED are needed:
`HaltSettles`, `TrackedOrdersEnd`, `OrphansAreNoticed`, `PledgesEnd`,
`SilenceIsReported`, `TriesAgain`, `SlowReadersGo`. Every safety property that a
passing run checks is a theorem. The types of every module are proved; the runs
`mean_reversion` and `ws_client` check theirs too.

## 6. Where code and documents disagree

One run shows a statement of the repository refuted by its code; `findings`
in `PROJECT.json` quotes the lines.

* `halt_aborted`: the halt that the stream's watchdog starts is a part of the
  watchdog, and `_run_once` cancels the watchdog when the connection ends. The
  flag stays set, so every later `halt()` returns at once and the orders and
  positions stay.

Other disagreements were met on the way; they are visible in the modules at the
definitions named here and have no run of their own.

* An order that the router placed and recorded between the reconciler's snapshot of
  the cache and its refresh counts as a divergence and halts the system
  (`Accepted` between `RecStart` and `RecReadOrders`, reconciler.py:113), although
  it is the router's own: "Compare to local state. On any divergence, call halt"
  (RISK.md:37-38).
* The newest chunk of candles is cached under the name of the whole chunk while the
  present lies within it, and read for ever after (`Fetch`, data_loader.py:158), so a
  run within the next 14 days lacks every bar since, although the loader is to return
  the candles of "[now - days, now]" (data_loader.py:130), and "re-runs only fetch
  missing windows" (run_backtest.py:8).
* A script killed in the middle of `to_parquet` leaves a file that exists and cannot
  be read; every later load of that window raises (`ReadRaises`, data_loader.py:152).
* The names of funding windows contain the time of the run to the millisecond
  (`FirstWindow`, funding_data_loader.py:72), so a later run never finds the files of
  an earlier one, against "Cached per window" (funding_data_loader.py:66).
* The walk enters and stops at its thresholds (`EntrySide`, `Reason`,
  simulator.py:133-140), the live strategy beyond them (mean_reversion.py:156, 173);
  bars whose indicators are missing close a live position (mean_reversion.py:149) and
  not the walk's.
* A position open at the end of a walk is in no statistic (`WalkEnds`).
* The funding simulator takes half of the equity per leg for every coin of a tick
  (`Try`, funding_simulator.py:209), the live machine what B's share leaves.
* A position whose coin has left the account keeps its row in the state table, and a
  new client gets it in its snapshot (`Upsert`, `Join`).
* No row of type "fill" is ever written (order_router.py:346 only publishes), so the
  trades of `/api/trades` and the win rates of `/api/stats` have nothing to read; nor
  does anything write the order book and funding rows that `/api/orderbook` and
  `/api/funding` read.
* The snapshot's equity of "~24h" (queries.py:115) is made of the newest 1152 ticks,
  which at one in five seconds are 96 minutes.
* A task of the live system that died makes `await t` raise in the shutdown
  (main.py:296), and then "live_stop" is not journalled.
* `/halt` is not carried out when the row of the command cannot be written
  (`DispatchFails`, telegram.py:89), and no bot loop calls the router.
* "halted" is answered at once when the flag is set (`OnHalt`, kill_switch.py:80),
  also when the sequence that set it was lost.
* With an equity that is not positive, closing one of two positions may be refused
  for the leverage that the other leaves (`Broken`, manager.py:271-281).
* The retry of an order rejected as a taker is sent without another look at the
  flag (`WouldTake`, order_router.py:299) although "while halted, no orders are
  placed" (order_router.py:12). `OneRequestWhileHalted` bounds it.
* Positions are capped without the orders already resting (`Approved`,
  manager.py:255), against "Max concurrent positions: 2" (RISK.md:14): orders in
  different coins may fill into up to `max_open_orders - 1` positions more than the cap
  (`ExposureWithinCaps`), and two orders for one target into twice its size, above
  "Max position notional" (RISK.md:10) (`BarReadOrders`, order_router.py:191).
* A fill between the two reads of a refresh leaves a position in the cache that
  is no longer true (`BarReadState`, position_tracker.py:49), against
  "exchange-truth" (order_router.py:15).
* An order whose submission raised is in nobody's book and never cancelled as
  stale (`SubmitRaises`, exchange_adapter.py:146).
* `_a_used_notional` is one number for all coins (`BarDone`, main.py:585).
* Rejected and retried requests do not count for the rate limit (`SubmitFails`,
  order_router.py:332).
* With more positions than the cap a partial reduction is refused
  (`PostFillPositions`, manager.py:264) although "reducing/closing an existing
  position never violates this" (manager.py:254).
* Daily and weekly losses and the losers pause are never filled in (`Account`,
  order_router.py:253), so those limits of RISK.md stop nothing.
* In one run of the funding loop every coin is granted the same available
  notional (`FundingTick`, main.py:420), and a pair that takes B's whole share
  is given up at the next run, since what is compared with it is the headroom
  left (`Holding`, funding_capture.py:235).
* Between connections nobody watches, and each connection starts its clock anew
  (`Connect`, ws_client.py:104), so an outage longer than `stale_seconds` is not
  reported, although "WebSocket silent for > 30 seconds" triggers a halt
  (RISK.md:41). Of the other triggers listed there only the reconciler's exists:
  rejections, equity and exceptions of a loop halt nothing.
* "Hold" asks for the position that was in the cache before the refresh
  (`Wanted`, main.py:501-544): if the position has been closed meanwhile, an order
  opens it again without an entry signal, against "LONG when z_score < -2.0 AND
  rsi < 30" (SPEC.md:13).
* "Time stop: position held > 4 bars" (SPEC.md:22) counts evaluated bars since the
  second one that found the position in the cache, not since the entry
  (`HeldNow`, main.py:504-509), and a target whose refresh fails or which is
  suppressed is not asked again until the next bar (`EvaluationFails`).
* After an orderly end of the stream the client reconnects at once and without
  the "disconnected" event (`CleanEnd`, ws_client.py:86).
* A subscriber is slow at the threshold, not above it (`Publish`, bus.py:167), and
  never with a threshold above the 200 time stamps that are kept (`KeptStamps`,
  bus.py:63; the default is 100).
* A slow client that keeps its connection and has stopped reading need never be
  disconnected, against "Slow clients (per bus.Subscription.slow) are disconnected"
  (ws.py:19-20): the watchdog sends it an error first (`SlowTold`, ws.py:185), on the
  socket on which the sender is stuck and without a timeout, and closes only after
  that (ws.py:189).
* A session whose snapshot fails and whose `close()` then raises keeps its
  subscription (`FailedCloseRaises`, ws.py:66-67), and the bus fills its queue and
  counts its drops for ever.
* When the journal row of the reconciler raises, its task ends before the halt it was
  to call, and no other is started (`RecDies`, reconciler.py:86), against "On any
  divergence, call halt" (RISK.md:37-38).
* A resume in the middle of a halt is journalled before the halt row
  (`JournalResume`), so the newest row no longer tells the flag.
* The bar loop's refresh may absorb a drift of positions before the reconciler takes
  its snapshot, and the comparison then finds nothing (`BarReadOrders`, main.py:544).

## 7. Not modelled

Numbers over data frames (z-score, RSI, volatility, sizing), parsing and formatting,
SQL, HTTP, Telegram's transport, the web dashboard (TypeScript) and its mock API,
the reports of the backtests, the scripts over synthetic data. The REST queries
other than those of a snapshot's positions read the events table, keep no state and
feed nothing back; token checks and configuration loading likewise. Of the SDK only
what `src` expects of it is modelled. `fetch_candles_around` has no caller but
its tests.

## 8. Plan

Done: KillSwitch with its contract and TelegramCommands over it; TradingCore;
RiskManager; CapitalAllocator with FundingCapture; CandleStore with MeanReversion;
WsClient; Dashboard and LiveView; HistoryCache, the two simulators and Backtests.

Every safety property that a run checks is a theorem, and so are the types of every
module. What would come next is a model of the execution of strategy B, once the
code has a spot adapter that routes its targets.
