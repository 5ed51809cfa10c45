------------------------------ MODULE WsClient ------------------------------
(***************************************************************************)
(* The market-data connection of src/src/marketdata/ws_client.py: connect, *)
(* subscribe, read, reconnect with backoff, and the watchdog that reports  *)
(* a silent stream to LiveSystem, whose handler halts the system.          *)
(*                                                                         *)
(* The client and its watchdog are two tasks; `at` and `watch` name what   *)
(* each awaits.  Time is counted in watchdog intervals (stale_seconds / 5) *)
(* and a timer that is due runs before more time passes.  The server and   *)
(* the network are external: a connection opens or not, is silent, ends    *)
(* in order or breaks whenever they like.                                  *)
(***************************************************************************)
EXTENDS Integers

CONSTANTS
  Stale,       \* stale_seconds
  FirstDelay,  \* the first backoff
  MaxBackoff,  \* max_backoff
  OpenTimeout, \* how long websockets.connect tries
  MaxQuiet     \* bound: silences stop being told apart

ASSUME TimesAssumption ==
  /\ {Stale, FirstDelay, MaxBackoff, OpenTimeout, MaxQuiet} \subseteq Nat \ {0}
  /\ FirstDelay <= MaxBackoff
  /\ Stale + 1 < MaxQuiet

VARIABLES
  at,       \* what run() awaits
  watch,    \* what the watchdog awaits, if there is one
  last,     \* time since _last_msg_at
  emitted,  \* _stale_emitted
  backoff,  \* the local of run()
  delay,    \* what is left of the attempt to connect, or of the sleep before it
  stopped,  \* _stop_event
  flag,     \* KillSwitch._halted
  quiet,    \* history: time since a message came, on any connection
  reported  \* history: this silence of this connection was reported

client == <<at, watch, last, emitted, backoff, delay>>
silence == <<quiet, reported>>
streamVars == <<client, stopped, flag, silence>>

Smaller(m, n) == IF m < n THEN m ELSE n

StreamTypeOK ==
  /\ at \in {"connect", "subscribe", "stream", "tell", "sleep", "done"}
  /\ watch \in {"off", "sleep", "check", "halt"}
  /\ watch # "off" => at = "stream"
  /\ last \in 0..MaxQuiet
  /\ emitted \in BOOLEAN
  /\ backoff \in FirstDelay..MaxBackoff
  /\ delay \in 0..(MaxBackoff + OpenTimeout)
  /\ stopped \in BOOLEAN /\ flag \in BOOLEAN
  /\ reported \in BOOLEAN
  /\ quiet \in 0..MaxQuiet

StreamInit ==
  /\ at = "connect" /\ watch = "off"
  /\ last = 0 /\ emitted = FALSE
  /\ backoff = FirstDelay /\ delay = OpenTimeout
  /\ stopped = FALSE /\ flag = FALSE
  /\ quiet = 0 /\ reported = FALSE

-----------------------------------------------------------------------------
(* run() and _run_once().  A definition that nothing uses is a variant, as *)
(* in KillSwitch.                                                          *)

(* The while loop goes round, unless stop() was called.                    *)
Again ==
  /\ at' = IF stopped THEN "done" ELSE "connect"
  /\ delay' = OpenTimeout

ConnectKeepingAlarm ==
  /\ at = "connect"
  /\ at' = "subscribe"
  /\ last' = 0
  /\ reported' = FALSE
  /\ UNCHANGED <<watch, emitted, backoff, delay, stopped, flag, quiet>>

(* A new connection has a clock and an alarm of its own.                   *)
Connect ==
  /\ at = "connect"
  /\ at' = "subscribe"
  /\ last' = 0
  /\ emitted' = FALSE
  /\ reported' = FALSE
  /\ UNCHANGED <<watch, backoff, delay, stopped, flag, quiet>>

(* The subscriptions, a few requests that fit into the write buffer, are   *)
(* sent; only then is there a watchdog.                                    *)
Subscribed ==
  /\ at = "subscribe"
  /\ at' = "stream"
  /\ watch' = "sleep"
  /\ UNCHANGED <<last, emitted, backoff, delay, stopped, flag, silence>>

MessageKeepingClock ==
  /\ at = "stream"
  /\ emitted' = FALSE
  /\ quiet' = 0 /\ reported' = FALSE
  /\ IF stopped THEN at' = "done" /\ watch' = "off"
                ELSE UNCHANGED <<at, watch>>
  /\ UNCHANGED <<last, backoff, delay, stopped, flag>>

(* A message is noted and dispatched; the end of the frame takes the       *)
(* watchdog along.                                                         *)
Message ==
  /\ at = "stream"
  /\ last' = 0
  /\ emitted' = FALSE
  /\ quiet' = 0 /\ reported' = FALSE
  /\ IF stopped THEN at' = "done" /\ watch' = "off"
                ELSE UNCHANGED <<at, watch>>
  /\ UNCHANGED <<backoff, delay, stopped, flag>>

CleanEndKeepingWatchdog ==
  /\ at = "stream"
  /\ Again
  /\ backoff' = FirstDelay
  /\ UNCHANGED <<watch, last, emitted, stopped, flag, silence>>

(* The server closes in order: the loop reconnects at once.  A halt the    *)
(* watchdog was in the middle of is cancelled.                             *)
CleanEnd ==
  /\ at = "stream"
  /\ Again
  /\ watch' = "off"
  /\ backoff' = FirstDelay
  /\ UNCHANGED <<last, emitted, stopped, flag, silence>>

FailsForGood ==
  /\ at \in {"connect", "subscribe", "stream"}
  /\ at' = IF at = "connect" THEN "done" ELSE "tell"
  /\ watch' = "off"
  /\ UNCHANGED <<last, emitted, backoff, delay, stopped, flag, quiet, reported>>

(* Any exception, in connecting or later: "disconnected" goes to the       *)
(* handler, which awaits the journal.                                      *)
Fails ==
  /\ at \in {"connect", "subscribe", "stream"}
  /\ at' = "tell"
  /\ watch' = "off"
  /\ UNCHANGED <<last, emitted, backoff, delay, stopped, flag, quiet, reported>>

(* Sleep, and twice as long the next time.                                 *)
Told ==
  /\ at = "tell"
  /\ IF stopped
     THEN at' = "done" /\ UNCHANGED <<backoff, delay>>
     ELSE /\ at' = "sleep"
          /\ delay' = backoff
          /\ backoff' = Smaller(2 * backoff, MaxBackoff)
  /\ UNCHANGED <<watch, last, emitted, stopped, flag, silence>>

Slept ==
  /\ at = "sleep" /\ delay = 0
  /\ Again
  /\ UNCHANGED <<watch, last, emitted, backoff, stopped, flag, silence>>

-----------------------------------------------------------------------------
(* _watchdog() and the handler of "stale" in LiveSystem                    *)

Alarm == last >= Stale /\ ~emitted

(* The interval is over: sound the alarm once, which sets the halt flag    *)
(* before it first suspends, or sleep again.                               *)
Check ==
  /\ watch = "check"
  /\ watch' = IF Alarm THEN "halt" ELSE "sleep"
  /\ emitted' = (emitted \/ Alarm)
  /\ flag' = (flag \/ Alarm)
  /\ reported' = (reported \/ Alarm)
  /\ UNCHANGED <<at, last, backoff, delay, stopped, quiet>>

(* halt() has returned; the watchdog's loop goes round.                    *)
HaltDone ==
  /\ watch = "halt"
  /\ watch' = "sleep"
  /\ UNCHANGED <<at, last, emitted, backoff, delay, stopped, flag, silence>>

-----------------------------------------------------------------------------
(* The rest of the system                                                  *)

Resumed ==
  /\ flag
  /\ flag' = FALSE
  /\ UNCHANGED <<client, stopped, silence>>

(* LiveSystem.stop, and the cancellation of the task by LiveSystem.run.    *)
Stop ==
  /\ ~stopped
  /\ stopped' = TRUE
  /\ UNCHANGED <<client, flag, silence>>

Cancelled ==
  /\ stopped /\ at # "done"
  /\ at' = "done" /\ watch' = "off"
  /\ UNCHANGED <<last, emitted, backoff, delay, stopped, flag, silence>>

(* One watchdog interval; the journal and the write buffer are local and   *)
(* take none.  A watchdog in halt() misses its checks.                     *)
TimePasses ==
  /\ at \notin {"subscribe", "tell", "done"}
  /\ watch # "check"
  /\ at \in {"connect", "sleep"} => delay > 0
  /\ last' = Smaller(last + 1, MaxQuiet)
  /\ quiet' = Smaller(quiet + 1, MaxQuiet)
  /\ delay' = IF at \in {"connect", "sleep"} THEN delay - 1 ELSE delay
  /\ watch' = IF watch = "sleep" THEN "check" ELSE watch
  /\ UNCHANGED <<at, emitted, backoff, stopped, flag, reported>>

-----------------------------------------------------------------------------
StreamNext ==
  \/ Connect \/ Subscribed \/ Message \/ CleanEnd \/ Fails \/ Told \/ Slept
  \/ Check \/ HaltDone
  \/ Resumed \/ Stop \/ Cancelled \/ TimePasses

(* Timers fire and what is awaited locally ends; the network need not do   *)
(* anything, but an attempt to connect times out.                          *)
StreamFairness ==
  /\ WF_streamVars(TimePasses)
  /\ WF_streamVars(Subscribed) /\ WF_streamVars(Told) /\ WF_streamVars(Slept)
  /\ WF_streamVars(Check) /\ WF_streamVars(HaltDone)
  /\ WF_streamVars(Cancelled)
  /\ WF_streamVars(at = "connect" /\ Fails)

StreamSpec == StreamInit /\ [][StreamNext]_streamVars
FairStreamSpec == StreamSpec /\ StreamFairness

-----------------------------------------------------------------------------
(* Properties                                                              *)

(* A subscribed stream that has been silent for stale_seconds is reported, *)
(* whatever happened on the connections before it (ws_client.py:104-105,   *)
(* 130-137), unless a message comes or the connection ends first.          *)
SilenceIsReported ==
  (at = "stream" /\ last >= Stale) ~> (reported \/ last < Stale \/ at # "stream")

(* A report is no false alarm: no message has come for stale_seconds.      *)
NoFalseAlarm == [][~emitted /\ emitted' => quiet >= Stale]_streamVars

(* A client that has lost its connection tries again, for as long as it is *)
(* not stopped (ws_client.py:90-98).                                       *)
TriesAgain == (at \notin {"connect", "subscribe", "stream"}) ~> (at = "connect" \/ stopped)
=============================================================================
