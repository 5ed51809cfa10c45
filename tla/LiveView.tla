------------------------------ MODULE LiveView ------------------------------
(***************************************************************************)
(* What a dashboard client sees of the positions: the heartbeat loop of    *)
(* the live system (_heartbeat_loop, src/src/main.py) publishes them on    *)
(* the bus and writes them to the journal's state table, and a session     *)
(* begins with the rows of that table (src/src/dashboard_api/queries.py).  *)
(*                                                                         *)
(* Each position of a tick is published first and its row written after    *)
(* that, with an await.  A session subscribes and reads the rows in one    *)
(* step, since neither suspends.  One bus for the two is the wiring that   *)
(* src/src/dashboard_api/main.py:4-6 describes; no script sets it up.      *)
(***************************************************************************)
EXTENDS Dashboard

CONSTANTS
  Coins,  \* a position message of a coin is a topic
  Tick    \* the topic of equity and heartbeat, and of all that others publish

ASSUME TopicsAssumption == Topics = Coins \cup {Tick} /\ Tick \notin Coins

VARIABLES
  held,     \* the tracker's cache: the coins with a position
  beat,     \* the await the heartbeat loop is suspended at
  left,     \* the positions of this tick it has yet to go through
  coin,     \* the one whose row it is writing
  newest,   \* history: the newest message on each coin's position
  rows,     \* the state table: the message each coin's row has
  failed,   \* history: the coins whose newest row was not written
  snap,     \* history: the rows in each client's snapshot
  excused   \* history: the messages then published and in no row

loop == <<beat, left, coin>>
view == <<held, loop, newest, rows, failed, snap, excused>>
viewVars == <<vars, view>>

NoMessage == [s \in Coins |-> 0]

LiveInit ==
  /\ Init
  /\ held = {} /\ left = {} /\ coin = Tick /\ beat = "sleep"
  /\ newest = NoMessage /\ rows = NoMessage /\ failed = {}
  /\ snap = [c \in Clients |-> NoMessage]
  /\ excused = [c \in Clients |-> {}]

-----------------------------------------------------------------------------
(* The heartbeat loop                                                      *)

(* A refresh of the tracker, by another task.                              *)
Refresh(positions) ==
  /\ held' = positions
  /\ UNCHANGED <<vars, loop, newest, rows, failed, snap, excused>>

(* Equity and heartbeat are published together, here as one message.       *)
TickBegins ==
  /\ beat = "sleep"
  /\ Publish(Tick)
  /\ beat' = "equity" /\ left' = held
  /\ UNCHANGED <<held, coin, newest, rows, failed, snap, excused>>

EquityRow ==
  /\ beat = "equity"
  /\ beat' = "heartbeat"
  /\ UNCHANGED <<vars, held, left, coin, newest, rows, failed, snap, excused>>

(* The next position is published, and its row's writing begins.           *)
NextPosition ==
  IF left = {}
  THEN beat' = "sleep" /\ UNCHANGED <<vars, left, coin, newest>>
  ELSE \E s \in left :
         /\ Publish(s)
         /\ beat' = "row" /\ coin' = s /\ left' = left \ {s}
         /\ newest' = [newest EXCEPT ![s] = published']

HeartbeatRow ==
  /\ beat = "heartbeat"
  /\ NextPosition
  /\ UNCHANGED <<held, rows, failed, snap, excused>>

(* A definition that no action uses is a variant, as in KillSwitch.        *)
UpsertInsertingOnly ==
  rows' = [rows EXCEPT ![coin] = IF @ = 0 THEN newest[coin] ELSE @]

Upsert == rows' = [rows EXCEPT ![coin] = newest[coin]]

PositionRow ==
  /\ beat = "row"
  /\ Upsert
  /\ failed' = failed \ {coin}
  /\ NextPosition
  /\ UNCHANGED <<held, snap, excused>>

(* A row raises: the rest of the tick is skipped.                          *)
RowRaises ==
  /\ beat # "sleep"
  /\ beat' = "sleep" /\ left' = {}
  /\ failed' = IF beat = "row" THEN failed \cup {coin} ELSE failed
  /\ UNCHANGED <<vars, held, coin, newest, rows, snap, excused>>

-----------------------------------------------------------------------------
(* A client joins: subscription and snapshot.                              *)
Join(c, topics) ==
  /\ Subscribe(c, topics)
  /\ snap' = [snap EXCEPT ![c] = rows]
  /\ excused' = [excused EXCEPT ![c] =
       {newest[s] : s \in failed \cup (IF beat = "row" THEN {coin} ELSE {})}]
  /\ UNCHANGED <<held, loop, newest, rows, failed>>

LiveNext ==
  \/ \E positions \in SUBSET Coins : Refresh(positions)
  \/ TickBegins \/ EquityRow \/ HeartbeatRow \/ PositionRow \/ RowRaises
  \/ \E c \in Clients, topics \in SUBSET Topics \ {{}} : Join(c, topics)
  \/ /\ \/ Publish(Tick) \/ TimePasses
        \/ \E c \in Clients : SessionStep(c)
     /\ UNCHANGED view

LiveSpec == LiveInit /\ [][LiveNext]_viewVars /\ Fairness

-----------------------------------------------------------------------------
(* Properties                                                              *)

(* "Send the initial snapshot synchronously so the client can render       *)
(* before any deltas arrive" (ws.py:58): a client that has lost no message *)
(* gets the newest one on every position it asked for, in its snapshot or  *)
(* after it.  The exception is a message published before it subscribed    *)
(* whose row was still being written then, or could not be: that position  *)
(* it sees with the next tick only.                                        *)
ClientKnowsNewest ==
  \A c \in Clients :
    session[c] \in {"snapshot", "live", "telling"} /\ c \in subs /\ drops[c] = 0 =>
      \A s \in wants[c] \cap Coins :
        \/ newest[s] \in ToSet(received[c] \o InHand(c) \o queue[c])
        \/ newest[s] = snap[c][s]
        \/ newest[s] \in excused[c]
=============================================================================
