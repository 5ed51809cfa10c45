----------------------------- MODULE Dashboard ------------------------------
(***************************************************************************)
(* The in-process bus between the trading loop and the dashboard           *)
(* (src/src/dashboard_api/bus.py), and the WebSocket sessions that read    *)
(* from it (src/src/dashboard_api/ws.py).                                  *)
(*                                                                         *)
(* Messages are numbered in the order of publication.  publish() never     *)
(* suspends, so a publication to all subscribers is one step.  A session   *)
(* is a handler task that first subscribes and sends a snapshot and then   *)
(* waits for the first of its four tasks to end: the sender, the receiver, *)
(* the heartbeat and the slow-client watchdog.  The client and its socket  *)
(* are external: a send takes as long as it likes and may raise.           *)
(***************************************************************************)
EXTENDS Integers, SequencesExt

CONSTANTS
  Clients,        \* connections, each used once
  Topics,         \* what a channel and a symbol filter can tell apart
  QueueSize,      \* per_subscriber_queue_size
  SlowThreshold,  \* slow_threshold
  Window,         \* slow_window_seconds, in units of time
  MaxPublished    \* bound on the messages published

ASSUME BusAssumption ==
  {QueueSize, SlowThreshold, Window, MaxPublished} \subseteq Nat \ {0}

VARIABLES
  published,  \* Bus._published_count
  subs,       \* Bus._subs: the clients with a subscription
  wants,      \* Subscription.channels and .symbols
  queue,      \* Subscription.queue
  drops,      \* Subscription.drops
  dropped,    \* Subscription.drop_timestamps: how many of each age
  slow,       \* Subscription.slow
  session,    \* what the handler task of each client awaits
  sending,    \* the message the sender has in hand; 0 if none
  received,   \* history: the messages the client got
  matched,    \* history: how many it was to get
  leaked      \* history: sessions whose close() raised after a failed snapshot

subscription == <<wants, queue, drops, dropped, slow>>
vars == <<published, subs, subscription, session, sending, received, matched, leaked>>

Ages == 0..Window
RecentDrops(c) == FoldFunctionOnSet(+, 0, dropped[c], Ages)
Smaller(m, n) == IF m < n THEN m ELSE n

(* The time stamps a subscription keeps: drop_timestamps has a maxlen.     *)
KeptStamps == 200

Init ==
  /\ published = 0
  /\ subs = {} /\ leaked = {}
  /\ wants = [c \in Clients |-> {}]
  /\ queue = [c \in Clients |-> <<>>]
  /\ drops = [c \in Clients |-> 0]
  /\ dropped = [c \in Clients |-> [a \in Ages |-> 0]]
  /\ slow = [c \in Clients |-> FALSE]
  /\ session = [c \in Clients |-> "new"]
  /\ sending = [c \in Clients |-> 0]
  /\ received = [c \in Clients |-> <<>>]
  /\ matched = [c \in Clients |-> 0]

-----------------------------------------------------------------------------
(* The bus.  A definition that nothing uses is a variant, as in KillSwitch.*)

DeliverClearing(q, message) ==
  IF Len(q) < QueueSize THEN Append(q, message) ELSE <<message>>

(* The queue of a subscriber after a delivery: a full one loses its oldest.*)
Deliver(q, message) ==
  IF Len(q) < QueueSize THEN Append(q, message) ELSE Append(Tail(q), message)

(* publish: every open subscription that matches.  Drops beyond what makes *)
(* a subscription slow are not counted by age.                             *)
Publish(topic) ==
  /\ published < MaxPublished
  /\ published' = published + 1
  /\ LET to    == {c \in subs : topic \in wants[c]}
         full  == {c \in to : Len(queue[c]) = QueueSize}
     IN /\ queue' = [c \in Clients |->
                       IF c \in to THEN Deliver(queue[c], published') ELSE queue[c]]
        /\ drops' = [c \in Clients |-> IF c \in full THEN drops[c] + 1 ELSE drops[c]]
        /\ dropped' = [c \in Clients |->
             IF c \in full
             THEN [dropped[c] EXCEPT ![0] = Smaller(@ + 1, SlowThreshold)]
             ELSE dropped[c]]
        /\ slow' = [c \in Clients |->
             \/ slow[c]
             \/ c \in full /\ Smaller(RecentDrops(c) + 1, KeptStamps) >= SlowThreshold]
        /\ matched' = [c \in Clients |-> IF c \in to THEN matched[c] + 1 ELSE matched[c]]
  /\ UNCHANGED <<subs, wants, session, sending, received, leaked>>

(* Time stamps older than the window no longer count.                      *)
TimePasses ==
  /\ \E c \in Clients : RecentDrops(c) > 0
  /\ dropped' = [c \in Clients |->
                   [a \in Ages |-> IF a = 0 THEN 0 ELSE dropped[c][a - 1]]]
  /\ UNCHANGED <<published, subs, wants, queue, drops, slow, session, sending,
                 received, matched, leaked>>

-----------------------------------------------------------------------------
(* A session                                                               *)

Goes(c, to) == session' = [session EXCEPT ![c] = to]

BusUnchanged == UNCHANGED <<published, subscription, matched>>

(* The subscribe message is good: from here on messages are queued.        *)
Subscribe(c, topics) ==
  /\ session[c] = "new"
  /\ Goes(c, "snapshot")
  /\ subs' = subs \cup {c}
  /\ wants' = [wants EXCEPT ![c] = topics]
  /\ UNCHANGED <<published, queue, drops, dropped, slow, sending, received,
                 matched, leaked>>

(* No subscription yet: a bad first message, or none.                      *)
Reject(c) ==
  /\ session[c] = "new"
  /\ Goes(c, "gone")
  /\ UNCHANGED <<subs, sending, received, leaked>> /\ BusUnchanged

SnapshotSent(c) ==
  /\ session[c] = "snapshot"
  /\ Goes(c, "live")
  /\ UNCHANGED <<subs, sending, received, leaked>> /\ BusUnchanged

SnapshotFails(c) ==
  /\ session[c] = "snapshot"
  /\ Goes(c, "failed")
  /\ UNCHANGED <<subs, sending, received, leaked>> /\ BusUnchanged

(* The error is sent and the socket closed, then the subscription goes.    *)
FailedCloses(c) ==
  /\ session[c] = "failed"
  /\ Goes(c, "gone")
  /\ subs' = subs \ {c}
  /\ UNCHANGED <<sending, received, leaked>> /\ BusUnchanged

(* This close() is not guarded: when the client has left it may raise.     *)
FailedCloseRaises(c) ==
  /\ session[c] = "failed"
  /\ Goes(c, "gone")
  /\ leaked' = leaked \cup {c}
  /\ UNCHANGED <<subs, sending, received>> /\ BusUnchanged

(* _send_loop: take a message, await its sending.                          *)
Take(c) ==
  /\ session[c] \in {"live", "telling"}
  /\ c \in subs
  /\ sending[c] = 0 /\ queue[c] # <<>>
  /\ sending' = [sending EXCEPT ![c] = Head(queue[c])]
  /\ queue' = [queue EXCEPT ![c] = Tail(@)]
  /\ UNCHANGED <<published, subs, wants, drops, dropped, slow, session, received,
                 matched, leaked>>

Sent(c) ==
  /\ session[c] \in {"live", "telling"}
  /\ sending[c] # 0
  /\ received' = [received EXCEPT ![c] = Append(@, sending[c])]
  /\ sending' = [sending EXCEPT ![c] = 0]
  /\ UNCHANGED <<subs, session, leaked>> /\ BusUnchanged

(* The client is gone, or has sent something it may not, or a heartbeat    *)
(* cannot be sent: a task ends and with it the session.  The sender, when  *)
(* its send has raised, unsubscribes by itself.                            *)
TaskEnds(c) ==
  /\ session[c] \in {"live", "telling"}
  /\ Goes(c, "over")
  /\ subs' \in {subs, subs \ {c}}
  /\ UNCHANGED <<sending, received, leaked>> /\ BusUnchanged

SlowSeenWhileDropping(c) ==
  /\ session[c] = "live"
  /\ RecentDrops(c) >= SlowThreshold
  /\ Goes(c, "telling")
  /\ UNCHANGED <<subs, sending, received, leaked>> /\ BusUnchanged

(* The watchdog finds the client slow and sends it an error.               *)
SlowSeen(c) ==
  /\ session[c] = "live"
  /\ slow[c]
  /\ Goes(c, "telling")
  /\ UNCHANGED <<subs, sending, received, leaked>> /\ BusUnchanged

SlowTold(c) ==
  /\ session[c] = "telling"
  /\ Goes(c, "over")
  /\ UNCHANGED <<subs, sending, received, leaked>> /\ BusUnchanged

EndKeepingSubscription(c) ==
  /\ session[c] = "over"
  /\ Goes(c, "gone")
  /\ sending' = [sending EXCEPT ![c] = 0]
  /\ UNCHANGED <<subs, received, leaked>> /\ BusUnchanged

(* The other tasks are cancelled, what they had in hand is lost, and the   *)
(* subscription goes.                                                      *)
End(c) ==
  /\ session[c] = "over"
  /\ Goes(c, "gone")
  /\ subs' = subs \ {c}
  /\ sending' = [sending EXCEPT ![c] = 0]
  /\ UNCHANGED <<received, leaked>> /\ BusUnchanged

-----------------------------------------------------------------------------
(* A session's steps other than its subscription.                          *)
SessionStep(c) ==
  \/ Reject(c)
  \/ SnapshotSent(c) \/ SnapshotFails(c) \/ FailedCloses(c) \/ FailedCloseRaises(c)
  \/ Take(c) \/ Sent(c) \/ TaskEnds(c)
  \/ SlowSeen(c) \/ SlowTold(c) \/ End(c)

Next ==
  \/ \E topic \in Topics : Publish(topic)
  \/ TimePasses
  \/ \E c \in Clients :
       \/ \E topics \in SUBSET Topics \ {{}} : Subscribe(c, topics)
       \/ SessionStep(c)

(* The watchdog's timer fires, and the handler goes on once one of its     *)
(* tasks has ended.  A send to a client need not end: none is timed.       *)
Fairness ==
  \A c \in Clients : WF_vars(SlowSeen(c)) /\ WF_vars(End(c))

Spec == Init /\ [][Next]_vars
FairSpec == Spec /\ Fairness

-----------------------------------------------------------------------------
(* Properties                                                              *)

InHand(c) == IF sending[c] = 0 THEN <<>> ELSE <<sending[c]>>

(* While a session lasts, what its client got, has coming and has queued   *)
(* are in the order of publication, and every message it was to get is     *)
(* among them or counted as dropped (bus.py:152-180).                      *)
NothingLostUncounted ==
  \A c \in Clients : session[c] \in {"snapshot", "failed", "live", "telling", "over"} =>
    LET stream == received[c] \o InHand(c) \o queue[c]
    IN /\ \A i \in 1..(Len(stream) - 1) : stream[i] < stream[i + 1]
       /\ Len(stream) + drops[c] = matched[c]

(* A session that is over leaves no subscription behind, which the bus     *)
(* would go on filling, except where the unguarded close() of ws.py:66     *)
(* raises before the unsubscribe.                                          *)
NoSubscriptionLeft ==
  \A c \in subs : session[c] \in {"new", "gone"} => c \in leaked

(* What a client that goes on reading lends to its session: the snapshot,  *)
(* and the errors before the close() calls of ws.py:66 and 189, are sent   *)
(* some time, or their sending raises.                                     *)
SendsEnd(c) ==
  /\ WF_vars(SnapshotSent(c) \/ SnapshotFails(c))
  /\ WF_vars(FailedCloses(c) \/ FailedCloseRaises(c))
  /\ WF_vars(SlowTold(c))

(* "Slow clients are disconnected" (ws.py:19-20), if what the session sends*)
(* them ends: the flag outlives the drops that set it, so a client that was*)
(* slow for a moment goes as well.  One that has stopped reading may stay: *)
(* the error of ws.py:185 has no timeout, and close() comes after it.      *)
SlowReadersGo ==
  \A c \in Clients :
    SendsEnd(c) =>
      ((slow[c] /\ session[c] \in {"snapshot", "live"}) ~> (session[c] = "gone"))
=============================================================================
