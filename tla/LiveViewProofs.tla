--------------------------- MODULE LiveViewProofs ---------------------------
(***************************************************************************)
(* Proofs about LiveView: the heartbeat loop drives the bus and the        *)
(* sessions as Dashboard says, nothing is lost uncounted, and a client     *)
(* that lost nothing knows the newest of every position, for any number    *)
(* of clients and coins and queues of any size.                            *)
(***************************************************************************)
EXTENDS LiveView, SequenceTheorems, TLAPS

Sessions == {"new", "snapshot", "failed", "live", "telling", "over", "gone"}

BusTypes ==
  /\ published \in Nat
  /\ subs \subseteq Clients
  /\ queue \in [Clients -> Seq(Nat)]
  /\ drops \in [Clients -> Nat]
  /\ matched \in [Clients -> Nat]
  /\ session \in [Clients -> Sessions]
  /\ sending \in [Clients -> Nat]
  /\ received \in [Clients -> Seq(Nat)]
  /\ wants \in [Clients -> SUBSET Topics]

(* What a client got, has coming and has queued, each in order and all of  *)
(* the one before the next.                                                *)
InOrder(r, s, q, last) ==
  /\ \A i, j \in 1..Len(r) : i < j => r[i] < r[j]
  /\ \A i, j \in 1..Len(q) : i < j => q[i] < q[j]
  /\ \A i \in 1..Len(r), j \in 1..Len(q) : r[i] < q[j]
  /\ s # 0 => \A i \in 1..Len(r) : r[i] < s
  /\ s # 0 => \A j \in 1..Len(q) : s < q[j]
  /\ \A i \in 1..Len(r) : r[i] <= last
  /\ \A j \in 1..Len(q) : 0 < q[j] /\ q[j] <= last
  /\ s <= last

Balanced(r, s, q, last, d, m) ==
  /\ Len(q) <= QueueSize
  /\ InOrder(r, s, q, last)
  /\ IF s = 0 THEN m = Len(r) + Len(q) + d ELSE m = Len(r) + Len(q) + d + 1

Ledger(c) ==
  Balanced(received[c], sending[c], queue[c], published, drops[c], matched[c])

LedgerInv == \A c \in Clients : session[c] # "gone" => Ledger(c)

-----------------------------------------------------------------------------
(* LiveView is a Dashboard                                                 *)

ViewTypes ==
  /\ held \subseteq Coins /\ left \subseteq Coins
  /\ newest \in [Coins -> Nat]
  /\ rows \in [Coins -> Nat]
  /\ failed \subseteq Coins
  /\ snap \in [Clients -> [Coins -> Nat]]
  /\ excused \in [Clients -> SUBSET Nat]
  /\ beat \in {"sleep", "equity", "heartbeat", "row"}
  /\ beat = "row" => coin \in Coins

LEMMA LiveStep == ViewTypes /\ [LiveNext]_viewVars => [Next]_vars
<1> SUFFICES ASSUME ViewTypes, [LiveNext]_viewVars PROVE [Next]_vars
  OBVIOUS
<1> USE TopicsAssumption
<1>1. ASSUME NEW topic \in Topics, Publish(topic) PROVE Next
  BY <1>1 DEF Next
<1>2. ASSUME NextPosition PROVE Next \/ UNCHANGED vars
  BY <1>1, <1>2 DEF NextPosition, ViewTypes
<1>3. CASE UNCHANGED viewVars
  BY <1>3 DEF viewVars
<1>4. CASE \E positions \in SUBSET Coins : Refresh(positions)
  BY <1>4 DEF Refresh
<1>5. CASE TickBegins
  BY <1>1, <1>5 DEF TickBegins
<1>6. CASE EquityRow \/ RowRaises
  BY <1>6 DEF EquityRow, RowRaises
<1>7. CASE HeartbeatRow \/ PositionRow
  BY <1>2, <1>7 DEF HeartbeatRow, PositionRow
<1>8. CASE \E c \in Clients, topics \in SUBSET Topics \ {{}} : Join(c, topics)
  BY <1>8 DEF Join, Next
<1>9. CASE Publish(Tick) \/ TimePasses \/ \E c \in Clients : SessionStep(c)
  BY <1>1, <1>9 DEF Next
<1> QED
  BY <1>3, <1>4, <1>5, <1>6, <1>7, <1>8, <1>9 DEF LiveNext

-----------------------------------------------------------------------------
(* Types                                                                   *)

LEMMA BusInit == Init => BusTypes
  BY EmptySeq DEF Init, BusTypes, Sessions

LEMMA BusStep == BusTypes /\ [Next]_vars => BusTypes'
<1> SUFFICES ASSUME BusTypes, [Next]_vars PROVE BusTypes'
  OBVIOUS
<1> USE DEF BusTypes
<1>1. CASE UNCHANGED vars
  BY <1>1 DEF vars, subscription
<1>2. ASSUME NEW topic \in Topics, Publish(topic) PROVE BusTypes'
  <2>1. published' \in Nat
    BY <1>2 DEF Publish
  <2>2. ASSUME NEW c \in Clients PROVE Deliver(queue[c], published') \in Seq(Nat)
    <3>1. queue[c] \in Seq(Nat)
      OBVIOUS
    <3>2. Len(queue[c]) >= QueueSize => queue[c] # <<>>
      BY BusAssumption, EmptySeq
    <3> QED
      BY <2>1, <3>1, <3>2, AppendProperties, HeadTailProperties, LenProperties, BusAssumption
         DEF Deliver
  <2>3. queue' \in [Clients -> Seq(Nat)]
    BY <1>2, <2>2 DEF Publish
  <2>4. slow' \in [Clients -> BOOLEAN]
    BY <1>2, Zenon DEF Publish
  <2> QED
    BY <1>2, <2>1, <2>3, <2>4 DEF Publish
<1>3. CASE TimePasses
  BY <1>3 DEF TimePasses
<1>4. ASSUME NEW c \in Clients, NEW topics \in SUBSET Topics, Subscribe(c, topics)
      PROVE  BusTypes'
  BY <1>4 DEF Subscribe, Goes, Sessions
<1>5. ASSUME NEW c \in Clients, SessionStep(c) PROVE BusTypes'
  <2>1. CASE Take(c)
    <3>1. Head(queue[c]) \in Nat /\ Tail(queue[c]) \in Seq(Nat)
      BY <2>1, HeadTailProperties DEF Take
    <3> QED
      BY <2>1, <3>1 DEF Take
  <2>2. CASE Sent(c)
    <3>1. Append(received[c], sending[c]) \in Seq(Nat)
      BY AppendProperties
    <3> QED
      BY <2>2, <3>1 DEF Sent, BusUnchanged, subscription
  <2>3. ASSUME NEW to \in Sessions, Goes(c, to), BusUnchanged, received' = received,
               subs' \subseteq subs,
               sending' = sending \/ sending' = [sending EXCEPT ![c] = 0]
        PROVE  BusTypes'
    <3>1. session' \in [Clients -> Sessions]
      BY <2>3 DEF Goes
    <3>2. sending' \in [Clients -> Nat]
      <4>1. CASE sending' = sending
        BY <4>1
      <4>2. CASE sending' = [sending EXCEPT ![c] = 0]
        BY <4>2
      <4> QED BY <2>3, <4>1, <4>2
    <3> QED
      BY <2>3, <3>1, <3>2 DEF BusUnchanged, subscription
  <2>4. CASE ~Take(c) /\ ~Sent(c)
    BY <1>5, <2>3, <2>4 DEF SessionStep, Reject, SnapshotSent, SnapshotFails, FailedCloses,
       FailedCloseRaises, TaskEnds, SlowSeen, SlowTold, End, Sessions
  <2> QED BY <2>1, <2>2, <2>4
<1> QED
  BY <1>1, <1>2, <1>3, <1>4, <1>5 DEF Next

LEMMA ViewInit == LiveInit => ViewTypes
  BY DEF LiveInit, ViewTypes, NoMessage

LEMMA ViewStep == BusTypes /\ ViewTypes /\ [LiveNext]_viewVars => ViewTypes'
<1> SUFFICES ASSUME BusTypes, ViewTypes, [LiveNext]_viewVars PROVE ViewTypes'
  OBVIOUS
<1> USE DEF ViewTypes
<1>1. ASSUME NEW topic, Publish(topic) PROVE published' \in Nat
  BY <1>1 DEF Publish, BusTypes
<1>2. ASSUME NextPosition
      PROVE  /\ left' \subseteq Coins /\ newest' \in [Coins -> Nat]
             /\ beat' \in {"sleep", "row"} /\ (beat' = "row" => coin' \in Coins)
  BY <1>1, <1>2 DEF NextPosition
<1>3. CASE UNCHANGED viewVars
  BY <1>3 DEF viewVars, view, loop
<1>4. CASE \E positions \in SUBSET Coins : Refresh(positions)
  BY <1>4 DEF Refresh, loop
<1>5. CASE TickBegins
  BY <1>5 DEF TickBegins
<1>6. CASE EquityRow
  BY <1>6 DEF EquityRow
<1>7. CASE RowRaises
  <2>1. failed' \subseteq Coins
    BY <1>7 DEF RowRaises
  <2> QED
    BY <1>7, <2>1 DEF RowRaises
<1>8. CASE HeartbeatRow
  BY <1>2, <1>8 DEF HeartbeatRow
<1>9. CASE PositionRow
  BY <1>2, <1>9 DEF PositionRow, Upsert
<1>10. ASSUME NEW c \in Clients, NEW topics, Join(c, topics) PROVE ViewTypes'
  <2>1. {newest[s] : s \in failed \cup (IF beat = "row" THEN {coin} ELSE {})} \subseteq Nat
    OBVIOUS
  <2> QED
    BY <1>10, <2>1 DEF Join, loop
<1>11. CASE UNCHANGED view
  BY <1>11 DEF view, loop
<1> QED
  BY <1>3, <1>4, <1>5, <1>6, <1>7, <1>8, <1>9, <1>10, <1>11 DEF LiveNext
-----------------------------------------------------------------------------
(* The order of one client's messages                                      *)

LEMMA LaterPublished ==
  ASSUME NEW r \in Seq(Nat), NEW s \in Nat, NEW q \in Seq(Nat), NEW last \in Nat,
         InOrder(r, s, q, last)
  PROVE  InOrder(r, s, q, last + 1)
  BY DEF InOrder

LEMMA Enqueued ==
  ASSUME NEW r \in Seq(Nat), NEW s \in Nat, NEW q \in Seq(Nat), NEW last \in Nat,
         InOrder(r, s, q, last)
  PROVE  InOrder(r, s, Append(q, last + 1), last + 1)
  BY AppendProperties DEF InOrder

LEMMA OldestDropped ==
  ASSUME NEW r \in Seq(Nat), NEW s \in Nat, NEW q \in Seq(Nat), NEW last \in Nat,
         InOrder(r, s, q, last), q # <<>>
  PROVE  InOrder(r, s, Tail(q), last)
  BY HeadTailProperties DEF InOrder

LEMMA OldestTaken ==
  ASSUME NEW r \in Seq(Nat), NEW q \in Seq(Nat), NEW last \in Nat,
         InOrder(r, 0, q, last), q # <<>>
  PROVE  Head(q) # 0 /\ InOrder(r, Head(q), Tail(q), last)
  BY HeadTailProperties DEF InOrder

LEMMA HandedOver ==
  ASSUME NEW r \in Seq(Nat), NEW s \in Nat, NEW q \in Seq(Nat), NEW last \in Nat,
         InOrder(r, s, q, last), s # 0
  PROVE  InOrder(Append(r, s), 0, q, last)
<1>1. PICK a \in Seq(Nat) : a = Append(r, s)
  BY AppendProperties
<1>2. /\ Len(a) = Len(r) + 1 /\ a[Len(r) + 1] = s
      /\ \A i \in 1..Len(r) : a[i] = r[i]
  BY <1>1, AppendProperties
<1>3. ASSUME NEW i \in 1..Len(a), NEW j \in 1..Len(a), i < j PROVE a[i] < a[j]
  <2>1. i \in 1..Len(r)
    BY <1>1, <1>2, <1>3
  <2>2. CASE j \in 1..Len(r)
    BY <1>1, <1>2, <1>3, <2>1, <2>2 DEF InOrder
  <2>3. CASE j = Len(r) + 1
    BY <1>1, <1>2, <1>3, <2>1, <2>3 DEF InOrder
  <2> QED
    BY <1>1, <1>2, <1>3, <2>2, <2>3
<1>4. /\ \A i \in 1..Len(a), j \in 1..Len(q) : a[i] < q[j]
      /\ \A i \in 1..Len(a) : a[i] <= last
  BY <1>1, <1>2 DEF InOrder
<1> QED
  BY <1>1, <1>3, <1>4 DEF InOrder

LEMMA Joined ==
  ASSUME NEW r \in Seq(Nat), NEW q \in Seq(Nat), NEW last \in Nat,
         InOrder(r, 0, q, last)
  PROVE  /\ r \o q \in Seq(Nat)
         /\ Len(r \o q) = Len(r) + Len(q)
         /\ \A i \in 1..(Len(r \o q) - 1) : (r \o q)[i] < (r \o q)[i + 1]
<1>1. PICK t \in Seq(Nat) : t = r \o q
  BY ConcatProperties
<1>2. /\ Len(t) = Len(r) + Len(q)
      /\ \A i \in 1..(Len(r) + Len(q)) : t[i] = IF i <= Len(r) THEN r[i] ELSE q[i - Len(r)]
  BY <1>1, ConcatProperties
<1>3. ASSUME NEW i \in 1..(Len(t) - 1) PROVE t[i] < t[i + 1]
  <2>1. CASE i < Len(r)
    BY <1>1, <1>2, <1>3, <2>1 DEF InOrder
  <2>2. CASE i = Len(r)
    BY <1>1, <1>2, <1>3, <2>2 DEF InOrder
  <2>3. CASE i > Len(r)
    <3>1. /\ i \in 1..(Len(r) + Len(q)) /\ i + 1 \in 1..(Len(r) + Len(q))
          /\ i - Len(r) \in 1..Len(q) /\ (i + 1) - Len(r) \in 1..Len(q)
          /\ i - Len(r) < (i + 1) - Len(r)
      BY <1>1, <1>2, <1>3, <2>3
    <3>2. t[i] = q[i - Len(r)] /\ t[i + 1] = q[(i + 1) - Len(r)]
      BY <1>1, <1>2, <2>3, <3>1
    <3> QED
      BY <3>1, <3>2 DEF InOrder
  <2> QED BY <2>1, <2>2, <2>3
<1> QED
  BY <1>1, <1>2, <1>3

(* The stream of NothingLostUncounted.                                     *)
LEMMA StreamInOrder ==
  ASSUME NEW r \in Seq(Nat), NEW s \in Nat, NEW q \in Seq(Nat), NEW last \in Nat,
         NEW d \in Nat, NEW m \in Nat, Balanced(r, s, q, last, d, m)
  PROVE  LET stream == r \o (IF s = 0 THEN <<>> ELSE <<s>>) \o q
         IN /\ \A i \in 1..(Len(stream) - 1) : stream[i] < stream[i + 1]
            /\ Len(stream) + d = m
<1>1. CASE s = 0
  <2>1. r \o <<>> = r
    BY ConcatEmptySeq
  <2> QED
    BY <1>1, <2>1, Joined DEF Balanced
<1>2. CASE s # 0
  <2>1. r \o <<s>> = Append(r, s) /\ Append(r, s) \in Seq(Nat) /\ Len(Append(r, s)) = Len(r) + 1
    BY AppendIsConcat, AppendProperties
  <2>2. InOrder(Append(r, s), 0, q, last)
    BY <1>2, HandedOver DEF Balanced
  <2>3. /\ Len(Append(r, s) \o q) = Len(Append(r, s)) + Len(q)
        /\ \A i \in 1..(Len(Append(r, s) \o q) - 1) :
             (Append(r, s) \o q)[i] < (Append(r, s) \o q)[i + 1]
    BY <2>1, <2>2, Joined
  <2>4. Len(Append(r, s) \o q) + d = m
    BY <1>2, <2>1, <2>3 DEF Balanced
  <2>5. r \o (IF s = 0 THEN <<>> ELSE <<s>>) \o q = Append(r, s) \o q
    BY <1>2, <2>1
  <2> QED
    BY <2>3, <2>4, <2>5
<1> QED BY <1>1, <1>2
LEMMA DeliveryBalanced ==
  ASSUME NEW r \in Seq(Nat), NEW s \in Nat, NEW q \in Seq(Nat), NEW last \in Nat,
         NEW d \in Nat, NEW m \in Nat, Balanced(r, s, q, last, d, m)
  PROVE  Balanced(r, s, Deliver(q, last + 1), last + 1,
                  IF Len(q) = QueueSize THEN d + 1 ELSE d, m + 1)
<1>1. QueueSize \in Nat \ {0}
  BY BusAssumption
<1>2. CASE Len(q) < QueueSize
  <2> DEFINE b == Append(q, last + 1)
  <2>0. b \in Seq(Nat) /\ Len(b) = Len(q) + 1
    BY AppendProperties
  <2> HIDE DEF b
  <2>1. PICK a \in Seq(Nat) : a = b /\ Len(a) = Len(q) + 1
    BY <2>0
  <2>2. InOrder(r, s, a, last + 1)
    BY <2>1, Enqueued DEF Balanced, b
  <2>3. Len(a) <= QueueSize
    BY <1>1, <1>2, <2>1
  <2>4. Balanced(r, s, a, last + 1, d, m + 1)
    <3>1. CASE s = 0
      BY <2>1, <2>2, <2>3, <3>1 DEF Balanced
    <3>2. CASE s # 0
      BY <2>1, <2>2, <2>3, <3>2 DEF Balanced
    <3> QED BY <3>1, <3>2
  <2> QED
    BY <1>1, <1>2, <2>1, <2>4 DEF Deliver, b
<1>3. CASE Len(q) = QueueSize
  <2>1. q # <<>> /\ Deliver(q, last + 1) = Append(Tail(q), last + 1)
    BY <1>1, <1>3, EmptySeq DEF Deliver
  <2>2. PICK t \in Seq(Nat) : t = Tail(q) /\ Len(t) = Len(q) - 1
    BY <2>1, HeadTailProperties
  <2>3. InOrder(r, s, t, last)
    BY <2>1, <2>2, OldestDropped DEF Balanced
  <2> DEFINE b == Append(t, last + 1)
  <2>7. b \in Seq(Nat) /\ Len(b) = Len(t) + 1
    BY <2>2, AppendProperties
  <2> HIDE DEF b
  <2>4. PICK a \in Seq(Nat) : a = b /\ Len(a) = Len(q)
    BY <2>2, <2>7
  <2>5. InOrder(r, s, a, last + 1)
    BY <2>2, <2>3, <2>4, Enqueued DEF b
  <2>6. Balanced(r, s, a, last + 1, d + 1, m + 1)
    <3>1. CASE s = 0
      BY <1>1, <1>3, <2>4, <2>5, <3>1 DEF Balanced
    <3>2. CASE s # 0
      BY <1>1, <1>3, <2>4, <2>5, <3>2 DEF Balanced
    <3> QED BY <3>1, <3>2
  <2> QED
    BY <1>3, <2>1, <2>2, <2>4, <2>6 DEF b
<1> QED
  BY <1>1, <1>2, <1>3 DEF Balanced

LEMMA TakingBalanced ==
  ASSUME NEW r \in Seq(Nat), NEW q \in Seq(Nat), NEW last \in Nat,
         NEW d \in Nat, NEW m \in Nat, Balanced(r, 0, q, last, d, m), q # <<>>
  PROVE  Balanced(r, Head(q), Tail(q), last, d, m)
<1>1. QueueSize \in Nat \ {0}
  BY BusAssumption
<1>2. PICK t \in Seq(Nat) : t = Tail(q) /\ Len(t) = Len(q) - 1
  BY HeadTailProperties
<1>3. Head(q) # 0 /\ InOrder(r, Head(q), t, last)
  BY <1>2, OldestTaken DEF Balanced
<1> QED
  BY <1>1, <1>2, <1>3 DEF Balanced

LEMMA SendingBalanced ==
  ASSUME NEW r \in Seq(Nat), NEW s \in Nat, NEW q \in Seq(Nat), NEW last \in Nat,
         NEW d \in Nat, NEW m \in Nat, Balanced(r, s, q, last, d, m), s # 0
  PROVE  Balanced(Append(r, s), 0, q, last, d, m)
<1>1. PICK a \in Seq(Nat) : a = Append(r, s) /\ Len(a) = Len(r) + 1
  BY AppendProperties
<1>2. InOrder(a, 0, q, last)
  BY <1>1, HandedOver DEF Balanced
<1> QED
  BY <1>1, <1>2 DEF Balanced

-----------------------------------------------------------------------------
(* The ledger of every session is balanced                                 *)

LEMMA LedgerInit == Init => LedgerInv
  BY BusAssumption, EmptySeq DEF Init, LedgerInv, Ledger, Balanced, InOrder

LEMMA LedgerPublish ==
  ASSUME BusTypes, NEW c \in Clients, Ledger(c), NEW topic, Publish(topic)
  PROVE  Ledger(c)'
<1>1. /\ queue[c] \in Seq(Nat) /\ received[c] \in Seq(Nat) /\ sending[c] \in Nat
      /\ published \in Nat /\ drops[c] \in Nat /\ matched[c] \in Nat
  BY DEF BusTypes
<1>2. published' = published + 1 /\ received' = received /\ sending' = sending
  BY DEF Publish
<1>3. CASE c \in subs /\ topic \in wants[c]
  <2>1. /\ queue'[c] = Deliver(queue[c], published + 1) /\ matched'[c] = matched[c] + 1
        /\ drops'[c] = IF Len(queue[c]) = QueueSize THEN drops[c] + 1 ELSE drops[c]
    BY <1>2, <1>3 DEF Publish
  <2> QED
    BY <1>1, <1>2, <2>1, DeliveryBalanced DEF Ledger
<1>4. CASE ~(c \in subs /\ topic \in wants[c])
  <2>1. queue'[c] = queue[c] /\ drops'[c] = drops[c] /\ matched'[c] = matched[c]
    BY <1>4 DEF Publish
  <2> QED
    BY <1>1, <1>2, <2>1, LaterPublished DEF Ledger, Balanced
<1> QED
  BY <1>3, <1>4

LEMMA LedgerTake ==
  ASSUME BusTypes, NEW c \in Clients, Ledger(c), Take(c)
  PROVE  Ledger(c)'
<1>1. /\ queue[c] \in Seq(Nat) /\ received[c] \in Seq(Nat)
      /\ published \in Nat /\ drops[c] \in Nat /\ matched[c] \in Nat
  BY DEF BusTypes
<1>2. sending[c] = 0 /\ queue[c] # <<>>
  BY DEF Take
<1>3. /\ sending'[c] = Head(queue[c]) /\ queue'[c] = Tail(queue[c])
      /\ received' = received /\ published' = published /\ drops' = drops
      /\ matched' = matched
  BY DEF BusTypes, Take
<1> QED
  BY <1>1, <1>2, <1>3, TakingBalanced DEF Ledger

LEMMA LedgerSent ==
  ASSUME BusTypes, NEW c \in Clients, Ledger(c), Sent(c)
  PROVE  Ledger(c)'
<1>1. /\ queue[c] \in Seq(Nat) /\ received[c] \in Seq(Nat) /\ sending[c] \in Nat
      /\ published \in Nat /\ drops[c] \in Nat /\ matched[c] \in Nat
  BY DEF BusTypes
<1>2. sending[c] # 0
  BY DEF Sent
<1>3. /\ received'[c] = Append(received[c], sending[c]) /\ sending'[c] = 0
      /\ queue' = queue /\ published' = published /\ drops' = drops /\ matched' = matched
  BY DEF BusTypes, Sent, BusUnchanged, subscription
<1> QED
  BY <1>1, <1>2, <1>3, SendingBalanced DEF Ledger

LEMMA LedgerStep == BusTypes /\ LedgerInv /\ [Next]_vars => LedgerInv'
<1> SUFFICES ASSUME BusTypes, LedgerInv, [Next]_vars,
                    NEW c \in Clients, session'[c] # "gone"
             PROVE  Ledger(c)'
  BY DEF LedgerInv
<1>1. CASE UNCHANGED vars
  BY <1>1 DEF vars, subscription, LedgerInv, Ledger
<1>2. ASSUME session[c] # "gone", NEW topic \in Topics, Publish(topic) PROVE Ledger(c)'
  BY <1>2, LedgerPublish DEF LedgerInv
<1>3. CASE TimePasses
  BY <1>3 DEF TimePasses, LedgerInv, Ledger
<1>4. ASSUME NEW d \in Clients, NEW topics \in SUBSET Topics, Subscribe(d, topics)
      PROVE  Ledger(c)'
  <2>1. session[c] # "gone"
    BY <1>4 DEF Subscribe, Goes, BusTypes
  <2> QED
    BY <1>4, <2>1 DEF Subscribe, LedgerInv, Ledger
<1>5. ASSUME NEW d \in Clients, SessionStep(d) PROVE Ledger(c)'
  <2>1. session[c] # "gone"
    BY <1>5 DEF SessionStep, Reject, SnapshotSent, SnapshotFails, FailedCloses,
       FailedCloseRaises, Take, Sent, TaskEnds, SlowSeen, SlowTold, End, Goes, BusTypes
  <2>2. Ledger(c)
    BY <2>1 DEF LedgerInv
  <2>3. CASE d = c /\ Take(d)
    BY <2>2, <2>3, LedgerTake
  <2>4. CASE d = c /\ Sent(d)
    BY <2>2, <2>4, LedgerSent
  <2>5. CASE d # c /\ (Take(d) \/ Sent(d))
    BY <2>2, <2>5 DEF Take, Sent, BusUnchanged, subscription, BusTypes, Ledger
  <2>6. CASE End(d)
    <3>1. d # c
      BY <2>6 DEF End, Goes, BusTypes
    <3> QED
      BY <2>2, <2>6, <3>1 DEF End, BusUnchanged, subscription, BusTypes, Ledger
  <2>7. CASE ~(Take(d) \/ Sent(d) \/ End(d))
    BY <1>5, <2>2, <2>7 DEF SessionStep, Reject, SnapshotSent, SnapshotFails, FailedCloses,
       FailedCloseRaises, TaskEnds, SlowSeen, SlowTold, BusUnchanged, subscription, Ledger
  <2> QED BY <2>3, <2>4, <2>5, <2>6, <2>7
<1>6. ASSUME NEW topic \in Topics, Publish(topic) PROVE session[c] # "gone"
  BY <1>6 DEF Publish
<1> QED
  BY <1>1, <1>2, <1>3, <1>4, <1>5, <1>6 DEF Next
-----------------------------------------------------------------------------
(* The theorems of the bus and the sessions                                *)

(* BusTypes, ViewTypes: queues, drops and sessions, what each client knows *)
(* and the rows it read are well typed, and a row is awaited for a coin.   *)
THEOREM Typed == LiveSpec => [](BusTypes /\ ViewTypes)
<1>1. LiveInit => BusTypes /\ ViewTypes
  BY BusInit, ViewInit DEF LiveInit
<1>2. BusTypes /\ ViewTypes /\ [LiveNext]_viewVars => (BusTypes /\ ViewTypes)'
  BY LiveStep, BusStep, ViewStep
<1> QED
  BY <1>1, <1>2, PTL DEF LiveSpec

(* The heartbeat loop, its positions and its rows do nothing to the bus    *)
(* and the sessions that Dashboard does not let anybody do (publish(),     *)
(* bus.py:131-192; the handler of ws.py).                                  *)
THEOREM Follows == LiveSpec => Spec
<1>1. LiveInit => Init
  BY DEF LiveInit
<1>2. ViewTypes /\ [LiveNext]_viewVars => [Next]_vars
  BY LiveStep
<1> QED
  BY <1>1, <1>2, Typed, PTL DEF LiveSpec, Spec

(* While a session lasts every message that its client was to get is with  *)
(* it, on its way, queued or counted as dropped, and those that are not    *)
(* dropped are in the order of publication (bus.py:152-180).               *)
THEOREM Accounted == LiveSpec => []NothingLostUncounted
<1>1. LiveInit => LedgerInv
  BY LedgerInit DEF LiveInit
<1>2. BusTypes /\ ViewTypes /\ LedgerInv /\ [LiveNext]_viewVars => LedgerInv'
  BY LiveStep, LedgerStep
<1>3. BusTypes /\ LedgerInv => NothingLostUncounted
  <2> SUFFICES ASSUME BusTypes, LedgerInv, NEW c \in Clients, session[c] # "gone"
               PROVE  LET stream == received[c] \o InHand(c) \o queue[c]
                      IN /\ \A i \in 1..(Len(stream) - 1) : stream[i] < stream[i + 1]
                         /\ Len(stream) + drops[c] = matched[c]
    BY DEF NothingLostUncounted
  <2>1. /\ queue[c] \in Seq(Nat) /\ received[c] \in Seq(Nat) /\ sending[c] \in Nat
        /\ published \in Nat /\ drops[c] \in Nat /\ matched[c] \in Nat
    BY DEF BusTypes
  <2>2. Balanced(received[c], sending[c], queue[c], published, drops[c], matched[c])
    BY DEF LedgerInv, Ledger
  <2> QED
    BY <2>1, <2>2, StreamInOrder DEF InHand
<1> QED
  BY <1>1, <1>2, <1>3, Typed, PTL DEF LiveSpec

(* A session that is over leaves no subscription to the bus behind, unless *)
(* the close() of ws.py:66 raised.                                         *)
THEOREM Unsubscribed == LiveSpec => []NoSubscriptionLeft
<1>1. LiveInit => NoSubscriptionLeft
  BY DEF LiveInit, Init, NoSubscriptionLeft
<1>2. BusTypes /\ NoSubscriptionLeft /\ [Next]_vars => NoSubscriptionLeft'
  <2> SUFFICES ASSUME BusTypes, NoSubscriptionLeft, [Next]_vars PROVE NoSubscriptionLeft'
    OBVIOUS
  <2> USE DEF NoSubscriptionLeft
  <2>1. CASE UNCHANGED vars \/ TimePasses \/ \E topic \in Topics : Publish(topic)
    BY <2>1 DEF vars, TimePasses, Publish
  <2>2. ASSUME NEW c \in Clients, NEW topics \in SUBSET Topics, Subscribe(c, topics)
        PROVE  NoSubscriptionLeft'
    BY <2>2 DEF Subscribe, Goes, BusTypes
  <2>3. ASSUME NEW c \in Clients, SessionStep(c) PROVE NoSubscriptionLeft'
    <3>1. CASE Take(c) \/ Sent(c)
      BY <3>1 DEF Take, Sent
    <3>2. CASE Reject(c) \/ SnapshotSent(c) \/ SnapshotFails(c) \/ TaskEnds(c)
               \/ SlowSeen(c) \/ SlowTold(c)
      BY <3>2 DEF Reject, SnapshotSent, SnapshotFails, TaskEnds, SlowSeen, SlowTold, Goes,
         BusTypes
    <3>3. CASE FailedCloses(c) \/ FailedCloseRaises(c) \/ End(c)
      BY <3>3 DEF FailedCloses, FailedCloseRaises, End, Goes, BusTypes
    <3> QED
      BY <2>3, <3>1, <3>2, <3>3 DEF SessionStep
  <2> QED
    BY <2>1, <2>2, <2>3 DEF Next
<1> QED
  BY <1>1, <1>2, LiveStep, Typed, PTL DEF LiveSpec
-----------------------------------------------------------------------------
(* A client knows the newest of every position                             *)

Follower(c) == session[c] \in {"snapshot", "live", "telling"} /\ c \in subs /\ drops[c] = 0

With(c, message) ==
  \/ message \in ToSet(received[c])
  \/ sending[c] # 0 /\ message = sending[c]
  \/ message \in ToSet(queue[c])

Knows(c, s) ==
  \/ With(c, newest[s])
  \/ newest[s] = snap[c][s]
  \/ newest[s] \in excused[c]

(* The rows lag behind in what is being written or could not be.           *)
RowsInv == \A s \in Coins : newest[s] # rows[s] => s \in failed \/ (beat = "row" /\ coin = s)

KnowsInv == \A c \in Clients : Follower(c) => \A s \in wants[c] \cap Coins : Knows(c, s)

ViewInv == RowsInv /\ KnowsInv

LEMMA InStream ==
  ASSUME NEW r \in Seq(Nat), NEW q \in Seq(Nat), NEW m,
         m \in ToSet(r) \/ m \in ToSet(q)
  PROVE  m \in ToSet(r \o q)
<1>1. /\ r \o q \in Seq(Nat) /\ Len(r \o q) = Len(r) + Len(q)
      /\ \A i \in 1..(Len(r) + Len(q)) : (r \o q)[i] = IF i <= Len(r) THEN r[i] ELSE q[i - Len(r)]
  BY ConcatProperties
<1>2. DOMAIN (r \o q) = 1..(Len(r) + Len(q)) /\ DOMAIN r = 1..Len(r) /\ DOMAIN q = 1..Len(q)
  BY <1>1, LenProperties
<1>3. CASE m \in ToSet(r)
  BY <1>1, <1>2, <1>3, LenProperties DEF ToSet
<1>4. CASE m \in ToSet(q)
  <2>1. PICK j \in 1..Len(q) : m = q[j]
    BY <1>2, <1>4 DEF ToSet
  <2>2. /\ Len(r) + j \in 1..(Len(r) + Len(q)) /\ ~(Len(r) + j <= Len(r))
        /\ (Len(r) + j) - Len(r) = j
    BY <2>1, LenProperties
  <2> QED
    BY <1>1, <1>2, <2>1, <2>2 DEF ToSet
<1> QED BY <1>3, <1>4

LEMMA InAppended ==
  ASSUME NEW q \in Seq(Nat), NEW e \in Nat
  PROVE  e \in ToSet(Append(q, e)) /\ ToSet(q) \subseteq ToSet(Append(q, e))
<1>1. DOMAIN Append(q, e) = 1..(Len(q) + 1) /\ DOMAIN q = 1..Len(q) /\ Len(q) \in Nat
  BY AppendProperties, LenProperties
<1> QED
  BY <1>1, AppendProperties DEF ToSet

LEMMA HeadOrTail ==
  ASSUME NEW q \in Seq(Nat), q # <<>>, NEW m \in ToSet(q)
  PROVE  m = Head(q) \/ m \in ToSet(Tail(q))
<1>1. PICK i \in 1..Len(q) : m = q[i]
  BY LenProperties DEF ToSet
<1>2. DOMAIN Tail(q) = 1..(Len(q) - 1)
  BY HeadTailProperties, LenProperties
<1>3. CASE i = 1
  BY <1>1, <1>3
<1>4. CASE i > 1
  <2>1. i - 1 \in 1..(Len(q) - 1) /\ Tail(q)[i - 1] = q[i]
    BY <1>1, <1>4, HeadTailProperties
  <2> QED
    BY <1>1, <1>2, <2>1 DEF ToSet
<1> QED BY <1>1, <1>3, <1>4
(* The steps that are not a client's own subscription.                     *)
NotSubscribing(c) ==
  \/ UNCHANGED vars
  \/ \E topic \in Topics : Publish(topic)
  \/ TimePasses
  \/ \E d \in Clients \ {c}, topics \in SUBSET Topics \ {{}} : Subscribe(d, topics)
  \/ \E d \in Clients : SessionStep(d)

LEMMA FollowerBefore ==
  ASSUME BusTypes, NEW c \in Clients, NotSubscribing(c), Follower(c)'
  PROVE  Follower(c) /\ wants'[c] = wants[c]
<1> USE DEF Follower
<1>1. CASE UNCHANGED vars
  BY <1>1 DEF vars, subscription
<1>2. CASE \E topic \in Topics : Publish(topic)
  BY <1>2 DEF Publish, BusTypes
<1>3. CASE TimePasses
  BY <1>3 DEF TimePasses
<1>4. CASE \E d \in Clients \ {c}, topics \in SUBSET Topics \ {{}} : Subscribe(d, topics)
  BY <1>4 DEF Subscribe, Goes, BusTypes
<1>5. ASSUME NEW d \in Clients, SessionStep(d) PROVE Follower(c) /\ wants'[c] = wants[c]
  <2>1. CASE Take(d) \/ Sent(d)
    BY <2>1 DEF Take, Sent, BusUnchanged, subscription
  <2>2. CASE d # c /\ ~(Take(d) \/ Sent(d))
    BY <1>5, <2>2 DEF SessionStep, Reject, SnapshotSent, SnapshotFails, FailedCloses,
       FailedCloseRaises, TaskEnds, SlowSeen, SlowTold, End, Goes, BusUnchanged, subscription,
       BusTypes
  <2>3. CASE d = c /\ ~(Take(d) \/ Sent(d))
    BY <1>5, <2>3 DEF SessionStep, Reject, SnapshotSent, SnapshotFails, FailedCloses,
       FailedCloseRaises, TaskEnds, SlowSeen, SlowTold, End, Goes, BusUnchanged, subscription,
       BusTypes
  <2> QED BY <2>1, <2>2, <2>3
<1> QED
  BY <1>1, <1>2, <1>3, <1>4, <1>5 DEF NotSubscribing

(* A follower keeps its messages and gets the published ones it asked for. *)
LEMMA PublishReaches ==
  ASSUME BusTypes, LedgerInv, NEW topic, Publish(topic), NEW c \in Clients, Follower(c)',
         NEW m,
         With(c, m) \/ (topic \in wants[c] /\ m = published')
  PROVE  With(c, m)'
<1>1. /\ received' = received /\ sending' = sending /\ c \in subs /\ published' \in Nat
      /\ queue[c] \in Seq(Nat)
  BY DEF Publish, Follower, BusTypes
<1>2. CASE topic \in wants[c]
  <2>1. Len(queue[c]) # QueueSize
    BY <1>1, <1>2 DEF Publish, Follower, BusTypes
  <2>2. CASE Len(queue[c]) < QueueSize
    <3>1. queue'[c] = Append(queue[c], published')
      BY <1>1, <1>2, <2>2 DEF Publish, Deliver
    <3> QED
      BY <1>1, <3>1, InAppended DEF With
  <2>3. Len(queue[c]) <= QueueSize
    BY DEF Publish, Follower, LedgerInv, Ledger, Balanced
  <2> QED
    BY <1>1, <2>1, <2>2, <2>3, LenProperties, BusAssumption
<1>3. CASE topic \notin wants[c]
  BY <1>1, <1>3 DEF Publish, With
<1> QED BY <1>2, <1>3

LEMMA MessagesKept ==
  ASSUME BusTypes, LedgerInv, NEW c \in Clients, NotSubscribing(c), Follower(c)',
         NEW m, With(c, m)
  PROVE  With(c, m)'
<1>1. CASE UNCHANGED vars
  BY <1>1 DEF vars, subscription, With
<1>2. CASE \E topic \in Topics : Publish(topic)
  BY <1>2, PublishReaches
<1>3. CASE TimePasses
  BY <1>3 DEF TimePasses, With
<1>4. CASE \E d \in Clients \ {c}, topics \in SUBSET Topics \ {{}} : Subscribe(d, topics)
  BY <1>4 DEF Subscribe, With
<1>5. ASSUME NEW d \in Clients, SessionStep(d) PROVE With(c, m)'
  <2>1. CASE d = c /\ Take(d)
    <3>1. /\ queue[c] \in Seq(Nat) /\ queue[c] # <<>> /\ sending[c] = 0 /\ received' = received
          /\ sending'[c] = Head(queue[c]) /\ queue'[c] = Tail(queue[c])
      BY <2>1 DEF Take, BusTypes
    <3>2. Head(queue[c]) # 0
      <4>1. /\ InOrder(received[c], 0, queue[c], published)
            /\ received[c] \in Seq(Nat) /\ published \in Nat
        BY <2>1, <3>1 DEF Take, LedgerInv, Ledger, Balanced, BusTypes
      <4> QED
        BY <3>1, <4>1, OldestTaken
    <3> QED
      BY <3>1, <3>2, HeadOrTail DEF With
  <2>2. CASE d = c /\ Sent(d)
    <3>1. /\ received[c] \in Seq(Nat) /\ sending[c] \in Nat /\ queue' = queue
          /\ received'[c] = Append(received[c], sending[c])
      BY <2>2 DEF Sent, BusUnchanged, subscription, BusTypes
    <3> QED
      BY <3>1, InAppended DEF With
  <2>3. CASE d # c /\ (Take(d) \/ Sent(d))
    BY <2>3 DEF Take, Sent, BusUnchanged, subscription, BusTypes, With
  <2>4. CASE End(d)
    <3>1. d # c
      BY <2>4 DEF End, Goes, Follower, BusTypes
    <3> QED
      BY <2>4, <3>1 DEF End, BusUnchanged, subscription, BusTypes, With
  <2>5. CASE ~(Take(d) \/ Sent(d) \/ End(d))
    BY <1>5, <2>5 DEF SessionStep, Reject, SnapshotSent, SnapshotFails, FailedCloses,
       FailedCloseRaises, TaskEnds, SlowSeen, SlowTold, BusUnchanged, subscription, With
  <2> QED BY <2>1, <2>2, <2>3, <2>4, <2>5
<1> QED
  BY <1>1, <1>2, <1>3, <1>4, <1>5 DEF NotSubscribing

-----------------------------------------------------------------------------
(* The rows and the newest messages                                        *)

LEMMA RowsStep == ViewTypes /\ RowsInv /\ [LiveNext]_viewVars => RowsInv'
<1> SUFFICES ASSUME ViewTypes, RowsInv, [LiveNext]_viewVars PROVE RowsInv'
  OBVIOUS
<1> USE DEF RowsInv
<1>1. ASSUME NextPosition
      PROVE  \A s \in Coins : newest'[s] # newest[s] => beat' = "row" /\ coin' = s
  BY <1>1 DEF NextPosition, ViewTypes
<1>2. CASE UNCHANGED viewVars \/ UNCHANGED view
  BY <1>2 DEF viewVars, view, loop
<1>3. CASE \E positions \in SUBSET Coins : Refresh(positions)
  BY <1>3 DEF Refresh, loop
<1>4. CASE TickBegins \/ EquityRow \/ RowRaises
  BY <1>4 DEF TickBegins, EquityRow, RowRaises
<1>5. CASE HeartbeatRow
  BY <1>1, <1>5 DEF HeartbeatRow
<1>6. CASE PositionRow
  <2>1. \A s \in Coins : rows'[s] = IF s = coin THEN newest[s] ELSE rows[s]
    BY <1>6 DEF PositionRow, Upsert, ViewTypes
  <2> QED
    BY <1>1, <1>6, <2>1 DEF PositionRow
<1>7. CASE \E c \in Clients, topics \in SUBSET Topics \ {{}} : Join(c, topics)
  BY <1>7 DEF Join, loop
<1> QED
  BY <1>2, <1>3, <1>4, <1>5, <1>6, <1>7 DEF LiveNext

(* What else changes what a client has to know, and what it saw at first.  *)
LEMMA NewestStep ==
  ASSUME ViewTypes, [LiveNext]_viewVars, NEW s \in Coins
  PROVE  newest'[s] = newest[s] \/ (Publish(s) /\ newest'[s] = published')
<1>1. ASSUME NextPosition
      PROVE  newest'[s] = newest[s] \/ (Publish(s) /\ newest'[s] = published')
  BY <1>1 DEF NextPosition, ViewTypes
<1>2. CASE UNCHANGED viewVars \/ UNCHANGED view
  BY <1>2 DEF viewVars, view
<1>3. CASE \E positions \in SUBSET Coins : Refresh(positions)
  BY <1>3 DEF Refresh
<1>4. CASE TickBegins \/ EquityRow \/ RowRaises
  BY <1>4 DEF TickBegins, EquityRow, RowRaises
<1>5. CASE HeartbeatRow \/ PositionRow
  BY <1>1, <1>5 DEF HeartbeatRow, PositionRow
<1>6. CASE \E c \in Clients, topics \in SUBSET Topics \ {{}} : Join(c, topics)
  BY <1>6 DEF Join
<1> QED
  BY <1>2, <1>3, <1>4, <1>5, <1>6 DEF LiveNext

LEMMA OthersStep ==
  ASSUME ViewTypes, [LiveNext]_viewVars, NEW c \in Clients,
         ~ \E topics \in SUBSET Topics \ {{}} : Join(c, topics)
  PROVE  NotSubscribing(c) /\ snap'[c] = snap[c] /\ excused'[c] = excused[c]
<1> USE TopicsAssumption DEF NotSubscribing
<1>1. ASSUME NextPosition PROVE NotSubscribing(c)
  BY <1>1 DEF NextPosition, ViewTypes
<1>2. CASE UNCHANGED viewVars
  BY <1>2 DEF viewVars, view
<1>3. CASE \E positions \in SUBSET Coins : Refresh(positions)
  BY <1>3 DEF Refresh
<1>4. CASE TickBegins
  BY <1>4 DEF TickBegins
<1>5. CASE EquityRow \/ RowRaises
  BY <1>5 DEF EquityRow, RowRaises
<1>6. CASE HeartbeatRow \/ PositionRow
  BY <1>1, <1>6 DEF HeartbeatRow, PositionRow
<1>7. ASSUME NEW d \in Clients, NEW topics \in SUBSET Topics \ {{}}, Join(d, topics)
      PROVE  NotSubscribing(c) /\ snap'[c] = snap[c] /\ excused'[c] = excused[c]
  <2>1. d # c
    BY <1>7
  <2>2. NotSubscribing(c)
    BY <1>7, <2>1 DEF Join
  <2> QED
    BY <1>7, <2>1, <2>2 DEF Join, ViewTypes
<1>8. CASE /\ Publish(Tick) \/ TimePasses \/ \E d \in Clients : SessionStep(d)
           /\ UNCHANGED view
  BY <1>8 DEF view
<1> QED
  BY <1>2, <1>3, <1>4, <1>5, <1>6, <1>7, <1>8 DEF LiveNext

LEMMA KnowsStep ==
  BusTypes /\ ViewTypes /\ LedgerInv /\ ViewInv /\ [LiveNext]_viewVars => KnowsInv'
<1> SUFFICES ASSUME BusTypes, ViewTypes, LedgerInv, ViewInv, [LiveNext]_viewVars,
                    NEW c \in Clients, Follower(c)', NEW s \in (wants'[c]) \cap Coins
             PROVE  Knows(c, s)'
  BY DEF KnowsInv
<1>1. CASE \E topics \in SUBSET Topics \ {{}} : Join(c, topics)
  <2>1. /\ newest' = newest /\ snap'[c] = rows
        /\ excused'[c] = {newest[t] : t \in failed \cup (IF beat = "row" THEN {coin} ELSE {})}
    BY <1>1 DEF Join, ViewTypes
  <2>2. newest[s] # rows[s] => s \in failed \/ (beat = "row" /\ coin = s)
    BY DEF ViewInv, RowsInv
  <2> QED
    BY <2>1, <2>2 DEF Knows
<1>2. CASE ~ \E topics \in SUBSET Topics \ {{}} : Join(c, topics)
  <2>1. NotSubscribing(c) /\ snap'[c] = snap[c] /\ excused'[c] = excused[c]
    BY <1>2, OthersStep
  <2>2. Follower(c) /\ wants'[c] = wants[c]
    BY <2>1, FollowerBefore
  <2>3. Knows(c, s)
    BY <2>2 DEF ViewInv, KnowsInv
  <2>4. CASE newest'[s] = newest[s]
    BY <2>1, <2>3, <2>4, MessagesKept DEF Knows
  <2>5. CASE Publish(s) /\ newest'[s] = published'
    BY <2>2, <2>5, PublishReaches DEF Knows
  <2> QED
    BY <2>4, <2>5, NewestStep
<1> QED BY <1>1, <1>2

(* A client that has lost no message has, in its snapshot or after it, the *)
(* newest on every position it asked for, but for those whose row was      *)
(* being written or could not be written when it subscribed (ws.py:58).    *)
THEOREM Informed == LiveSpec => []ClientKnowsNewest
<1>1. LiveInit => LedgerInv /\ ViewInv
  BY LedgerInit DEF LiveInit, Init, ViewInv, RowsInv, KnowsInv, Follower
<1>2. BusTypes /\ ViewTypes /\ LedgerInv /\ ViewInv /\ [LiveNext]_viewVars
        => (LedgerInv /\ ViewInv)'
  BY LiveStep, LedgerStep, RowsStep, KnowsStep DEF ViewInv
<1>3. BusTypes /\ ViewInv => ClientKnowsNewest
  <2> SUFFICES ASSUME BusTypes, ViewInv, NEW c \in Clients, Follower(c),
                      NEW s \in wants[c] \cap Coins, With(c, newest[s])
               PROVE  newest[s] \in ToSet(received[c] \o InHand(c) \o queue[c])
    BY DEF ClientKnowsNewest, ViewInv, KnowsInv, Follower, Knows
  <2>1. queue[c] \in Seq(Nat) /\ received[c] \in Seq(Nat) /\ sending[c] \in Nat
    BY DEF BusTypes
  <2>2. InHand(c) \in Seq(Nat) /\ (sending[c] # 0 => sending[c] \in ToSet(InHand(c)))
    BY <2>1, EmptySeq DEF InHand, ToSet
  <2>3. received[c] \o InHand(c) \in Seq(Nat)
    BY <2>1, <2>2, ConcatProperties
  <2>4. newest[s] \in ToSet(received[c] \o InHand(c)) \/ newest[s] \in ToSet(queue[c])
    BY <2>1, <2>2, InStream DEF With
  <2> QED
    BY <2>1, <2>3, <2>4, InStream
<1> QED
  BY <1>1, <1>2, <1>3, Typed, PTL DEF LiveSpec
=============================================================================
