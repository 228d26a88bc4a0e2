----------------------------- MODULE FmnaEvents -----------------------------
(***************************************************************************)
(* The execution context every Find My module shares: the system workqueue *)
(* and the application event manager.  Bluetooth callbacks and GATT writes *)
(* only post events; the events are handled one after the other, in FIFO   *)
(* order, by one work item of the system workqueue, which takes the whole  *)
(* list of posted events when it starts.  Timers expire in interrupt       *)
(* context and submit work items to the same queue.                        *)
(***************************************************************************)
EXTENDS Integers, Sequences

CONSTANT
  BT_MAX_CONN   \* Number of connection objects of the Bluetooth host.

ASSUME ConnAssumption == BT_MAX_CONN \in Nat \ {0}

VARIABLES
  workq,        \* System workqueue: the work items waiting to run.
  batch,        \* Events the running event work item has still to handle.
  events        \* Events posted since that work item started.

queueVars == <<workq, batch, events>>

(* A connection is named by its bt_conn_index(), as the code indexes it. *)
Slots  == 1..BT_MAX_CONN
NULL   == 0
Conns  == Slots \cup {NULL}

WorkItems == {"events", "nearby", "keys"}

LinkEvents ==
  {"PEER_CONNECTED", "PEER_DISCONNECTED", "PEER_SECURITY_CHANGED",
   "OWNER_CONNECTED", "MAX_CONN_CHANGED"}
StackEvents == {"STATE_CHANGED", "PUBLIC_KEYS_CHANGED"}
ConfigEvents ==
  {"SET_PERSISTENT_CONN_STATUS", "SET_MAX_CONNECTIONS", "SET_NEARBY_TIMEOUT",
   "UNPAIR"}
PairEvents == {"INITIATE_PAIRING", "FINALIZE_PAIRING", "PAIRING_COMPLETE"}

PeerEvents == LinkEvents \cup ConfigEvents \cup PairEvents

(* An event is about one connection or about the stack as a whole. *)
Event == [id : PeerEvents, conn : Slots, arg : Nat]
           \cup [id : StackEvents, conn : {NULL}, arg : Nat]

Ev(id, c)        == [id |-> id, conn |-> c, arg |-> 0]
EvArg(id, c, a)  == [id |-> id, conn |-> c, arg |-> a]

QueueTypeOK ==
  /\ workq  \in Seq(WorkItems)
  /\ batch  \in Seq(Event)
  /\ events \in Seq(Event)

Queued(q, item) == \E i \in 1..Len(q) : q[i] = item

(* k_work_submit(): a work item that already waits is not queued twice. *)
Submitted(q, item) == IF Queued(q, item) THEN q ELSE Append(q, item)

(* k_work_cancel(): takes the item out of the queue, where it waits once. *)
Cancelled(q, item) ==
  IF Queued(q, item)
  THEN LET i == CHOOSE i \in 1..Len(q) : q[i] = item
       IN SubSeq(q, 1, i - 1) \o SubSeq(q, i + 1, Len(q))
  ELSE q

(* APP_EVENT_SUBMIT for each event of evs, onto workqueue q. *)
PostOn(q, evs) ==
  /\ events' = events \o evs
  /\ workq'  = IF evs = <<>> THEN q ELSE Submitted(q, "events")

Post(evs) == PostOn(workq, evs)

(* The workqueue thread is between two work items. *)
Between == batch = <<>>

(* The event work item starts: it takes every event posted so far. *)
TakeEvents ==
  /\ Between
  /\ workq # <<>> /\ Head(workq) = "events"
  /\ workq'  = Tail(workq)
  /\ batch'  = events
  /\ events' = <<>>

(* The event manager calls the listeners of the next event, a id. *)
Handling(id) ==
  /\ batch # <<>>
  /\ Head(batch).id = id
  /\ batch' = Tail(batch)

(* Work item w runs in this step; q is the queue it leaves behind. *)
Running(w) ==
  /\ Between
  /\ workq # <<>> /\ Head(workq) = w
  /\ UNCHANGED batch

(* An event of this kind for this connection has been posted, not handled. *)
Pending(id, c) ==
  \/ \E i \in 1..Len(batch)  : batch[i].id = id  /\ batch[i].conn = c
  \/ \E i \in 1..Len(events) : events[i].id = id /\ events[i].conn = c

NothingQueued == workq = <<>> /\ batch = <<>> /\ events = <<>>

=============================================================================
