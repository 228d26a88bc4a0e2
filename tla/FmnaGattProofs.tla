--------------------------- MODULE FmnaGattProofs ---------------------------
(***************************************************************************)
(* Theorems about FmnaGatt, for every value of its constants.              *)
(***************************************************************************)
EXTENDS FmnaGatt, FmnaEventsProofs, WellFoundedInduction

-----------------------------------------------------------------------------
(* Chunks. *)

(* An indication under way, with the chunk it is sending. *)
ChunkOK(i) ==
  /\ i.conn \in Slots /\ i.peer \in 1..MaxPeers
  /\ i.len \in Nat /\ i.sent \in Int /\ i.chunk \in Nat /\ i.left \in Nat
  /\ i.chunk >= 1 /\ i.chunk + 1 <= mtu[i.conn]
  /\ i.sent + i.chunk + i.left = i.len

(* The assumption on the constants, without what is said of the races. *)
LEMMA GattConstants ==
  /\ \A m \in Mtus : m \in Nat /\ m >= 2
  /\ ResponseLen \in Nat /\ ResponseLen >= 1 /\ DataLen \in Nat /\ DataLen >= 1
  /\ PairingChunks \in Nat /\ PairingChunks >= 1
  /\ MaxPeers \in Nat /\ BT_MAX_CONN \in Nat /\ BT_MAX_CONN >= 1
<1>1. Mtus \subseteq Nat \ {0, 1}
  BY GattAssumption, Zenon
<1>2. ResponseLen \in Nat \ {0} /\ DataLen \in Nat \ {0} /\ PairingChunks \in Nat \ {0}
  BY GattAssumption, Zenon
<1>3. MaxPeers \in Nat /\ BT_MAX_CONN \in Nat \ {0}
  BY GattAssumption, ConnAssumption, Zenon
<1>. QED  BY <1>1, <1>2, <1>3

IndFields == [conn : Conns, peer : Nat, len : Nat, sent : Int, chunk : Int, left : Int]

(* Of a packet that is not yet all sent, the next chunk fits the link and   *)
(* is not empty, and nothing gets lost between two chunks.                 *)
LEMMA ChunkPrepared ==
  ASSUME mtu \in [Slots -> Mtus], NEW i \in IndFields, i.conn \in Slots,
         i.peer \in 1..MaxPeers, i.left >= 1, i.sent + i.chunk + i.left = i.len
  PROVE  /\ chunk_prepare(i) \in IndFields
         /\ ChunkOK(chunk_prepare(i))
         /\ chunk_prepare(i).conn = i.conn /\ chunk_prepare(i).peer = i.peer
<1>. DEFINE m == mtu[i.conn]
            n == Payload(m, i.left)
            j == chunk_prepare(i)
<1>1. m \in Nat /\ m >= 2
  BY GattConstants
<1>2. i.left \in Int /\ i.sent \in Int /\ i.chunk \in Int /\ i.len \in Nat
  BY DEF IndFields
<1>3. n \in Nat /\ n >= 1 /\ n + 1 <= m /\ n <= i.left
  BY <1>1, <1>2 DEF Payload, IsLast
<1>4. j = [i EXCEPT !.sent = i.sent + i.chunk, !.chunk = n, !.left = i.left - n]
  BY DEF chunk_prepare
<1>. HIDE DEF n, m
<1>5. /\ j.conn = i.conn /\ j.peer = i.peer /\ j.len = i.len
      /\ j.sent = i.sent + i.chunk /\ j.chunk = n /\ j.left = i.left - n
      /\ j \in IndFields
  <2>1. i.sent + i.chunk \in Int /\ n \in Int /\ i.left - n \in Int
    BY <1>2, <1>3
  <2>. DEFINE s == i.sent + i.chunk
              l == i.left - n
  <2>. HIDE DEF s, l
  <2>2. j = [i EXCEPT !.sent = s, !.chunk = n, !.left = l]
    BY <1>4 DEF s, l
  <2>3. /\ j.conn = i.conn /\ j.peer = i.peer /\ j.len = i.len
        /\ j.sent = s /\ j.chunk = n /\ j.left = l
    BY <2>2 DEF IndFields
  <2>4. j \in IndFields
    BY <2>1, <2>2 DEF IndFields, s, l
  <2>. QED  BY <2>3, <2>4 DEF s, l
<1>. HIDE DEF j
<1>6. ChunkOK(j)
  BY <1>2, <1>3, <1>5 DEF ChunkOK, m
<1>. QED  BY <1>5, <1>6 DEF j

(* The first chunk of a packet. *)
LEMMA StartedChunk ==
  ASSUME mtu \in [Slots -> Mtus], NEW pkt \in Packet
  PROVE  /\ Started(pkt) \in IndFields
         /\ ChunkOK(Started(pkt))
         /\ Started(pkt).conn = pkt.conn /\ Started(pkt).peer = pkt.peer
<1>. DEFINE i == [NoInd EXCEPT !.conn = pkt.conn, !.peer = pkt.peer, !.len = pkt.len,
                               !.left = pkt.len]
<1>1. /\ pkt.conn \in Slots /\ pkt.peer \in 1..MaxPeers
      /\ pkt.len \in Nat /\ pkt.len >= 1
  BY GattConstants DEF Packet
<1>2. NoInd \in IndFields /\ NoInd.sent = 0 /\ NoInd.chunk = 0
  BY DEF NoInd, IndFields, Conns
<1>3. /\ i \in IndFields
      /\ i.conn = pkt.conn /\ i.peer = pkt.peer /\ i.len = pkt.len /\ i.left = pkt.len
      /\ i.sent = 0 /\ i.chunk = 0
  <2>1. pkt.conn \in Conns /\ pkt.peer \in Nat /\ pkt.len \in Int
    BY <1>1, GattConstants DEF Conns
  <2>2. i \in IndFields
    BY <1>1, <1>2, <2>1 DEF IndFields
  <2>3. i.conn = pkt.conn /\ i.peer = pkt.peer /\ i.len = pkt.len /\ i.left = pkt.len
    BY <1>2 DEF IndFields
  <2>4. i.sent = NoInd.sent /\ i.chunk = NoInd.chunk
    BY <1>2 DEF IndFields
  <2>. QED  BY <1>2, <2>2, <2>3, <2>4
<1>. HIDE DEF i
<1>4. ChunkOK(chunk_prepare(i)) /\ chunk_prepare(i) \in IndFields
      /\ chunk_prepare(i).conn = i.conn /\ chunk_prepare(i).peer = i.peer
  BY <1>1, <1>3, ChunkPrepared
<1>. QED  BY <1>3, <1>4 DEF Started, i

-----------------------------------------------------------------------------
(* The indications. *)

HostInv ==
  /\ link \in [Slots -> 0..MaxPeers] /\ mtu \in [Slots -> Mtus]
  /\ peers \in 0..MaxPeers

Reliable == "send_fails" \notin GattRaces

(* Packets wait with a peer and a length; an indication under way holds a   *)
(* good chunk.  Unless the host may refuse a chunk, the buffer is released. *)
IndInv ==
  /\ fifo_ind_data \in Seq(Packet)
  /\ ind \in IndFields
  /\ ind = NoInd \/ ChunkOK(ind)
  /\ in_flight \in BOOLEAN
  /\ in_flight => ind # NoInd
  /\ Reliable => BufferReleased

LEMMA NoIndIdle == NoInd \in IndFields /\ NoInd.left = 0 /\ NoInd.conn \notin Slots
BY DEF NoInd, IndFields, Conns, NULL, Slots

LEMMA GattInitInd == Init => HostInv /\ IndInv
<1>. SUFFICES ASSUME Init PROVE HostInv /\ IndInv
  OBVIOUS
<1>1. HostInv
  BY GattConstants DEF Init, HostInv
<1>2. ind = NoInd /\ in_flight = FALSE /\ fifo_ind_data = <<>>
  BY DEF Init
<1>3. BufferReleased
  BY <1>2 DEF BufferReleased
<1>4. fifo_ind_data \in Seq(Packet)
  BY <1>2
<1>5. ind \in IndFields /\ in_flight \in BOOLEAN
  BY <1>2, NoIndIdle, Zenon
<1>. QED  BY <1>1, <1>2, <1>3, <1>4, <1>5, Zenon DEF IndInv

LEMMA IndLeft ==
  ASSUME IndInv, UNCHANGED indVars, UNCHANGED mtu
  PROVE  IndInv'
BY DEF IndInv, indVars, BufferReleased, ChunkOK

(* A packet is started in the free buffer. *)
LEMMA IndStarted ==
  ASSUME HostInv, UNCHANGED mtu, NEW pkt \in Packet, ind' = Started(pkt), in_flight' = TRUE,
         fifo_ind_data' \in Seq(Packet)
  PROVE  IndInv'
<1>1. /\ Started(pkt) \in IndFields /\ ChunkOK(Started(pkt))
      /\ Started(pkt).conn \in Slots
  BY StartedChunk DEF HostInv, Packet
<1>2. ind' # NoInd
  BY <1>1, NoIndIdle
<1>3. ChunkOK(ind)'
  BY <1>1 DEF ChunkOK
<1>4. BufferReleased'
  BY <1>2 DEF BufferReleased
<1>. QED  BY <1>1, <1>2, <1>3, <1>4 DEF IndInv

(* The buffer is freed with nothing left behind it. *)
LEMMA IndFreed ==
  ASSUME ind' = NoInd, in_flight' = FALSE, fifo_ind_data' = <<>>
  PROVE  IndInv'
<1>1. BufferReleased'
  BY DEF BufferReleased
<1>2. fifo_ind_data' \in Seq(Packet)
  OBVIOUS
<1>3. ind' \in IndFields /\ in_flight' \in BOOLEAN
  BY NoIndIdle, Zenon
<1>. QED  BY <1>1, <1>2, <1>3, Zenon DEF IndInv

LEMMA Indicated ==
  ASSUME HostInv, IndInv, UNCHANGED mtu, NEW pkt \in Packet, cp_indicate(pkt)
  PROVE  IndInv'
<1>1. CASE ind # NoInd
  <2>1. fifo_ind_data' = Append(fifo_ind_data, pkt) /\ UNCHANGED <<ind, in_flight>>
    BY <1>1 DEF cp_indicate
  <2>2. fifo_ind_data' \in Seq(Packet)
    BY <2>1, AppendProperties DEF IndInv
  <2>. QED  BY <1>1, <2>1, <2>2 DEF IndInv, BufferReleased, ChunkOK
<1>2. CASE ind = NoInd /\ link[pkt.conn] = 0
  BY <1>2, IndLeft DEF cp_indicate, indVars
<1>3. CASE ind = NoInd /\ link[pkt.conn] # 0
  <2>1. ind' = Started(pkt) /\ in_flight' = TRUE /\ UNCHANGED fifo_ind_data
    BY <1>3 DEF cp_indicate
  <2>. QED  BY <2>1, IndStarted DEF IndInv
<1>. QED  BY <1>1, <1>2, <1>3

(* A non-empty set of natural numbers has a least one. *)
LEMMA LeastNatural ==
  ASSUME NEW S \in SUBSET Nat, S # {}
  PROVE  \E j \in S : \A i \in S : j <= i
<1>. DEFINE R == OpToRel(<, Nat)
<1>1. IsWellFoundedOn(R, Nat)
  BY NatLessThanWellFounded
<1>2. \A i, k \in Nat : i < k => <<i, k>> \in R
  BY DEF OpToRel
<1>. HIDE DEF R
<1>3. PICK j \in S : \A i \in S : ~(<<i, j>> \in R)
  BY <1>1, WFMin
<1>4. \A i \in S : ~(i < j)
  BY <1>2, <1>3
<1>5. \A i \in S : i \in Int /\ j \in Int
  OBVIOUS
<1>6. \A i \in S : j <= i
  BY <1>4, <1>5
<1>. QED  BY <1>6

(* The packet that cp_ind_queue_process() starts, and those it keeps.       *)
LEMMA QueueProcessed ==
  ASSUME IndInv, NEW ls, cp_ind_queue_process(ls)
  PROVE  \/ ind' = NoInd /\ in_flight' = FALSE /\ fifo_ind_data' = <<>>
         \/ \E k \in 1..Len(fifo_ind_data) :
              /\ ls[fifo_ind_data[k].conn] # 0
              /\ ind' = Started(fifo_ind_data[k]) /\ in_flight' = TRUE
              /\ fifo_ind_data' = SubSeq(fifo_ind_data, k + 1, Len(fifo_ind_data))
<1>1. CASE Sendable(ls) = {}
  BY <1>1 DEF cp_ind_queue_process
<1>2. CASE Sendable(ls) # {}
  <2>. DEFINE k == CHOOSE k \in Sendable(ls) : \A i \in Sendable(ls) : k <= i
  <2>1. DOMAIN fifo_ind_data = 1..Len(fifo_ind_data) /\ Len(fifo_ind_data) \in Nat
    BY LenProperties DEF IndInv
  <2>2. \E j \in Sendable(ls) : \A i \in Sendable(ls) : j <= i
    <3>1. Sendable(ls) \subseteq Nat
      BY <2>1 DEF Sendable
    <3>. QED  BY <3>1, <1>2, LeastNatural
  <2>3. k \in Sendable(ls)
    BY <2>2
  <2>4. k \in 1..Len(fifo_ind_data) /\ ls[fifo_ind_data[k].conn] # 0
    BY <2>1, <2>3 DEF Sendable
  <2>5. /\ ind' = Started(fifo_ind_data[k]) /\ in_flight' = TRUE
        /\ fifo_ind_data' = SubSeq(fifo_ind_data, k + 1, Len(fifo_ind_data))
    BY <1>2 DEF cp_ind_queue_process
  <2>. HIDE DEF k
  <2>. QED  BY <2>4, <2>5
<1>. QED  BY <1>1, <1>2

LEMMA ProcessedInd ==
  ASSUME HostInv, IndInv, UNCHANGED mtu, NEW ls, cp_ind_queue_process(ls)
  PROVE  IndInv'
<1>1. CASE ind' = NoInd /\ in_flight' = FALSE /\ fifo_ind_data' = <<>>
  BY <1>1, IndFreed
<1>2. ASSUME NEW k \in 1..Len(fifo_ind_data),
             ind' = Started(fifo_ind_data[k]), in_flight' = TRUE,
             fifo_ind_data' = SubSeq(fifo_ind_data, k + 1, Len(fifo_ind_data))
      PROVE  IndInv'
  <2>1. Len(fifo_ind_data) \in Nat
    BY LenProperties DEF IndInv
  <2>2. \A i \in 1..Len(fifo_ind_data) : fifo_ind_data[i] \in Packet
    BY ElementOfSeq DEF IndInv
  <2>3. fifo_ind_data' \in Seq(Packet)
    <3>1. \A i \in (k + 1)..Len(fifo_ind_data) : fifo_ind_data[i] \in Packet
      BY <2>1, <2>2
    <3>. QED  BY <1>2, <2>1, <3>1, SubSeqProperties
  <2>. QED  BY <1>2, <2>2, <2>3, IndStarted
<1>. QED  BY <1>1, <1>2, QueueProcessed

-----------------------------------------------------------------------------
(* The events and the delayed answer. *)

CommandEvent == [id : Commands, conn : Slots, arg : 1..MaxPeers]
LinkEvent    == [id : {"PEER_DISCONNECTED", "PEER_SECURITY_CHANGED"}, conn : Slots, arg : {0}]
GattEvent    == CommandEvent \cup LinkEvent

EventsInv == batch \in Seq(GattEvent) /\ events \in Seq(GattEvent)

(* max_conn_work waits, in its timer or on the workqueue and never in both, *)
(* only while an answer is delayed.                                        *)
LimitInv ==
  /\ WorkqueueOK(workq)
  /\ max_conn_timer \in BOOLEAN
  /\ max_conn = NoMax \/ max_conn \in [conn : Slots, peer : 1..MaxPeers]
  /\ max_conn_timer \/ Queued(workq, "max_conn") => max_conn # NoMax
  /\ ~(max_conn_timer /\ Queued(workq, "max_conn"))

LEMMA GattInitEvents == Init => EventsInv /\ LimitInv
<1>. SUFFICES ASSUME Init PROVE EventsInv /\ LimitInv
  OBVIOUS
<1>1. EventsInv
  BY DEF Init, EventsInv
<1>2. WorkqueueOK(<<>>) /\ \A w : ~Queued(<<>>, w)
  BY DEF WorkqueueOK, Once, Queued
<1>3. workq = <<>> /\ max_conn_timer = FALSE /\ max_conn = NoMax
  BY DEF Init
<1>. QED  BY <1>1, <1>2, <1>3, Zenon DEF LimitInv

(* A command event carries a packet's address. *)
LEMMA CommandHandled ==
  ASSUME EventsInv, NEW id \in Commands, Handling(id)
  PROVE  /\ Head(batch) \in CommandEvent
         /\ \A n \in {ResponseLen, DataLen} :
              Pkt(Head(batch).conn, Head(batch).arg, n) \in Packet
<1>1. Head(batch) \in GattEvent /\ Head(batch).id = id
  BY HeadTailProperties DEF Handling, EventsInv
<1>2. id \notin {"PEER_DISCONNECTED", "PEER_SECURITY_CHANGED"}
  BY DEF Commands
<1>3. Head(batch) \in CommandEvent
  BY <1>1, <1>2 DEF GattEvent, LinkEvent
<1>. QED  BY <1>3 DEF CommandEvent, Pkt, Packet

(* What a step may do with the events: take all, take one, post one.       *)
EventsMoved ==
  /\ \/ UNCHANGED batch
     \/ batch # <<>> /\ batch' = Tail(batch)
     \/ batch' = events
  /\ \/ UNCHANGED events
     \/ events' = <<>>
     \/ \E e \in GattEvent : events' = events \o <<e>>

LEMMA EventsMovedKeep ==
  ASSUME EventsInv, EventsMoved
  PROVE  EventsInv'
<1>1. batch' \in Seq(GattEvent)
  <2>1. batch # <<>> => Tail(batch) \in Seq(GattEvent)
    BY HeadTailProperties DEF EventsInv
  <2>. QED  BY <2>1 DEF EventsInv, EventsMoved
<1>2. events' \in Seq(GattEvent)
  <2>1. \A e \in GattEvent : <<e>> \in Seq(GattEvent)
    OBVIOUS
  <2>2. \A e \in GattEvent : events \o <<e>> \in Seq(GattEvent)
    BY <2>1, ConcatProperties DEF EventsInv
  <2>3. <<>> \in Seq(GattEvent)
    OBVIOUS
  <2>. QED  BY <2>2, <2>3, Zenon DEF EventsInv, EventsMoved
<1>. QED  BY <1>1, <1>2 DEF EventsInv

(* The events the host posts are events, of the peer on the link. *)
LEMMA PostedEvent ==
  ASSUME HostInv
  PROVE  /\ \A id \in Commands : \A c \in Slots :
              link[c] # 0 => EvArg(id, c, link[c]) \in CommandEvent
         /\ \A id \in {"PEER_DISCONNECTED", "PEER_SECURITY_CHANGED"} : \A c \in Slots :
              Ev(id, c) \in LinkEvent
         /\ \A q, e : PostOn(q, <<e>>) => events' = events \o <<e>>
<1>1. \A c \in Slots : link[c] # 0 => link[c] \in 1..MaxPeers
  BY GattConstants DEF HostInv
<1>2. \A id \in Commands : \A c \in Slots :
        link[c] # 0 => EvArg(id, c, link[c]) \in CommandEvent
  BY <1>1 DEF EvArg, CommandEvent
<1>. QED  BY <1>2 DEF Ev, LinkEvent, PostOn

(* The chunk that completes a pairing packet posts its event. *)
LEMMA ChunkWritten ==
  ASSUME pairing_cp_write
  PROVE  /\ UNCHANGED <<batch, hostVars, limitVars, indVars>>
         /\ \/ UNCHANGED <<workq, events>>
            \/ \E c \in Slots : link[c] # 0 /\ Post(<<EvArg("PAIRING", c, link[c])>>)
BY Zenon DEF pairing_cp_write, MayWrite

LEMMA EventsStep ==
  ASSUME HostInv, EventsInv, [Next]_vars
  PROVE  EventsInv'
<1>1. ASSUME NEW c \in Slots, NEW id \in Commands, link[c] # 0, Post(<<EvArg(id, c, link[c])>>)
      PROVE  \E e \in GattEvent : events' = events \o <<e>>
  BY <1>1, PostedEvent DEF Post, GattEvent
<1>2. ASSUME NEW c \in Slots, NEW id \in {"PEER_DISCONNECTED", "PEER_SECURITY_CHANGED"},
             Post(<<Ev(id, c)>>)
      PROVE  \E e \in GattEvent : events' = events \o <<e>>
  BY <1>2, PostedEvent DEF Post, GattEvent
<1>3. CASE TakeEvents
  BY <1>3, EventsMovedKeep, Zenon DEF EventsMoved, TakeEvents
<1>4. CASE command_handle \/ pairing_cmd_handle \/ max_connections_request_handle
           \/ security_changed_handle \/ peer_disconnected_handle
  BY <1>4, EventsMovedKeep, Zenon
     DEF EventsMoved, command_handle, pairing_cmd_handle, max_connections_request_handle,
     security_changed_handle, peer_disconnected_handle, Handling
<1>5. CASE max_conn_work_handle \/ max_conn_timer_expires \/ cp_ind_cb \/ connected
           \/ nearby_separated_work_handle \/ UNCHANGED vars
  BY <1>5, EventsMovedKeep, Zenon
     DEF EventsMoved, max_conn_work_handle, Running, max_conn_timer_expires, cp_ind_cb,
     connected, nearby_separated_work_handle, vars, queueVars
<1>6. CASE pairing_cp_write
  <2>1. UNCHANGED batch
    BY <1>6, ChunkWritten
  <2>2. UNCHANGED events \/ \E e \in GattEvent : events' = events \o <<e>>
    BY <1>1, <1>6, ChunkWritten DEF Commands
  <2>. QED  BY <2>1, <2>2, EventsMovedKeep, Zenon DEF EventsMoved
<1>7. CASE command_write
  <2>1. UNCHANGED batch
    BY <1>7, Zenon DEF command_write
  <2>2. \/ UNCHANGED events
        \/ \E c \in Slots, id \in Commands :
             link[c] # 0 /\ Post(<<EvArg(id, c, link[c])>>)
    BY <1>7, Zenon DEF command_write, MayWrite
  <2>3. UNCHANGED events \/ \E e \in GattEvent : events' = events \o <<e>>
    BY <1>1, <2>2
  <2>. QED  BY <2>1, <2>3, EventsMovedKeep, Zenon DEF EventsMoved
<1>8. CASE disconnected \/ security_changed
  <2>1. UNCHANGED batch
    BY <1>8, Zenon DEF disconnected, security_changed
  <2>2. \E c \in Slots, id \in {"PEER_DISCONNECTED", "PEER_SECURITY_CHANGED"} :
          Post(<<Ev(id, c)>>)
    BY <1>8, Zenon DEF disconnected, security_changed
  <2>3. \E e \in GattEvent : events' = events \o <<e>>
    BY <1>2, <2>2
  <2>. QED  BY <2>1, <2>3, EventsMovedKeep, Zenon DEF EventsMoved
<1>. QED
  BY <1>3, <1>4, <1>5, <1>6, <1>7, <1>8, Zenon DEF Next, WorkqueueStep, Peers

LEMMA LimitLeft ==
  ASSUME LimitInv, UNCHANGED <<max_conn, max_conn_timer>>,
         UNCHANGED workq \/ TakeEvents \/ \E evs : Post(evs)
  PROVE  LimitInv'
<1>1. WorkqueueOK(workq') /\ (Queued(workq', "max_conn") <=> Queued(workq, "max_conn"))
  <2>0. WorkqueueOK(workq)
    BY DEF LimitInv
  <2>1. CASE UNCHANGED workq
    BY <2>0, <2>1
  <2>2. CASE TakeEvents
    BY <2>0, <2>2, TailOnce DEF TakeEvents
  <2>3. CASE \E evs : Post(evs)
    BY <2>0, <2>3, PostedOnce DEF Post
  <2>. QED  BY <2>1, <2>2, <2>3
<1>. QED  BY <1>1, Zenon DEF LimitInv

LEMMA LimitStep ==
  ASSUME LimitInv, EventsInv, [Next]_vars
  PROVE  LimitInv'
<1>1. CASE max_connections_request_handle
  <2>1. UNCHANGED workq
    BY <1>1, Zenon DEF max_connections_request_handle
  <2>2. CASE max_conn = NoMax /\ max_conn_timer' = TRUE
             /\ max_conn' = [conn |-> Head(batch).conn, peer |-> Head(batch).arg]
    <3>1. Head(batch) \in CommandEvent
      BY <1>1, CommandHandled DEF max_connections_request_handle, Commands
    <3>2. max_conn' \in [conn : Slots, peer : 1..MaxPeers]
      BY <2>2, <3>1 DEF CommandEvent
    <3>3. max_conn' # NoMax
      BY <3>2 DEF NoMax, NULL, Slots
    <3>4. ~Queued(workq, "max_conn")
      BY <2>2, Zenon DEF LimitInv
    <3>. QED  BY <2>1, <2>2, <3>2, <3>3, <3>4, Zenon DEF LimitInv
  <2>3. CASE UNCHANGED <<max_conn, max_conn_timer>>
    BY <2>1, <2>3, LimitLeft
  <2>. QED  BY <1>1, <2>2, <2>3, Zenon DEF max_connections_request_handle
<1>2. CASE max_conn_timer_expires
  <2>1. WorkqueueOK(workq') /\ Queued(workq', "max_conn")
    BY <1>2, SubmittedOnce DEF max_conn_timer_expires, LimitInv, Names
  <2>2. max_conn_timer /\ max_conn_timer' = FALSE /\ max_conn' = max_conn
    BY <1>2, Zenon DEF max_conn_timer_expires
  <2>. QED  BY <2>1, <2>2, Zenon DEF LimitInv
<1>3. CASE max_conn_work_handle
  <2>1. workq # <<>> /\ Head(workq) = "max_conn" /\ WorkqueueOK(workq) /\ workq' = Tail(workq)
    BY <1>3 DEF max_conn_work_handle, Running, LimitInv
  <2>2. WorkqueueOK(workq') /\ ~Queued(workq', "max_conn")
    BY <2>1, TailOnce
  <2>3. Queued(workq, "max_conn")
    <3>1. workq \in Seq(Names)
      BY <2>1 DEF WorkqueueOK
    <3>2. 1 \in 1..Len(workq) /\ workq[1] = "max_conn"
      BY <2>1, <3>1, EmptySeq, LenProperties
    <3>. QED  BY <3>2, Zenon DEF Queued
  <2>4. max_conn # NoMax /\ ~max_conn_timer
    BY <2>3, Zenon DEF LimitInv
  <2>5. \/ max_conn' = NoMax /\ max_conn_timer' = max_conn_timer
        \/ max_conn' = max_conn /\ max_conn_timer' = TRUE
    BY <1>3, Zenon DEF max_conn_work_handle, MaxConnAnswered
  <2>6. CASE max_conn' = NoMax /\ max_conn_timer' = max_conn_timer
    BY <2>2, <2>4, <2>6, Zenon DEF LimitInv
  <2>7. CASE max_conn' = max_conn /\ max_conn_timer' = TRUE
    <3>1. max_conn' # NoMax /\ max_conn' \in [conn : Slots, peer : 1..MaxPeers]
      BY <2>4, <2>7, Zenon DEF LimitInv
    <3>2. max_conn_timer' \in BOOLEAN
      BY <2>7, Zenon
    <3>. QED  BY <2>2, <3>1, <3>2, Zenon DEF LimitInv
  <2>. QED  BY <2>5, <2>6, <2>7
<1>4. CASE TakeEvents /\ UNCHANGED limitVars
  BY <1>4, LimitLeft DEF limitVars
<1>5. CASE \/ command_handle \/ pairing_cmd_handle \/ security_changed_handle \/ peer_disconnected_handle
           \/ cp_ind_cb \/ connected \/ nearby_separated_work_handle \/ UNCHANGED vars
  <2>1. UNCHANGED <<max_conn, max_conn_timer>> /\ UNCHANGED workq
    BY <1>5, Zenon DEF command_handle, pairing_cmd_handle, security_changed_handle,
       peer_disconnected_handle,
       cp_ind_cb, connected, nearby_separated_work_handle, vars, limitVars, queueVars
  <2>. QED  BY <2>1, LimitLeft
<1>6. CASE \/ pairing_cp_write \/ command_write \/ disconnected \/ security_changed
  <2>1. UNCHANGED limitVars /\ (UNCHANGED workq \/ \E evs : Post(evs))
    BY <1>6, ChunkWritten, Zenon DEF command_write, disconnected, security_changed
  <2>. QED  BY <2>1, LimitLeft DEF limitVars
<1>. QED
  BY <1>1, <1>2, <1>3, <1>4, <1>5, <1>6, Zenon DEF Next, WorkqueueStep, Peers

LEMMA HostStep ==
  ASSUME HostInv, [Next]_vars
  PROVE  HostInv' /\ UNCHANGED mtu
<1>1. CASE connected
  <2>1. PICK c \in Slots : link' = [link EXCEPT ![c] = peers + 1]
    BY <1>1 DEF connected
  <2>2. peers < MaxPeers /\ peers' = peers + 1 /\ UNCHANGED mtu
    BY <1>1 DEF connected
  <2>. QED  BY <2>1, <2>2, GattConstants DEF HostInv
<1>2. CASE disconnected
  <2>1. \E c \in Slots : link' = [link EXCEPT ![c] = 0]
    BY <1>2 DEF disconnected
  <2>2. UNCHANGED <<mtu, peers>>
    BY <1>2 DEF disconnected
  <2>. QED  BY <2>1, <2>2, GattConstants DEF HostInv
<1>3. CASE UNCHANGED <<link, mtu, peers>>
  BY <1>3 DEF HostInv
<1>4. ASSUME ~connected, ~disconnected PROVE UNCHANGED <<link, mtu, peers>>
  <2>1. CASE WorkqueueStep
    BY <2>1, Zenon DEF WorkqueueStep, command_handle, pairing_cmd_handle,
       max_connections_request_handle, max_conn_work_handle, security_changed_handle,
       peer_disconnected_handle, hostVars
  <2>2. CASE max_conn_timer_expires \/ cp_ind_cb \/ UNCHANGED vars
    BY <2>2, Zenon DEF max_conn_timer_expires, cp_ind_cb, vars, hostVars
  <2>3. CASE pairing_cp_write
    BY <2>3, ChunkWritten DEF hostVars
  <2>4. CASE command_write \/ security_changed \/ nearby_separated_work_handle
    BY <2>4, Zenon DEF command_write, security_changed, nearby_separated_work_handle, hostVars
  <2>. QED  BY <1>4, <2>1, <2>2, <2>3, <2>4, Zenon DEF Next, Peers
<1>. QED  BY <1>1, <1>2, <1>3, <1>4

(* The steps that give cp_indicate() a packet, all of them its peer's.      *)
IndicateStep ==
  \E pkt \in Packet :
    /\ cp_indicate(pkt)
    /\ \/ pkt.peer = link[pkt.conn]
       \/ \E id \in Commands : /\ Handling(id) /\ pkt.conn = Head(batch).conn
                               /\ pkt.peer = Head(batch).arg
       \/ /\ max_conn # NoMax
          /\ pkt.conn = max_conn.conn /\ pkt.peer = max_conn.peer

LEMMA IndicateSteps ==
  ASSUME HostInv, EventsInv, LimitInv,
         \/ command_handle \/ pairing_cmd_handle \/ max_connections_request_handle
           \/ max_conn_work_handle \/ command_write
  PROVE  UNCHANGED indVars \/ IndicateStep
<1>0. ASSUME NEW id \in Commands, Handling(id), NEW n \in {ResponseLen, DataLen},
             cp_indicate(Pkt(Head(batch).conn, Head(batch).arg, n))
      PROVE  IndicateStep
  <2>. DEFINE pkt == Pkt(Head(batch).conn, Head(batch).arg, n)
  <2>1. pkt \in Packet
    BY <1>0, CommandHandled
  <2>2. pkt.conn = Head(batch).conn /\ pkt.peer = Head(batch).arg
    BY DEF Pkt
  <2>. HIDE DEF pkt
  <2>. QED  BY <1>0, <2>1, <2>2, Zenon DEF IndicateStep, pkt
<1>1. CASE command_handle
  <2>1. \E id \in Commands, n \in {ResponseLen, DataLen} :
          Handling(id) /\ cp_indicate(Pkt(Head(batch).conn, Head(batch).arg, n))
    BY <1>1 DEF command_handle
  <2>. QED  BY <1>0, <2>1
<1>5. CASE pairing_cmd_handle
  <2>1. Handling("PAIRING") /\ "PAIRING" \in Commands
    BY <1>5 DEF pairing_cmd_handle, Commands
  <2>2. UNCHANGED indVars \/ cp_indicate(Pkt(Head(batch).conn, Head(batch).arg, DataLen))
    BY <1>5, Zenon DEF pairing_cmd_handle
  <2>. QED  BY <1>0, <2>1, <2>2
<1>2. CASE max_connections_request_handle
  <2>1. Handling("MAX_CONNECTIONS") /\ "MAX_CONNECTIONS" \in Commands
    BY <1>2 DEF max_connections_request_handle, Commands
  <2>2. UNCHANGED indVars \/ cp_indicate(Pkt(Head(batch).conn, Head(batch).arg, ResponseLen))
    BY <1>2, Zenon DEF max_connections_request_handle
  <2>. QED  BY <1>0, <2>1, <2>2
<1>3. CASE max_conn_work_handle
  <2>1. Queued(workq, "max_conn")
    <3>1. workq # <<>> /\ Head(workq) = "max_conn" /\ workq \in Seq(Names)
      BY <1>3 DEF max_conn_work_handle, Running, LimitInv, WorkqueueOK
    <3>2. 1 \in 1..Len(workq) /\ workq[1] = "max_conn"
      BY <3>1, EmptySeq, LenProperties
    <3>. QED  BY <3>2, Zenon DEF Queued
  <2>2. max_conn # NoMax /\ max_conn \in [conn : Slots, peer : 1..MaxPeers]
    BY <2>1, Zenon DEF LimitInv
  <2>. DEFINE pkt == Pkt(max_conn.conn, max_conn.peer, ResponseLen)
  <2>3. pkt \in Packet /\ pkt.conn = max_conn.conn /\ pkt.peer = max_conn.peer
    BY <2>2 DEF Pkt, Packet
  <2>4. UNCHANGED indVars \/ cp_indicate(pkt)
    BY <1>3, Zenon DEF max_conn_work_handle
  <2>. HIDE DEF pkt
  <2>. QED  BY <2>2, <2>3, <2>4, Zenon DEF IndicateStep
<1>4. CASE command_write
  <2>1. PICK c \in Slots :
          /\ link[c] # 0
          /\ UNCHANGED indVars \/ cp_indicate(Pkt(c, link[c], ResponseLen))
    BY <1>4, Zenon DEF command_write, MayWrite
  <2>. DEFINE pkt == Pkt(c, link[c], ResponseLen)
  <2>2. link[c] \in 1..MaxPeers
    BY <2>1, GattConstants DEF HostInv
  <2>3. pkt \in Packet /\ pkt.conn = c /\ pkt.peer = link[c]
    BY <2>2 DEF Pkt, Packet
  <2>4. UNCHANGED indVars \/ cp_indicate(pkt)
    BY <2>1
  <2>. HIDE DEF pkt
  <2>. QED  BY <2>3, <2>4, Zenon DEF IndicateStep
<1>. QED  BY <1>1, <1>2, <1>3, <1>4, <1>5

LEMMA IndStep ==
  ASSUME HostInv, IndInv, EventsInv, LimitInv, [Next]_vars
  PROVE  IndInv'
<1>0. UNCHANGED mtu
  BY HostStep
<1>1. ASSUME UNCHANGED indVars \/ IndicateStep
      PROVE  IndInv'
  BY <1>0, <1>1, IndLeft, Indicated DEF IndicateStep
<1>2. CASE \/ command_handle \/ pairing_cmd_handle \/ max_connections_request_handle
           \/ max_conn_work_handle \/ command_write
  BY <1>1, <1>2, IndicateSteps
<1>3. CASE cp_ind_cb
  <2>1. CASE /\ in_flight /\ ind.left > 0
             /\ ind' = chunk_prepare(ind)
             /\ in_flight' \in IF "send_fails" \in GattRaces THEN BOOLEAN ELSE {TRUE}
             /\ UNCHANGED fifo_ind_data
    <3>1. ind # NoInd /\ ChunkOK(ind) /\ ind \in IndFields
      BY <2>1, Zenon DEF IndInv
    <3>2. /\ chunk_prepare(ind) \in IndFields /\ ChunkOK(chunk_prepare(ind))
          /\ chunk_prepare(ind).conn = ind.conn
      <4>1. ind.left >= 1
        BY <2>1, <3>1 DEF ChunkOK
      <4>. QED  BY <3>1, <4>1, ChunkPrepared DEF ChunkOK, HostInv
    <3>3. ChunkOK(ind)' /\ ind' \in IndFields
      BY <1>0, <2>1, <3>2 DEF ChunkOK
    <3>4. ind' # NoInd
      BY <2>1, <3>1, <3>2, NoIndIdle DEF ChunkOK
    <3>5. in_flight' \in BOOLEAN /\ (Reliable => in_flight' = TRUE)
      BY <2>1, Zenon DEF Reliable
    <3>6. Reliable => BufferReleased'
      BY <3>4, <3>5, Zenon DEF BufferReleased
    <3>7. fifo_ind_data' \in Seq(Packet)
      BY <2>1 DEF IndInv
    <3>. QED  BY <3>3, <3>4, <3>5, <3>6, <3>7, Zenon DEF IndInv
  <2>2. CASE cp_ind_queue_process(link)
    BY <1>0, <2>2, ProcessedInd
  <2>. QED  BY <1>3, <2>1, <2>2, Zenon DEF cp_ind_cb
<1>4. CASE disconnected
  <2>1. cp_ind_queue_process(link') \/ UNCHANGED indVars
    BY <1>4, Zenon DEF disconnected
  <2>2. ASSUME NEW ls, cp_ind_queue_process(ls) PROVE IndInv'
    BY <1>0, <2>2, ProcessedInd
  <2>3. ASSUME cp_ind_queue_process(link') PROVE IndInv'
    BY <2>2, <2>3
  <2>. QED  BY <1>1, <2>1, <2>3
<1>5. CASE \/ security_changed_handle \/ peer_disconnected_handle \/ max_conn_timer_expires
           \/ pairing_cp_write \/ connected \/ security_changed
           \/ nearby_separated_work_handle
           \/ TakeEvents /\ UNCHANGED <<hostVars, limitVars, pairing_buf, indVars, histVars>>
           \/ UNCHANGED vars
  <2>1. UNCHANGED indVars
    BY <1>5, ChunkWritten, Zenon
       DEF security_changed_handle, peer_disconnected_handle, max_conn_timer_expires,
       connected, security_changed, nearby_separated_work_handle, vars
  <2>. QED  BY <1>1, <2>1
<1>. QED
  BY <1>2, <1>3, <1>4, <1>5, Zenon DEF Next, WorkqueueStep, Peers

GattInv == HostInv /\ EventsInv /\ LimitInv /\ IndInv

LEMMA GattInvariant == Spec => []GattInv
<1>1. Init => GattInv
  BY GattInitInd, GattInitEvents DEF GattInv
<1>2. GattInv /\ [Next]_vars => GattInv'
  BY HostStep, EventsStep, LimitStep, IndStep DEF GattInv
<1>. QED  BY <1>1, <1>2, PTL DEF Spec

(* If the host takes every chunk (without the race "send_fails"), the      *)
(* buffer is free exactly when no callback is owed, and nothing waits      *)
(* behind a free buffer (fmna_gatt_fmns.c: cp_ind_buf, fifo_ind_data).     *)
THEOREM BufferIsReleased ==
  ASSUME "send_fails" \notin GattRaces
  PROVE  Spec => []BufferReleased
<1>1. GattInv => BufferReleased
  BY DEF GattInv, IndInv, Reliable
<1>. QED  BY <1>1, GattInvariant, PTL

(* For every MTU above the header's byte and packet of any length, and      *)
(* under every race, no chunk exceeds the link or is empty and the chunks  *)
(* make up the packet (fmna_gatt_pkt_manager_chunk_prepare()).             *)
THEOREM ChunksAreWhole == Spec => []ChunksWhole
<1>1. GattInv => ChunksWhole
  BY DEF GattInv, IndInv, ChunksWhole, ChunkOK
<1>. QED  BY <1>1, GattInvariant, PTL

-----------------------------------------------------------------------------
(* Answers go to the peer that asked. *)

(* What is meant for peer p on connection object c: nobody else is there.   *)
Meant(c, p) == link[c] = 0 \/ link[c] = p

MeantEvents(q) ==
  \A i \in 1..Len(q) : q[i].id \in Commands => Meant(q[i].conn, q[i].arg)

MeantPackets ==
  \A i \in 1..Len(fifo_ind_data) : Meant(fifo_ind_data[i].conn, fifo_ind_data[i].peer)

(* IndicationToItsPeer of the indication under way, and the same of every   *)
(* answer on its way there: in an event, delayed or in the queue.           *)
PeerInv ==
  /\ IndicationToItsPeer
  /\ MeantPackets
  /\ MeantEvents(batch) /\ MeantEvents(events)
  /\ max_conn # NoMax => Meant(max_conn.conn, max_conn.peer)

LEMMA PeerInit == Init => PeerInv
BY DEF Init, PeerInv, IndicationToItsPeer, MeantPackets, MeantEvents

(* The answers under way and queued, after a step that leaves the links.    *)
LEMMA IndicatedMeant ==
  ASSUME GattInv, PeerInv, UNCHANGED <<link, mtu>>, NEW pkt \in Packet, cp_indicate(pkt),
         Meant(pkt.conn, pkt.peer)
  PROVE  (IndicationToItsPeer /\ MeantPackets)'
<1>0. fifo_ind_data \in Seq(Packet) /\ Len(fifo_ind_data) \in Nat
  BY LenProperties DEF GattInv, IndInv
<1>1. CASE ind # NoInd
  <2>1. fifo_ind_data' = Append(fifo_ind_data, pkt) /\ UNCHANGED <<ind, in_flight>>
    BY <1>1 DEF cp_indicate
  <2>2. /\ Len(fifo_ind_data') = Len(fifo_ind_data) + 1
        /\ \A i \in 1..Len(fifo_ind_data) : fifo_ind_data'[i] = fifo_ind_data[i]
        /\ fifo_ind_data'[Len(fifo_ind_data) + 1] = pkt
    BY <1>0, <2>1, AppendProperties
  <2>3. \A i \in 1..Len(fifo_ind_data') :
          i \in 1..Len(fifo_ind_data) \/ i = Len(fifo_ind_data) + 1
    BY <1>0, <2>2
  <2>4. MeantPackets'
    BY <2>2, <2>3 DEF PeerInv, MeantPackets, Meant
  <2>. QED  BY <2>1, <2>4 DEF PeerInv, IndicationToItsPeer
<1>2. CASE ind = NoInd /\ link[pkt.conn] = 0
  BY <1>2 DEF cp_indicate, PeerInv, IndicationToItsPeer, MeantPackets, Meant
<1>3. CASE ind = NoInd /\ link[pkt.conn] # 0
  <2>1. ind' = Started(pkt) /\ UNCHANGED fifo_ind_data
    BY <1>3 DEF cp_indicate
  <2>2. ind'.conn = pkt.conn /\ ind'.peer = pkt.peer
    BY <2>1, StartedChunk DEF GattInv, HostInv
  <2>. QED  BY <1>3, <2>1, <2>2 DEF PeerInv, IndicationToItsPeer, MeantPackets, Meant
<1>. QED  BY <1>1, <1>2, <1>3

(* The queue goes on to the links ls: who is there in ls, was there before. *)
LEMMA ProcessedMeant ==
  ASSUME GattInv, PeerInv, NEW ls, cp_ind_queue_process(ls), link' = ls,
         \A c \in Slots : ls[c] = link[c] \/ ls[c] = 0
  PROVE  (IndicationToItsPeer /\ MeantPackets)'
<1>0. fifo_ind_data \in Seq(Packet) /\ Len(fifo_ind_data) \in Nat
  BY LenProperties DEF GattInv, IndInv
<1>1. CASE ind' = NoInd /\ in_flight' = FALSE /\ fifo_ind_data' = <<>>
  BY <1>1 DEF IndicationToItsPeer, MeantPackets
<1>2. ASSUME NEW k \in 1..Len(fifo_ind_data),
             ls[fifo_ind_data[k].conn] # 0,
             ind' = Started(fifo_ind_data[k]),
             fifo_ind_data' = SubSeq(fifo_ind_data, k + 1, Len(fifo_ind_data))
      PROVE  (IndicationToItsPeer /\ MeantPackets)'
  <2>1. \A i \in 1..Len(fifo_ind_data) :
          fifo_ind_data[i] \in Packet /\ fifo_ind_data[i].conn \in Slots
    <3>1. \A i \in 1..Len(fifo_ind_data) : fifo_ind_data[i] \in Packet
      BY <1>0, ElementOfSeq
    <3>2. \A pkt \in Packet : pkt.conn \in Slots
      BY DEF Packet
    <3>. QED  BY <3>1, <3>2
  <2>2. ind'.conn = fifo_ind_data[k].conn /\ ind'.peer = fifo_ind_data[k].peer
    BY <1>2, <2>1, StartedChunk DEF GattInv, HostInv
  <2>3. \A i \in 1..Len(fifo_ind_data) :
          link'[fifo_ind_data[i].conn] = 0 \/ link'[fifo_ind_data[i].conn] = fifo_ind_data[i].peer
    BY <2>1 DEF PeerInv, MeantPackets, Meant
  <2>4. IndicationToItsPeer'
    BY <1>2, <2>2, <2>3 DEF IndicationToItsPeer
  <2>5. /\ Len(fifo_ind_data') = Len(fifo_ind_data) - k
        /\ \A i \in 1..(Len(fifo_ind_data) - k) : fifo_ind_data'[i] = fifo_ind_data[k + i]
    <3>1. \A i \in (k + 1)..Len(fifo_ind_data) : fifo_ind_data[i] \in Packet
      BY <1>0, <2>1
    <3>. QED  BY <1>0, <1>2, <3>1, SubSeqProperties
  <2>6. \A i \in 1..(Len(fifo_ind_data) - k) : k + i \in 1..Len(fifo_ind_data)
    BY <1>0
  <2>7. MeantPackets'
    BY <2>3, <2>5, <2>6 DEF MeantPackets, Meant
  <2>. QED  BY <2>4, <2>7
<1>. QED  BY <1>1, <1>2, QueueProcessed DEF GattInv

(* The events after a step that takes some or posts one of the peer there.  *)
LEMMA EventsMeant ==
  ASSUME EventsInv, MeantEvents(batch), MeantEvents(events),
         \A c \in Slots : link'[c] = link[c] \/ link'[c] = 0,
         \/ UNCHANGED batch
         \/ batch # <<>> /\ batch' = Tail(batch)
         \/ batch' = events,
         \/ UNCHANGED events
         \/ events' = <<>>
         \/ \E e \in GattEvent : /\ events' = events \o <<e>>
                                 /\ e.id \in Commands => Meant(e.conn, e.arg)
  PROVE  MeantEvents(batch)' /\ MeantEvents(events)'
<1>1. \A q \in Seq(GattEvent) : \A i \in 1..Len(q) : q[i].conn \in Slots
  <2>1. \A e \in GattEvent : e.conn \in Slots
    BY DEF GattEvent, CommandEvent, LinkEvent
  <2>. QED  BY <2>1, ElementOfSeq
<1>2. ASSUME NEW q \in Seq(GattEvent), MeantEvents(q), NEW i \in 1..Len(q),
             q[i].id \in Commands
      PROVE  link'[q[i].conn] = 0 \/ link'[q[i].conn] = q[i].arg
  BY <1>1, <1>2 DEF MeantEvents, Meant
<1>3. MeantEvents(batch)'
  <2>1. CASE UNCHANGED batch
    BY <1>2, <2>1 DEF EventsInv, MeantEvents, Meant
  <2>2. CASE batch # <<>> /\ batch' = Tail(batch)
    <3>1. /\ Len(batch') = Len(batch) - 1 /\ Len(batch) \in Nat
          /\ \A i \in 1..Len(batch') : batch'[i] = batch[i + 1]
      BY <2>2, HeadTailProperties, LenProperties DEF EventsInv
    <3>2. \A i \in 1..Len(batch') : i + 1 \in 1..Len(batch)
      BY <3>1
    <3>3. \A j \in 1..Len(batch) :
            batch[j].id \in Commands =>
              link'[batch[j].conn] = 0 \/ link'[batch[j].conn] = batch[j].arg
      BY <1>2 DEF EventsInv
    <3>4. \A i \in 1..Len(batch') :
            batch'[i].id \in Commands =>
              link'[batch'[i].conn] = 0 \/ link'[batch'[i].conn] = batch'[i].arg
      BY <3>1, <3>2, <3>3
    <3>. QED  BY <3>4 DEF MeantEvents, Meant
  <2>3. CASE batch' = events
    BY <1>2, <2>3 DEF EventsInv, MeantEvents, Meant
  <2>. QED  BY <2>1, <2>2, <2>3
<1>4. MeantEvents(events)'
  <2>1. CASE UNCHANGED events
    BY <1>2, <2>1 DEF EventsInv, MeantEvents, Meant
  <2>2. CASE events' = <<>>
    BY <2>2 DEF MeantEvents
  <2>3. ASSUME NEW e \in GattEvent, events' = events \o <<e>>,
               e.id \in Commands => Meant(e.conn, e.arg)
        PROVE  MeantEvents(events)'
    <3>1. /\ Len(events') = Len(events) + 1 /\ Len(events) \in Nat
          /\ \A i \in 1..Len(events) : events'[i] = events[i]
          /\ events'[Len(events) + 1] = e
      <4>1. <<e>> \in Seq(GattEvent) /\ Len(<<e>>) = 1 /\ <<e>>[1] = e
        OBVIOUS
      <4>2. Len(events) \in Nat
        BY LenProperties DEF EventsInv
      <4>3. /\ Len(events \o <<e>>) = Len(events) + Len(<<e>>)
            /\ \A i \in 1..(Len(events) + Len(<<e>>)) :
                 (events \o <<e>>)[i] =
                    IF i <= Len(events) THEN events[i] ELSE <<e>>[i - Len(events)]
        BY <4>1, ConcatProperties DEF EventsInv
      <4>. QED  BY <2>3, <4>1, <4>2, <4>3
    <3>2. \A i \in 1..Len(events') : i \in 1..Len(events) \/ i = Len(events) + 1
      BY <3>1
    <3>3. e.conn \in Slots
      BY DEF GattEvent, CommandEvent, LinkEvent
    <3>4. e.id \in Commands => link'[e.conn] = 0 \/ link'[e.conn] = e.arg
      BY <2>3, <3>3 DEF Meant
    <3>. QED  BY <1>2, <3>1, <3>2, <3>4 DEF EventsInv, MeantEvents, Meant
  <2>. QED  BY <2>1, <2>2, <2>3
<1>. QED  BY <1>3, <1>4

(* Unless a peer connects, links stay or end. *)
LEMMA LinksStayOrEnd ==
  ASSUME HostInv, [Next]_vars, ~connected
  PROVE  \A c \in Slots : link'[c] = link[c] \/ link'[c] = 0
<1>1. CASE disconnected
  <2>1. PICK d \in Slots : link' = [link EXCEPT ![d] = 0]
    BY <1>1 DEF disconnected
  <2>. QED  BY <2>1 DEF HostInv
<1>2. CASE UNCHANGED link
  BY <1>2
<1>3. ASSUME ~disconnected PROVE UNCHANGED link
  <2>1. CASE WorkqueueStep
    BY <2>1, Zenon DEF WorkqueueStep, command_handle, pairing_cmd_handle,
       max_connections_request_handle, max_conn_work_handle, security_changed_handle,
       peer_disconnected_handle, hostVars
  <2>2. CASE max_conn_timer_expires \/ cp_ind_cb \/ UNCHANGED vars
    BY <2>2, Zenon DEF max_conn_timer_expires, cp_ind_cb, vars, hostVars
  <2>3. CASE pairing_cp_write
    BY <2>3, ChunkWritten DEF hostVars
  <2>4. CASE command_write \/ security_changed \/ nearby_separated_work_handle
    BY <2>4, Zenon DEF command_write, security_changed, nearby_separated_work_handle, hostVars
  <2>. QED  BY <1>3, <2>1, <2>2, <2>3, <2>4, Zenon DEF Next, Peers
<1>. QED  BY <1>1, <1>2, <1>3

LEMMA PeerOfIndications ==
  ASSUME GattInv, PeerInv, [Next]_vars, ~connected
  PROVE  (IndicationToItsPeer /\ MeantPackets)'
<1>0. UNCHANGED mtu
  BY HostStep DEF GattInv
<1>1. ASSUME UNCHANGED <<indVars, link>> PROVE (IndicationToItsPeer /\ MeantPackets)'
  BY <1>1 DEF PeerInv, IndicationToItsPeer, MeantPackets, Meant, indVars
<1>2. CASE \/ command_handle \/ pairing_cmd_handle \/ max_connections_request_handle
           \/ max_conn_work_handle \/ command_write
  <2>0. UNCHANGED link
    BY <1>2, Zenon DEF command_handle, pairing_cmd_handle, max_connections_request_handle,
       max_conn_work_handle, command_write, hostVars
  <2>1. CASE IndicateStep
    <3>1. PICK pkt \in Packet :
            /\ cp_indicate(pkt)
            /\ \/ pkt.peer = link[pkt.conn]
               \/ \E id \in Commands : /\ Handling(id) /\ pkt.conn = Head(batch).conn
                                       /\ pkt.peer = Head(batch).arg
               \/ /\ max_conn # NoMax
                  /\ pkt.conn = max_conn.conn /\ pkt.peer = max_conn.peer
      BY <2>1 DEF IndicateStep
    <3>2. Meant(pkt.conn, pkt.peer)
      <4>1. CASE pkt.peer = link[pkt.conn]
        BY <4>1 DEF Meant
      <4>2. ASSUME NEW id \in Commands, Handling(id), pkt.conn = Head(batch).conn,
                   pkt.peer = Head(batch).arg
            PROVE  Meant(pkt.conn, pkt.peer)
        <5>1. batch # <<>> /\ batch \in Seq(GattEvent) /\ Head(batch).id \in Commands
          BY <4>2 DEF Handling, GattInv, EventsInv
        <5>2. 1 \in 1..Len(batch) /\ Head(batch) = batch[1]
          BY <5>1, EmptySeq, LenProperties
        <5>. QED  BY <4>2, <5>1, <5>2 DEF PeerInv, MeantEvents
      <4>3. CASE max_conn # NoMax /\ pkt.conn = max_conn.conn /\ pkt.peer = max_conn.peer
        BY <4>3 DEF PeerInv
      <4>. QED  BY <3>1, <4>1, <4>2, <4>3
    <3>. QED  BY <1>0, <2>0, <3>1, <3>2, IndicatedMeant
  <2>. QED  BY <1>1, <1>2, <2>0, <2>1, IndicateSteps DEF GattInv
<1>3. CASE cp_ind_cb
  <2>0. UNCHANGED link
    BY <1>3 DEF cp_ind_cb, hostVars
  <2>1. CASE /\ in_flight /\ ind.left > 0
             /\ ind' = chunk_prepare(ind) /\ UNCHANGED fifo_ind_data
    <3>1. ChunkOK(ind) /\ ind \in IndFields
      BY <2>1, Zenon DEF GattInv, IndInv
    <3>2. ind'.conn = ind.conn /\ ind'.peer = ind.peer
      <4>1. ind.left >= 1
        BY <2>1, <3>1 DEF ChunkOK
      <4>. QED  BY <2>1, <3>1, <4>1, ChunkPrepared DEF ChunkOK, GattInv, HostInv
    <3>. QED  BY <2>0, <2>1, <3>2 DEF PeerInv, IndicationToItsPeer, MeantPackets, Meant
  <2>2. CASE cp_ind_queue_process(link)
    BY <2>0, <2>2, ProcessedMeant
  <2>. QED  BY <1>3, <2>1, <2>2, Zenon DEF cp_ind_cb
<1>4. CASE disconnected
  <2>1. \A c \in Slots : link'[c] = link[c] \/ link'[c] = 0
    BY LinksStayOrEnd DEF GattInv
  <2>2. CASE cp_ind_queue_process(link')
    <3>1. ASSUME NEW ls, ls = link', cp_ind_queue_process(ls)
          PROVE  (IndicationToItsPeer /\ MeantPackets)'
      BY <2>1, <3>1, ProcessedMeant
    <3>. QED  BY <2>2, <3>1
  <2>3. CASE UNCHANGED indVars /\ ~cp_ind_queue_process(link')
    <3>1. PICK d \in Slots : /\ link' = [link EXCEPT ![d] = 0]
                             /\ ~(in_flight /\ ind.conn = d)
      BY <1>4, <2>3, Zenon DEF disconnected
    <3>2. in_flight => ind.conn \in Slots
      BY Zenon DEF GattInv, IndInv, ChunkOK
    <3>3. IndicationToItsPeer'
      BY <2>3, <3>1, <3>2 DEF PeerInv, IndicationToItsPeer, indVars, GattInv, HostInv
    <3>4. \A i \in 1..Len(fifo_ind_data) : fifo_ind_data[i].conn \in Slots
      <4>1. \A i \in 1..Len(fifo_ind_data) : fifo_ind_data[i] \in Packet
        BY ElementOfSeq DEF GattInv, IndInv
      <4>2. \A pkt \in Packet : pkt.conn \in Slots
        BY DEF Packet
      <4>. QED  BY <4>1, <4>2
    <3>5. MeantPackets'
      BY <2>1, <2>3, <3>4 DEF PeerInv, MeantPackets, Meant, indVars
    <3>. QED  BY <3>3, <3>5
  <2>. QED  BY <1>4, <2>2, <2>3, Zenon DEF disconnected
<1>5. CASE \/ security_changed_handle \/ peer_disconnected_handle \/ max_conn_timer_expires
           \/ pairing_cp_write \/ security_changed \/ nearby_separated_work_handle
           \/ TakeEvents /\ UNCHANGED <<hostVars, limitVars, pairing_buf, indVars, histVars>>
           \/ UNCHANGED vars
  <2>1. UNCHANGED <<indVars, link>>
    BY <1>5, ChunkWritten, Zenon
       DEF security_changed_handle, peer_disconnected_handle, max_conn_timer_expires,
       security_changed, nearby_separated_work_handle, vars, hostVars
  <2>. QED  BY <1>1, <2>1
<1>. QED
  BY <1>2, <1>3, <1>4, <1>5, Zenon DEF Next, WorkqueueStep, Peers

LEMMA PeerOfEvents ==
  ASSUME GattInv, PeerInv, [Next]_vars, ~connected
  PROVE  MeantEvents(batch)' /\ MeantEvents(events)'
<1>0. /\ \A c \in Slots : link'[c] = link[c] \/ link'[c] = 0
      /\ EventsInv /\ MeantEvents(batch) /\ MeantEvents(events)
  BY LinksStayOrEnd DEF GattInv, PeerInv
<1>. DEFINE Moved == \/ UNCHANGED batch
                     \/ batch # <<>> /\ batch' = Tail(batch)
                     \/ batch' = events
            Posted == \E e \in GattEvent : /\ events' = events \o <<e>>
                                           /\ e.id \in Commands => Meant(e.conn, e.arg)
<1>1. ASSUME Moved, UNCHANGED events \/ events' = <<>> \/ Posted
      PROVE  MeantEvents(batch)' /\ MeantEvents(events)'
  BY <1>0, <1>1, EventsMeant
<1>2. ASSUME NEW c \in Slots, NEW id \in Commands, link[c] # 0, Post(<<EvArg(id, c, link[c])>>)
      PROVE  Posted
  <2>1. EvArg(id, c, link[c]) \in GattEvent
    BY <1>2, PostedEvent DEF GattInv, GattEvent
  <2>2. events' = events \o <<EvArg(id, c, link[c])>>
    BY <1>2, PostedEvent DEF GattInv, Post
  <2>3. Meant(EvArg(id, c, link[c]).conn, EvArg(id, c, link[c]).arg)
    BY DEF EvArg, Meant
  <2>. QED  BY <2>1, <2>2, <2>3
<1>3. ASSUME NEW c \in Slots, NEW id \in {"PEER_DISCONNECTED", "PEER_SECURITY_CHANGED"},
             Post(<<Ev(id, c)>>)
      PROVE  Posted
  <2>1. Ev(id, c) \in GattEvent /\ Ev(id, c).id \notin Commands
    BY PostedEvent DEF GattInv, GattEvent, Ev, Commands
  <2>2. events' = events \o <<Ev(id, c)>>
    BY <1>3, PostedEvent DEF GattInv, Post
  <2>. QED  BY <2>1, <2>2
<1>. HIDE DEF Posted
<1>4. CASE TakeEvents
  BY <1>1, <1>4, Zenon DEF TakeEvents
<1>5. CASE command_handle \/ pairing_cmd_handle \/ max_connections_request_handle
           \/ security_changed_handle \/ peer_disconnected_handle
  BY <1>1, <1>5, Zenon
     DEF command_handle, pairing_cmd_handle, max_connections_request_handle,
     security_changed_handle, peer_disconnected_handle, Handling
<1>6. CASE max_conn_work_handle \/ max_conn_timer_expires \/ cp_ind_cb
           \/ nearby_separated_work_handle \/ UNCHANGED vars
  BY <1>1, <1>6, Zenon
     DEF max_conn_work_handle, Running, max_conn_timer_expires, cp_ind_cb,
     nearby_separated_work_handle, vars, queueVars
<1>7. CASE pairing_cp_write
  <2>1. UNCHANGED batch
    BY <1>7, ChunkWritten
  <2>2. UNCHANGED events \/ Posted
    BY <1>2, <1>7, ChunkWritten DEF Commands
  <2>. QED  BY <1>1, <2>1, <2>2
<1>8. CASE command_write
  <2>1. UNCHANGED batch
    BY <1>8, Zenon DEF command_write
  <2>2. \/ UNCHANGED events
        \/ \E c \in Slots, id \in Commands :
             link[c] # 0 /\ Post(<<EvArg(id, c, link[c])>>)
    BY <1>8, Zenon DEF command_write, MayWrite
  <2>3. UNCHANGED events \/ Posted
    BY <1>2, <2>2
  <2>. QED  BY <1>1, <2>1, <2>3
<1>9. CASE disconnected \/ security_changed
  <2>1. UNCHANGED batch
    BY <1>9, Zenon DEF disconnected, security_changed
  <2>2. \E c \in Slots, id \in {"PEER_DISCONNECTED", "PEER_SECURITY_CHANGED"} :
          Post(<<Ev(id, c)>>)
    BY <1>9, Zenon DEF disconnected, security_changed
  <2>. QED  BY <1>1, <1>3, <2>1, <2>2
<1>. QED
  BY <1>4, <1>5, <1>6, <1>7, <1>8, <1>9, Zenon DEF Next, WorkqueueStep, Peers

LEMMA PeerOfLimit ==
  ASSUME GattInv, PeerInv, [Next]_vars, ~connected, max_conn' # NoMax
  PROVE  Meant(max_conn.conn, max_conn.peer)'
<1>0. \A c \in Slots : link'[c] = link[c] \/ link'[c] = 0
  BY LinksStayOrEnd DEF GattInv
<1>1. CASE UNCHANGED max_conn
  <2>1. max_conn.conn \in Slots /\ Meant(max_conn.conn, max_conn.peer)
    BY <1>1 DEF GattInv, LimitInv, PeerInv
  <2>. QED  BY <1>0, <1>1, <2>1 DEF Meant
<1>2. CASE max_connections_request_handle
  <2>1. UNCHANGED max_conn \/ max_conn' = [conn |-> Head(batch).conn, peer |-> Head(batch).arg]
    BY <1>2, Zenon DEF max_connections_request_handle
  <2>2. "MAX_CONNECTIONS" \in Commands /\ Handling("MAX_CONNECTIONS")
    BY <1>2 DEF max_connections_request_handle, Commands
  <2>3. Head(batch) \in CommandEvent
    BY <2>2, CommandHandled DEF GattInv
  <2>4. batch # <<>> /\ batch \in Seq(GattEvent)
    BY <2>2 DEF Handling, GattInv, EventsInv
  <2>5. 1 \in 1..Len(batch) /\ Head(batch) = batch[1]
    BY <2>4, EmptySeq, LenProperties
  <2>6. Head(batch).id \in Commands /\ Head(batch).conn \in Slots
    BY <2>3 DEF CommandEvent
  <2>7. Meant(Head(batch).conn, Head(batch).arg)
    BY <2>5, <2>6 DEF PeerInv, MeantEvents
  <2>. QED  BY <1>0, <1>1, <2>1, <2>6, <2>7 DEF Meant
<1>3. CASE max_conn_work_handle
  BY <1>1, <1>3, Zenon DEF max_conn_work_handle, MaxConnAnswered
<1>4. ASSUME ~max_connections_request_handle, ~max_conn_work_handle
      PROVE  UNCHANGED max_conn
  <2>1. CASE WorkqueueStep
    BY <1>4, <2>1, Zenon DEF WorkqueueStep, command_handle, pairing_cmd_handle,
       security_changed_handle,
       peer_disconnected_handle, limitVars
  <2>2. CASE max_conn_timer_expires \/ cp_ind_cb \/ UNCHANGED vars
    BY <2>2, Zenon DEF max_conn_timer_expires, cp_ind_cb, vars, limitVars
  <2>3. CASE pairing_cp_write
    BY <2>3, ChunkWritten DEF limitVars
  <2>4. CASE command_write \/ disconnected \/ security_changed \/ nearby_separated_work_handle
    BY <2>4, Zenon DEF command_write, disconnected, security_changed,
       nearby_separated_work_handle, limitVars
  <2>. QED  BY <2>1, <2>2, <2>3, <2>4, Zenon DEF Next, Peers
<1>. QED  BY <1>1, <1>2, <1>3, <1>4

(* A peer takes a connection object nothing is meant for any more. *)
LEMMA PeerConnects ==
  ASSUME GattInv, PeerInv, "slot_reuse" \notin GattRaces, connected
  PROVE  PeerInv'
<1>1. PICK c \in Slots : /\ link[c] = 0 /\ ~Waiting(c)
                         /\ link' = [link EXCEPT ![c] = peers + 1]
  BY DEF connected
<1>2. UNCHANGED <<queueVars, limitVars, indVars>>
  BY DEF connected
<1>3. \A d \in Slots : d # c => link'[d] = link[d]
  BY <1>1 DEF GattInv, HostInv
<1>4. fifo_ind_data \in Seq(Packet) /\ batch \in Seq(GattEvent) /\ events \in Seq(GattEvent)
  BY DEF GattInv, IndInv, EventsInv
<1>5. ASSUME NEW q \in Seq(GattEvent), MeantEvents(q),
             \A id \in Commands : \A i \in 1..Len(q) : ~(q[i].id = id /\ q[i].conn = c)
      PROVE  \A i \in 1..Len(q) :
               q[i].id \in Commands => link'[q[i].conn] = 0 \/ link'[q[i].conn] = q[i].arg
  <2>1. \A i \in 1..Len(q) : q[i].conn \in Slots
    <3>1. \A e \in GattEvent : e.conn \in Slots
      BY DEF GattEvent, CommandEvent, LinkEvent
    <3>. QED  BY <3>1, ElementOfSeq
  <2>. QED  BY <1>3, <1>5, <2>1 DEF MeantEvents, Meant
<1>6. \A id \in Commands : ~Pending(id, c)
  BY <1>1 DEF Waiting
<1>7. MeantEvents(batch)' /\ MeantEvents(events)'
  <2>1. MeantEvents(batch) /\ MeantEvents(events)
    BY DEF PeerInv
  <2>2. \A i \in 1..Len(batch) : batch[i].id \in Commands =>
          link'[batch[i].conn] = 0 \/ link'[batch[i].conn] = batch[i].arg
    BY <1>4, <1>5, <1>6, <2>1 DEF Pending
  <2>3. \A i \in 1..Len(events) : events[i].id \in Commands =>
          link'[events[i].conn] = 0 \/ link'[events[i].conn] = events[i].arg
    BY <1>4, <1>5, <1>6, <2>1 DEF Pending
  <2>. QED  BY <1>2, <2>2, <2>3 DEF MeantEvents, Meant, queueVars
<1>8. MeantPackets'
  <2>1. \A i \in 1..Len(fifo_ind_data) : fifo_ind_data[i].conn \in Slots
    <3>1. \A i \in 1..Len(fifo_ind_data) : fifo_ind_data[i] \in Packet
      BY <1>4, ElementOfSeq
    <3>2. \A pkt \in Packet : pkt.conn \in Slots
      BY DEF Packet
    <3>. QED  BY <3>1, <3>2
  <2>2. DOMAIN fifo_ind_data = 1..Len(fifo_ind_data)
    BY <1>4, LenProperties
  <2>3. \A i \in 1..Len(fifo_ind_data) : fifo_ind_data[i].conn # c
    BY <1>1, <2>2 DEF Waiting
  <2>. QED  BY <1>2, <1>3, <2>1, <2>3 DEF PeerInv, MeantPackets, Meant, indVars
<1>9. IndicationToItsPeer'
  <2>1. in_flight => ind.conn \in Slots /\ ind.peer \in 1..MaxPeers
    BY Zenon DEF GattInv, IndInv, ChunkOK
  <2>2. in_flight => ind.conn # c
    BY <1>1, <2>1, GattConstants DEF PeerInv, IndicationToItsPeer
  <2>. QED  BY <1>2, <1>3, <2>1, <2>2 DEF PeerInv, IndicationToItsPeer, indVars
<1>10. max_conn' # NoMax => Meant(max_conn.conn, max_conn.peer)'
  <2>1. max_conn # NoMax => max_conn.conn \in Slots /\ Meant(max_conn.conn, max_conn.peer)
    BY DEF GattInv, LimitInv, PeerInv
  <2>2. max_conn.conn # c
    BY <1>1 DEF Waiting
  <2>. QED  BY <1>2, <1>3, <2>1, <2>2 DEF Meant, limitVars
<1>. QED  BY <1>7, <1>8, <1>9, <1>10 DEF PeerInv

(* If no peer takes the connection object of one that left while answers to *)
(* that one wait (without the race "slot_reuse"), every indication goes to *)
(* the peer whose command it answers: events, max_conn_work and             *)
(* fifo_ind_data hold bare connection pointers (fmna_gatt_fmns.c).         *)
THEOREM AnswersReachTheirPeer ==
  ASSUME "slot_reuse" \notin GattRaces
  PROVE  Spec => []IndicationToItsPeer
<1>1. Init => PeerInv
  BY PeerInit
<1>2. GattInv /\ PeerInv /\ [Next]_vars => PeerInv'
  <2>. SUFFICES ASSUME GattInv, PeerInv, [Next]_vars PROVE PeerInv'
    OBVIOUS
  <2>1. CASE connected
    BY <2>1, PeerConnects
  <2>2. CASE ~connected
    BY <2>2, PeerOfIndications, PeerOfEvents, PeerOfLimit, Zenon DEF PeerInv
  <2>. QED  BY <2>1, <2>2
<1>3. PeerInv => IndicationToItsPeer
  BY DEF PeerInv
<1>. QED  BY <1>1, <1>2, <1>3, GattInvariant, PTL DEF Spec

=============================================================================
