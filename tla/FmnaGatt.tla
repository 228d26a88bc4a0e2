------------------------------ MODULE FmnaGatt -------------------------------
(***************************************************************************)
(* fmna_gatt_fmns.c and fmna_gatt_pkt_manager.c: the control points of the *)
(* Find My Network Service.  Writes arrive in chunks and become events;    *)
(* answers leave as indications, cut into chunks, of which one is under    *)
(* way at a time: cp_ind_buf holds it until its last chunk is confirmed,   *)
(* the others wait in fifo_ind_data.  The answer to Set Max Connections is *)
(* delayed by fmna_conn.c.                                                 *)
(*                                                                         *)
(* Peers subscribe to the indications before they write.  A packet is its  *)
(* length and the peer it is meant for.                                    *)
(***************************************************************************)
EXTENDS FmnaEvents, FiniteSets

CONSTANTS
  Mtus,          \* Lengths an indication may have on a link (ATT MTU - 3)
  ResponseLen,   \* Length of a command response, opcode included
  DataLen,       \* Length of pairing data, a key or a serial number
  PairingChunks, \* What fills the buffer of the pairing control point, in units
                 \*   that hold an opcode
  GattRaces,     \* "slot_reuse": a peer takes the connection object of one that
                 \*   left while answers to that one wait;
                 \* "second_limit": Set Max Connections while an answer is delayed;
                 \* "send_fails": the host refuses a later chunk
  MaxPeers,      \* Bound: peers that connect
  MaxCommands    \* Bound: commands written

ASSUME GattAssumption ==
  /\ Mtus \subseteq Nat \ {0, 1} /\ Mtus # {}
  /\ ResponseLen \in Nat \ {0} /\ DataLen \in Nat \ {0}
  /\ PairingChunks \in Nat \ {0}
  /\ GattRaces \subseteq {"slot_reuse", "second_limit", "send_fails"}
  /\ MaxPeers \in Nat /\ MaxCommands \in Nat

VARIABLES
  state,              \* fmna_state.c
  link, mtu,          \* The peer on a connection object (0: none), its MTU
  conns,              \* fmna_conn.c: the records
  peers, written,     \* History: peers so far, commands so far
  asked,              \* History: commands of the peer on c not answered yet
  pairing_buf,        \* The pairing packet so far, by the peer that wrote each unit
  ind, in_flight,     \* cp_ind_buf; the host owes its callback
  fifo_ind_data,
  max_connections,
  max_conn,           \* max_conn_work.conn, with the peer that asked
  disconnecting_conns,
  max_conn_timer      \* max_conn_work scheduled

hostVars == <<state, link, mtu, conns, peers>>
limitVars == <<max_connections, max_conn, disconnecting_conns, max_conn_timer>>
indVars  == <<ind, in_flight, fifo_ind_data>>
histVars == <<written, asked>>
vars == <<queueVars, hostVars, limitVars, pairing_buf, indVars, histVars>>

Packet == [conn : Slots, peer : 1..MaxPeers, len : {ResponseLen, DataLen}]
Pkt(c, p, n) == [conn |-> c, peer |-> p, len |-> n]
NoInd  == [conn |-> NULL, peer |-> 0, len |-> 0, sent |-> 0, chunk |-> 0, left |-> 0]
NoMax  == [conn |-> NULL, peer |-> 0]
NoConn == [valid |-> FALSE, owner |-> FALSE]

Commands == {"PAIRING", "CONFIG", "MAX_CONNECTIONS", "NON_OWNER", "OWNER"}

TypeOK ==
  /\ state \in {"UNPAIRED", "CONNECTED", "NEARBY", "SEPARATED"}
  /\ link \in [Slots -> 0..MaxPeers] /\ mtu \in [Slots -> Mtus]
  /\ conns \in [Slots -> [valid : BOOLEAN, owner : BOOLEAN]]
  /\ peers \in 0..MaxPeers /\ written \in 0..MaxCommands
  /\ asked \in [Slots -> 0..MaxCommands]
  /\ pairing_buf \in Seq(1..MaxPeers) /\ Len(pairing_buf) <= PairingChunks
  /\ ind = NoInd \/ [conn |-> ind.conn, peer |-> ind.peer, len |-> ind.len] \in Packet
  /\ in_flight \in BOOLEAN
  /\ fifo_ind_data \in Seq(Packet)
  /\ max_connections \in 1..BT_MAX_CONN
  /\ max_conn.conn \in Conns
  /\ disconnecting_conns \subseteq Slots
  /\ max_conn_timer \in BOOLEAN

Init ==
  /\ workq = <<>> /\ batch = <<>> /\ events = <<>>
  /\ state \in {"UNPAIRED", "SEPARATED"}
  /\ link = [c \in Slots |-> 0] /\ mtu \in [Slots -> Mtus]
  /\ conns = [c \in Slots |-> NoConn] /\ peers = 0 /\ written = 0
  /\ asked = [c \in Slots |-> 0]
  /\ pairing_buf = <<>>
  /\ ind = NoInd /\ in_flight = FALSE /\ fifo_ind_data = <<>>
  /\ max_connections = BT_MAX_CONN /\ max_conn = NoMax /\ disconnecting_conns = {}
  /\ max_conn_timer = FALSE

-----------------------------------------------------------------------------
(* Chunks (fmna_gatt_pkt_manager.c): one byte of each is the header. *)

last_if_equal(max, len) == max >= len  \* mutant
IsLast(max, len)  == max > len
header_forgotten(max, len) == IF IsLast(max, len) THEN len ELSE max  \* mutant
Payload(max, len) == IF IsLast(max, len) THEN len ELSE max - 1

(* fmna_gatt_pkt_manager_chunk_prepare() of a packet with "left" to send. *)
chunk_prepare(i) ==
  LET n == Payload(mtu[i.conn], i.left) IN
  [i EXCEPT !.sent = @ + i.chunk, !.chunk = n, !.left = @ - n]

Started(pkt) ==
  chunk_prepare([NoInd EXCEPT !.conn = pkt.conn, !.peer = pkt.peer, !.len = pkt.len,
                              !.left = pkt.len])

-----------------------------------------------------------------------------
(* Indications. *)

(* cp_indicate(): to a link that is gone it fails. *)
cp_indicate(pkt) ==
  IF ind # NoInd
  THEN fifo_ind_data' = Append(fifo_ind_data, pkt) /\ UNCHANGED <<ind, in_flight>>
  ELSE /\ UNCHANGED fifo_ind_data
       /\ IF link[pkt.conn] = 0 THEN UNCHANGED <<ind, in_flight>>
          ELSE ind' = Started(pkt) /\ in_flight' = TRUE

all_packets(ls) == DOMAIN fifo_ind_data  \* mutant
Sendable(ls) == {i \in DOMAIN fifo_ind_data : ls[fifo_ind_data[i].conn] # 0}

queue_left(ls) ==  \* mutant
  ind' = NoInd /\ in_flight' = FALSE /\ UNCHANGED fifo_ind_data

(* cp_ind_queue_process(), ls being the links: packets whose link is gone   *)
(* are dropped, up to the first that can be sent.                          *)
cp_ind_queue_process(ls) ==
  IF Sendable(ls) = {}
  THEN ind' = NoInd /\ in_flight' = FALSE /\ fifo_ind_data' = <<>>
  ELSE LET k == CHOOSE k \in Sendable(ls) : \A i \in Sendable(ls) : k <= i IN
       /\ ind' = Started(fifo_ind_data[k]) /\ in_flight' = TRUE
       /\ fifo_ind_data' = SubSeq(fifo_ind_data, k + 1, Len(fifo_ind_data))

(* The peer confirms a chunk: cp_ind_cb(). *)
cp_ind_cb ==
  /\ in_flight
  /\ \/ /\ ind.left > 0
        /\ ind' = chunk_prepare(ind)
        /\ in_flight' \in IF "send_fails" \in GattRaces THEN BOOLEAN ELSE {TRUE}
        /\ UNCHANGED <<fifo_ind_data, asked>>
     \/ /\ ind.left = 0
        /\ cp_ind_queue_process(link)
        /\ asked' = [asked EXCEPT ![ind.conn] = @ - 1]
  /\ UNCHANGED <<queueVars, hostVars, limitVars, pairing_buf, written>>

-----------------------------------------------------------------------------
(* The control points (context of the Bluetooth host). *)

MayWrite(c) == link[c] # 0 /\ written < MaxCommands

Counted(c) ==
  /\ written' = written + 1
  /\ asked' = [asked EXCEPT ![c] = @ + 1]

(* pairing_cp_write(): no encryption is asked for, so any peer may write,   *)
(* and all of them fill the one static buffer.  A chunk that does not fit   *)
(* is refused (chunk_collect()) and the buffer stays as it is; the final    *)
(* one empties it, and passes the packet on if its opcode is known.         *)
pairing_cp_write ==
  \E c \in Slots, n \in 0..PairingChunks, final \in BOOLEAN :
    LET packet == pairing_buf \o [i \in 1..n |-> link[c]] IN
    /\ MayWrite(c) /\ state = "UNPAIRED"
    /\ final => packet # <<>>
    /\ \/ /\ Len(packet) > PairingChunks
          /\ UNCHANGED <<pairing_buf, workq, events, histVars>>
       \/ /\ Len(packet) <= PairingChunks /\ ~final
          /\ pairing_buf' = packet
          /\ UNCHANGED <<workq, events, histVars>>
       \/ /\ Len(packet) <= PairingChunks /\ final
          /\ pairing_buf' = <<>>
          /\ \/ Post(<<EvArg("PAIRING", c, link[c])>>) /\ Counted(c)
             \/ UNCHANGED <<workq, events, histVars>>
    /\ UNCHANGED <<batch, hostVars, limitVars, indVars>>

(* Which commands their control point passes on; the others are refused    *)
(* with a response at once.                                                *)
Accepted(id, c) ==
  CASE id \in {"CONFIG", "MAX_CONNECTIONS"} -> conns[c].owner
    [] id = "NON_OWNER"                     -> state = "SEPARATED"
    [] id = "OWNER"                         -> state \notin {"NEARBY", "UNPAIRED"}

(* config_cp_write(), non_owner_cp_write() and owner_cp_write(). *)
command_write ==
  \E c \in Slots, id \in Commands \ {"PAIRING"} :
    /\ MayWrite(c)
    /\ id = "MAX_CONNECTIONS" /\ "second_limit" \notin GattRaces =>
         max_conn = NoMax /\ \A d \in Slots : ~Pending(id, d)
    /\ \/ /\ Accepted(id, c)
          /\ Post(<<EvArg(id, c, link[c])>>)
          /\ UNCHANGED indVars
       \/ /\ ~Accepted(id, c)
          /\ cp_indicate(Pkt(c, link[c], ResponseLen))
          /\ UNCHANGED <<workq, events>>
    /\ Counted(c)
    /\ UNCHANGED <<batch, hostVars, limitVars, pairing_buf>>

-----------------------------------------------------------------------------
(* Handlers (system workqueue). *)

(* The listener of the command answers it, with a response or with data.   *)
command_handle ==
  \E id \in Commands \ {"PAIRING", "MAX_CONNECTIONS"} :
    LET e == Head(batch) IN
    /\ Handling(id)
    /\ cp_indicate(Pkt(e.conn, e.arg, IF id = "OWNER" THEN DataLen ELSE ResponseLen))
    /\ UNCHANGED <<workq, events, hostVars, limitVars, pairing_buf, histVars>>

(* fmna_pair.c: Initiate and Finalize are answered with data, Complete has  *)
(* no answer and makes the peer an owner.  A peer that is not the one       *)
(* pairing, or whose data are refused, is asked to leave instead.           *)
pairing_cmd_handle ==
  LET e == Head(batch) IN
  /\ Handling("PAIRING")
  /\ \/ /\ state = "UNPAIRED"
        /\ cp_indicate(Pkt(e.conn, e.arg, DataLen))
        /\ UNCHANGED <<state, conns, asked>>
     \/ /\ asked' = IF link[e.conn] = e.arg THEN [asked EXCEPT ![e.conn] = @ - 1] ELSE asked
        /\ \/ UNCHANGED <<state, conns>>
           \/ /\ state = "UNPAIRED"
              /\ state' = "CONNECTED"
              /\ conns' = [conns EXCEPT ![e.conn].owner = conns[e.conn].valid]
        /\ UNCHANGED indVars
  /\ UNCHANGED <<workq, events, link, mtu, peers, limitVars, pairing_buf, written>>

(* max_connections_request_handle() (fmna_conn.c).  The links in excess are *)
(* asked to end; the list of them is cleared after it has been filled.     *)
max_connections_request_handle ==
  LET e      == Head(batch)
      others == {d \in Slots : link[d] # 0} \ {e.conn}
  IN
  /\ Handling("MAX_CONNECTIONS")
  /\ \E n \in 1..BT_MAX_CONN :
       LET excess == Cardinality({d \in Slots : link[d] # 0}) - n IN
       /\ max_connections' = n
       /\ \/ /\ excess > 0
             /\ UNCHANGED indVars
             /\ \/ /\ max_conn = NoMax
                   /\ max_conn' = [conn |-> e.conn, peer |-> e.arg]
                   /\ disconnecting_conns' = {}
                   /\ max_conn_timer' = TRUE
                \/ /\ max_conn # NoMax
                   /\ \E es \in SUBSET others :
                        /\ Cardinality(es) = (IF excess <= Cardinality(others)
                                              THEN excess ELSE Cardinality(others))
                        /\ disconnecting_conns' = disconnecting_conns \cup es
                   /\ UNCHANGED <<max_conn, max_conn_timer>>
          \/ /\ excess <= 0
             /\ cp_indicate(Pkt(e.conn, e.arg, ResponseLen))
             /\ UNCHANGED <<max_conn, disconnecting_conns, max_conn_timer>>
  /\ UNCHANGED <<workq, events, hostVars, pairing_buf, histVars>>

max_conn_timer_expires ==
  /\ max_conn_timer
  /\ max_conn_timer' = FALSE
  /\ workq' = Submitted(workq, "max_conn")
  /\ UNCHANGED <<batch, events, hostVars, max_connections, max_conn, disconnecting_conns,
                 pairing_buf, indVars, histVars>>

conn_not_cleared == max_conn  \* mutant
MaxConnAnswered  == NoMax

max_conn_work_handle ==
  /\ Running("max_conn")
  /\ workq' = Tail(workq)
  /\ \/ /\ \A d \in disconnecting_conns : ~conns[d].valid
        /\ cp_indicate(Pkt(max_conn.conn, max_conn.peer, ResponseLen))
        /\ max_conn' = MaxConnAnswered
        /\ UNCHANGED max_conn_timer
     \/ /\ \E d \in disconnecting_conns : conns[d].valid
        /\ max_conn_timer' = TRUE
        /\ UNCHANGED <<max_conn, indVars>>
  /\ UNCHANGED <<events, hostVars, max_connections, disconnecting_conns, pairing_buf, histVars>>

security_changed_handle ==
  LET c == Head(batch).conn IN
  /\ Handling("PEER_SECURITY_CHANGED")
  /\ conns' = [conns EXCEPT ![c].owner = conns[c].valid]
  /\ state' = IF conns[c].valid THEN "CONNECTED" ELSE state
  /\ UNCHANGED <<workq, events, link, mtu, peers, limitVars, pairing_buf, indVars, histVars>>

peer_disconnected_handle ==
  LET c == Head(batch).conn IN
  /\ Handling("PEER_DISCONNECTED")
  /\ conns' = [conns EXCEPT ![c] = NoConn]
  /\ state' = IF state = "CONNECTED" /\ \A d \in Slots \ {c} : ~conns[d].owner
              THEN "NEARBY" ELSE state
  /\ UNCHANGED <<workq, events, link, mtu, peers, limitVars, pairing_buf, indVars, histVars>>

-----------------------------------------------------------------------------
(* The links. *)

Waiting(c) ==  \* something is still meant for the last peer on c
  \/ \E i \in DOMAIN fifo_ind_data : fifo_ind_data[i].conn = c
  \/ \E id \in Commands : Pending(id, c)
  \/ max_conn.conn = c

connected ==
  \E c \in Slots :
    /\ link[c] = 0 /\ ~conns[c].valid /\ peers < MaxPeers
    /\ Cardinality({d \in Slots : link[d] # 0}) < max_connections
    /\ "slot_reuse" \in GattRaces \/ ~Waiting(c)
    /\ peers' = peers + 1
    /\ link' = [link EXCEPT ![c] = peers + 1]
    /\ conns' = [conns EXCEPT ![c] = [valid |-> TRUE, owner |-> FALSE]]
    /\ UNCHANGED <<queueVars, state, mtu, limitVars, pairing_buf, indVars, histVars>>

(* An indication under way to the peer is called back before disconnected(). *)
disconnected ==
  \E c \in Slots :
    /\ link[c] # 0
    /\ link' = [link EXCEPT ![c] = 0]
    /\ IF in_flight /\ ind.conn = c THEN cp_ind_queue_process(link')
       ELSE UNCHANGED indVars
    /\ asked' = [asked EXCEPT ![c] = 0]
    /\ Post(<<Ev("PEER_DISCONNECTED", c)>>)
    /\ UNCHANGED <<batch, state, mtu, conns, peers, limitVars, pairing_buf, written>>

security_changed ==
  \E c \in Slots :
    /\ link[c] # 0 /\ ~conns[c].owner /\ state # "UNPAIRED"
    /\ ~Pending("PEER_SECURITY_CHANGED", c)
    /\ Post(<<Ev("PEER_SECURITY_CHANGED", c)>>)
    /\ UNCHANGED <<batch, hostVars, limitVars, pairing_buf, indVars, histVars>>

nearby_separated_work_handle ==
  /\ Between /\ state = "NEARBY"
  /\ state' = "SEPARATED"
  /\ UNCHANGED <<queueVars, link, mtu, conns, peers, limitVars, pairing_buf, indVars, histVars>>

-----------------------------------------------------------------------------
(* The system. *)

WorkqueueStep ==
  \/ TakeEvents /\ UNCHANGED <<hostVars, limitVars, pairing_buf, indVars, histVars>>
  \/ command_handle \/ pairing_cmd_handle \/ max_connections_request_handle \/ max_conn_work_handle
  \/ security_changed_handle \/ peer_disconnected_handle

Peers ==
  \/ pairing_cp_write \/ command_write
  \/ connected \/ disconnected \/ security_changed \/ nearby_separated_work_handle

Next == WorkqueueStep \/ max_conn_timer_expires \/ cp_ind_cb \/ Peers

Spec == Init /\ [][Next]_vars

-----------------------------------------------------------------------------
(* Safety. *)

(* The buffer is held only by an indication the host will call back for,   *)
(* and nothing waits in the queue behind a free buffer.                    *)
BufferReleased ==
  /\ ind # NoInd <=> in_flight
  /\ ind = NoInd => fifo_ind_data = <<>>

(* A chunk fits the link, is never empty, and the chunks up to the one     *)
(* marked final make up the packet.                                        *)
ChunksWhole ==
  in_flight =>
    /\ ind.chunk >= 1 /\ ind.chunk + 1 <= mtu[ind.conn]
    /\ ind.sent + ind.chunk + ind.left = ind.len

(* An answer goes to the peer whose command it answers. *)
IndicationToItsPeer == in_flight => link[ind.conn] = ind.peer

(* Every command of a peer that stays has exactly one answer ahead of it:  *)
(* in an event, delayed, queued or under way.                              *)
AnsweredOnce ==
  \A c \in Slots :
    link[c] # 0 =>
      asked[c] =
          Cardinality({i \in DOMAIN batch : batch[i].conn = c /\ batch[i].id \in Commands})
        + Cardinality({i \in DOMAIN events : events[i].conn = c /\ events[i].id \in Commands})
        + Cardinality({i \in DOMAIN fifo_ind_data : fifo_ind_data[i].conn = c})
        + (IF ind.conn = c THEN 1 ELSE 0) + (IF max_conn.conn = c THEN 1 ELSE 0)

(* The packet that is passed on as a peer's is what this peer wrote: a peer *)
(* that is not the one pairing is rejected ("rejecting simultaneous pairing *)
(* attempt", fmna_pair.c:557), so what it writes has no part in a pairing.  *)
PairingPacketOfPeer ==
  [][\A c \in Slots :
       events' = events \o <<EvArg("PAIRING", c, link[c])>> =>
         \A i \in DOMAIN pairing_buf : pairing_buf[i] = link[c]]_vars

=============================================================================
