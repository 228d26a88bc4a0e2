------------------------------ MODULE FmnaConn ------------------------------
(***************************************************************************)
(* Connections: the Bluetooth host as the stack uses it (links, connection *)
(* objects and their references, the advertising set) and fmna_conn.c (the *)
(* connection records, the security timeouts, the connection limit).       *)
(***************************************************************************)
EXTENDS FmnaEvents, FiniteSets

CONSTANTS
  FMNA_MAX_CONN, \* CONFIG_FMNA_MAX_CONN.
  Races          \* The interleavings a behaviour may contain, see AllRaces.

AllRaces ==
  {"early_reuse", "fast_leave", "late_nearby", "busy_disable", "early_enable",
   "closing_disable", "hasty_complete"}

ASSUME LimitAssumption ==
  /\ FMNA_MAX_CONN \in 2..BT_MAX_CONN
  /\ Races \subseteq AllRaces

VARIABLES
  \* Bluetooth host (external)
  connected,        \* Links in BT_CONN_STATE_CONNECTED.
  closing,          \* Links being disconnected, callback still to come.
  encrypted,        \* Links with security level 2 or more.
  le_keys,          \* conn->le.keys: none, the Find My LTK, or BT pairing keys.
  refs,             \* References the stack holds on each connection object.
  adv,              \* Advertising on air and the connection object it reserves.
  \* fmna_conn.c
  is_valid, is_disconnecting, \* conns[].is_valid, conns[].is_disconnecting
  owner,            \* conns[].multi_status, OWNER_CONNECTED bit
  persistent,       \* conns[].multi_status, PERSISTENT_CONNECTION bit
  conn_timeout,     \* conn_timeout_works[] scheduled
  max_connections,
  max_work,         \* max_conn_work: conn, disconnecting_conns, scheduled
  \* fmna_state.c, read here through fmna_state_is_enabled/is_paired
  state

hostVars == <<connected, closing, encrypted, le_keys, refs>>
recordVars == <<is_valid, is_disconnecting, owner, persistent>>
limitVars == <<max_connections, max_work>>
connVars == <<hostVars, recordVars, conn_timeout, limitVars>>

States == {"DISABLED", "UNPAIRED", "CONNECTED", "NEARBY", "SEPARATED"}

AdvKinds == {"unpaired", "nearby", "separated"}
NoAdv    == [kind |-> "off", slot |-> NULL]
Adv      == [kind : AdvKinds, slot : Slots] \cup {NoAdv}

ConnTypeOK ==
  /\ connected \subseteq Slots
  /\ closing \subseteq Slots
  /\ encrypted \subseteq Slots
  /\ le_keys \in [Slots -> {"none", "ltk", "pairing"}]
  /\ refs \in [Slots -> Int]
  /\ adv \in Adv
  /\ is_valid \subseteq Slots
  /\ is_disconnecting \subseteq Slots
  /\ owner \subseteq Slots
  /\ persistent \subseteq Slots
  /\ conn_timeout \subseteq Slots
  /\ max_connections \in Nat
  /\ max_work \in [conn : Conns, waiting : SUBSET Slots, scheduled : BOOLEAN]
  /\ state \in States

is_enabled == state # "DISABLED"
is_paired  == state \notin {"UNPAIRED", "DISABLED"}

(* A slot with a link, up or going down. *)
Live == connected \cup closing

(* bt_conn_foreach() visits every object somebody holds a reference to: the *)
(* host for a link and for the advertising set, the stack for its own.      *)
Held(s) == s \in Live \/ refs[s] > 0 \/ adv.slot = s

connection_num_all(valid, disc) == Cardinality(valid)  \* mutant

connection_num(valid, disc) == Cardinality(valid \ disc)

limit_check == connection_num(is_valid, is_disconnecting) < max_connections

(* bt_conn_disconnect() on a set of connected links. *)
Disconnect(S) ==
  /\ connected' = connected \ S
  /\ closing'   = closing \cup (connected \cap S)

-----------------------------------------------------------------------------
(* Advertising (fmna_adv.c). *)

(* bt_le_ext_adv_start() reserves a connection object nobody holds for the  *)
(* connectable set; without one it fails and nothing goes on air.           *)
AdvOnAir(kind) ==
  LET free == {s \in Slots : s \notin Live /\ refs[s] <= 0}
  IN IF free = {} THEN NoAdv ELSE [kind |-> kind, slot |-> CHOOSE s \in free : TRUE]

-----------------------------------------------------------------------------
(* The security timeout and the reference of a link. *)

conn_timeout_work_forgotten(s) == conn_timeout  \* mutant
conn_timeout_work_schedule(s)  == conn_timeout \cup {s}

conn_timeout_work_cancel_all(s) == {}  \* mutant
conn_timeout_work_cancel(s)     == conn_timeout \ {s}

unref_forgotten(s) == refs  \* mutant
bt_conn_unref(s)   == [refs EXCEPT ![s] = @ - 1]

-----------------------------------------------------------------------------
(* Start and stop. *)

(* The records and the limit start anew.  Initializing a work item again    *)
(* while it is scheduled loses it or not.                                   *)
fmna_conn_init ==
  /\ is_valid' = {} /\ is_disconnecting' = {} /\ owner' = {} /\ persistent' = {}
  /\ max_connections' = FMNA_MAX_CONN
  /\ max_work' \in {max_work, [max_work EXCEPT !.scheduled = FALSE]}
  /\ conn_timeout' \in SUBSET conn_timeout

uninit_without_unref ==  \* mutant
  /\ Disconnect(connected)
  /\ refs' = refs
  /\ conn_timeout' = {s \in conn_timeout : s \notin Live /\ refs[s] <= 0}

(* Every link that is up is disconnected and its reference given back; the  *)
(* disconnected() callback does nothing any more.                           *)
fmna_conn_uninit ==
  /\ Disconnect(connected)
  /\ refs' = [s \in Slots |-> IF s \in connected THEN refs[s] - 1 ELSE refs[s]]
  /\ conn_timeout' = {s \in conn_timeout : s \notin Live /\ refs[s] <= 0}

-----------------------------------------------------------------------------
(* Callbacks of the Bluetooth host. *)

(* connected(): a peer connects to the advertising set, which goes off air. *)
(* The host gives out a connection object again as soon as it is free; that *)
(* PEER_DISCONNECTED of its last use is still unhandled is "early_reuse".   *)
connected_cb ==
  LET s == adv.slot IN
  /\ adv.kind # "off"
  /\ Pending("PEER_DISCONNECTED", s) => "early_reuse" \in Races
  /\ connected' = connected \cup {s}
  /\ encrypted' = encrypted \ {s}
  /\ le_keys'   = [le_keys EXCEPT ![s] = "none"]
  /\ adv' = NoAdv
  /\ IF is_enabled
     THEN /\ is_valid' = is_valid \cup {s}
          /\ refs' = [refs EXCEPT ![s] = @ + 1]
          /\ conn_timeout' = conn_timeout_work_schedule(s)
          /\ Post(<<Ev("PEER_CONNECTED", s)>>)
     ELSE UNCHANGED <<is_valid, refs, conn_timeout, workq, events>>
  /\ UNCHANGED <<batch, closing, is_disconnecting, owner, persistent, limitVars>>

(* disconnected(): a link is gone, because the peer left or was told to.   *)
(* "fast_leave": before the encryption of the link has been handled.       *)
disconnected_cb(s) ==
  /\ s \in Live
  /\ Pending("PEER_SECURITY_CHANGED", s) \/ Pending("OWNER_CONNECTED", s)
       => "fast_leave" \in Races
  /\ connected' = connected \ {s}
  /\ closing'   = closing \ {s}
  /\ encrypted' = encrypted \ {s}
  /\ IF is_enabled
     THEN /\ is_disconnecting' = is_disconnecting \cup {s}
          /\ conn_timeout' = conn_timeout_work_cancel(s)
          /\ refs' = bt_conn_unref(s)
          /\ Post(<<Ev("PEER_DISCONNECTED", s)>>)
     ELSE UNCHANGED <<is_disconnecting, conn_timeout, refs, workq, events>>
  /\ UNCHANGED <<batch, le_keys, adv, is_valid, owner, persistent, limitVars>>

(* security_changed() without an error: the peer encrypts with the LTK set  *)
(* for the link, or pairs, which pairing_accept() allows while unpaired.    *)
secured_cb(s) ==
  /\ s \in connected \ encrypted
  /\ \/ le_keys[s] = "ltk" /\ UNCHANGED le_keys
     \/ /\ le_keys[s] = "none" /\ ~is_paired
        /\ le_keys' = [le_keys EXCEPT ![s] = "pairing"]
  /\ encrypted' = encrypted \cup {s}
  /\ IF is_enabled
     THEN /\ conn_timeout' = conn_timeout_work_cancel(s)
          /\ Post(<<EvArg("PEER_SECURITY_CHANGED", s, 0)>>)
     ELSE UNCHANGED <<conn_timeout, workq, events>>
  /\ UNCHANGED <<batch, connected, closing, refs, adv, recordVars, limitVars>>

(* security_changed() with an error: the link is disconnected. *)
security_failed_cb(s) ==
  /\ is_enabled
  /\ s \in connected \ encrypted
  /\ Disconnect({s})
  /\ conn_timeout' = conn_timeout_work_cancel(s)
  /\ Post(<<EvArg("PEER_SECURITY_CHANGED", s, 1)>>)
  /\ UNCHANGED <<batch, encrypted, le_keys, refs, adv, recordVars, limitVars>>

-----------------------------------------------------------------------------
(* Delayable work items. *)

(* conn_timeout_work_handle(): the peer did not encrypt the link in time. *)
conn_timeout_work_handle(s) ==
  /\ Between
  /\ s \in conn_timeout
  /\ Disconnect({s})
  /\ conn_timeout' = conn_timeout \ {s}
  /\ UNCHANGED <<queueVars, encrypted, le_keys, refs, adv, recordVars, limitVars>>

disconnects_done == max_work.waiting \cap is_valid = {}

(* max_conn_work_handle(), the check that succeeds: the delayed response to *)
(* Set Max Connections is sent.  A check that fails only reschedules it.    *)
max_conn_work_handle ==
  /\ Between
  /\ max_work.scheduled
  /\ disconnects_done
  /\ max_work' = [max_work EXCEPT !.conn = NULL, !.scheduled = FALSE]
  /\ UNCHANGED <<queueVars, hostVars, adv, recordVars, conn_timeout, max_connections>>

-----------------------------------------------------------------------------
(* Requests of a connected owner, handled from the event queue. *)

(* persistent_conn_request_handle(): one link at a time may be persistent. *)
persistent_conn_request_handle(s, status) ==
  /\ persistent' =
       IF /\ status % 2 = 1
          /\ \A t \in is_valid \cap persistent : ~Held(t)
       THEN IF s \in is_valid THEN persistent \cup {s} ELSE persistent
       ELSE IF s \in is_valid THEN persistent \ {s} ELSE persistent
  /\ Post(<<>>)
  /\ UNCHANGED <<hostVars, adv, is_valid, is_disconnecting, owner, conn_timeout, limitVars>>

(* The links conn_disconnecter_iterator() disconnects, and those it visits  *)
(* (their security timeout is cancelled), to lose n links other than s's.   *)
Others(s)      == {t \in Slots \ {s} : Held(t)}
LowerLinks(s, t) == {u \in Others(s) \cap connected : u < t}
Visited(s, n)  == {t \in Others(s) : Cardinality(LowerLinks(s, t)) < n}
SecuredCut(s, n) == Visited(s, n) \cap connected \cap encrypted  \* mutant
Cut(s, n)        == Visited(s, n) \cap connected

(* max_connections_request_handle(): links above the new limit are closed   *)
(* and the response waits for max_conn_work.  The list of links to wait for *)
(* is cleared after it has been filled.                                     *)
max_connections_request_handle(s, max_conns) ==
  LET m == IF max_conns > FMNA_MAX_CONN THEN FMNA_MAX_CONN ELSE max_conns
      n == connection_num(is_valid, is_disconnecting) - m
      changed == max_connections # m
  IN
  /\ IF max_conns = 0
     THEN /\ Post(<<>>)
          /\ UNCHANGED <<connected, closing, conn_timeout, limitVars>>
     ELSE /\ max_connections' = m
          /\ Post(IF changed THEN <<Ev("MAX_CONN_CHANGED", s)>> ELSE <<>>)
          /\ IF n > 0
             THEN /\ Disconnect(Cut(s, n))
                  /\ conn_timeout' = conn_timeout \ Visited(s, n)
                  /\ max_work' =
                       IF max_work.conn = NULL
                       THEN [conn |-> s, waiting |-> {}, scheduled |-> TRUE]
                       ELSE [max_work EXCEPT !.waiting = @ \cup Cut(s, n)]
             ELSE UNCHANGED <<connected, closing, conn_timeout, max_work>>
  /\ UNCHANGED <<encrypted, le_keys, refs, adv, recordVars>>

=============================================================================
