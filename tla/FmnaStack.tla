----------------------------- MODULE FmnaStack ------------------------------
(***************************************************************************)
(* The Find My stack: the listeners of the event manager in the order they *)
(* are called (keys first, connections last), the writes of peers to the   *)
(* GATT control points, fmna_enable() and fmna_disable() of fmna.c, and    *)
(* their interleavings.                                                    *)
(***************************************************************************)
EXTENDS FmnaPair

CONSTANTS
  Commands,         \* Commands the peers write, a subset of the event ids
  AppCalls,         \* API functions the application calls
  NearbyTimeouts,   \* Values of Set Nearby Timeout
  MaxRequests,      \* Values of Set Max Connections
  MaxPending,       \* Bound: a command is written while fewer events wait
  MaxPendingKeys    \* Bound: keys are rotated while fewer events wait

AllAppCalls == {"fmna_enable", "fmna_disable", "paired_adv", "pairing_mode"}

ASSUME EnvironmentAssumption ==
  /\ Commands \subseteq ConfigEvents \cup PairEvents
  /\ AppCalls \subseteq AllAppCalls
  /\ NearbyTimeouts \subseteq Nat
  /\ MaxRequests \subseteq Nat
  /\ MaxPending \in Nat
  /\ MaxPendingKeys \in Nat

VARIABLE ready      \* flags, FMNA_READY

vars == <<queueVars, connVars, adv, stateVars, pairVars, ready>>

TypeOK ==
  /\ QueueTypeOK
  /\ ConnTypeOK
  /\ StateTypeOK
  /\ PairTypeOK
  /\ ready \in BOOLEAN

Init ==
  /\ workq = <<>> /\ batch = <<>> /\ events = <<>>
  /\ connected = {} /\ closing = {} /\ encrypted = {}
  /\ le_keys = [s \in Slots |-> "none"]
  /\ refs = [s \in Slots |-> 0]
  /\ adv = NoAdv
  /\ is_valid = {} /\ is_disconnecting = {} /\ owner = {} /\ persistent = {}
  /\ conn_timeout = {}
  /\ max_connections = FMNA_MAX_CONN
  /\ max_work = [conn |-> NULL, waiting |-> {}, scheduled |-> FALSE]
  /\ state = "DISABLED"
  /\ is_paired_adv_paused = FALSE
  /\ is_maintained = FALSE /\ unpair_pending = FALSE
  /\ persistent_conn_adv = FALSE /\ persistent_work = FALSE
  /\ pairing_mode = FALSE /\ pairing_timer = FALSE
  /\ nearby_separated_timeout = NEARBY_SEPARATED_TIMEOUT_DEFAULT
  /\ nearby_timer = FALSE
  /\ location_reported = FALSE /\ paired_reported = FALSE
  /\ announced = "DISABLED"
  /\ keys_running = FALSE
  /\ pairing_items \in {{}, PairingItems}
  /\ pairing_conn = NULL /\ session = "none"
  /\ ready = FALSE

-----------------------------------------------------------------------------
(* Events. *)

(* The Find My LTK of a link. *)
bt_ltk_set(s)   == [le_keys EXCEPT ![s] = "ltk"]
bt_ltk_check(s) == le_keys[s] # "none"

(* fmna_keys.c gives the link the Find My LTK, fmna_state.c advertises. *)
peer_connected ==
  LET s == Head(batch).conn IN
  /\ Handling("PEER_CONNECTED")
  /\ le_keys' = IF is_paired THEN bt_ltk_set(s) ELSE le_keys
  /\ adv' = advertise_restart(limit_check)
  /\ Post(<<>>)
  /\ UNCHANGED <<connected, closing, encrypted, refs, recordVars, conn_timeout,
                 limitVars, stateVars, pairVars, ready>>

(* all_owners_disconnected(): bt_conn_foreach() finds no owner but s. *)
some_peer_disconnected(s) == state = "CONNECTED"  \* mutant

all_owners_disconnected(s) ==
  /\ state = "CONNECTED"
  /\ \A t \in is_valid \cap owner : Held(t) => t = s

record_still_disconnecting(s) ==  \* mutant
  /\ is_valid' = is_valid \ {s}
  /\ owner' = owner \ {s}
  /\ persistent' = persistent \ {s}
  /\ UNCHANGED is_disconnecting

record_still_owner(s) ==  \* mutant
  /\ is_valid' = is_valid \ {s}
  /\ is_disconnecting' = is_disconnecting \ {s}
  /\ persistent' = persistent \ {s}
  /\ UNCHANGED owner

record_cleared(s) ==
  /\ is_valid' = is_valid \ {s}
  /\ is_disconnecting' = is_disconnecting \ {s}
  /\ owner' = owner \ {s}
  /\ persistent' = persistent \ {s}

candidate_kept(s) == pairing_conn  \* mutant
pairing_ended(s)  == IF pairing_conn = s THEN NULL ELSE pairing_conn

(* bt_unpair() also disconnects the link the connection object then has.    *)
unpaired_peer(S) ==
  /\ Disconnect(S)
  /\ le_keys' = [t \in Slots |-> IF t \in connected \cap S THEN "none" ELSE le_keys[t]]

(* fmna_pair.c ends the pairing of s, fmna_state.c leaves CONNECTED with    *)
(* the last owner, fmna_conn.c clears the record.                           *)
peer_disconnected ==
  LET s == Head(batch).conn IN
  /\ Handling("PEER_DISCONNECTED")
  /\ pairing_conn' = pairing_ended(s)
  /\ unpaired_peer(IF pairing_conn = s THEN {s} ELSE {})
  /\ \/ /\ all_owners_disconnected(s)
        /\ state_set(workq, limit_check, s, IF unpair_pending THEN "UNPAIRED" ELSE "NEARBY")
     \/ /\ ~all_owners_disconnected(s)
        /\ adv' = advertise_restart(limit_check)
        /\ Post(<<>>)
        /\ UNCHANGED <<state, modeVars, nearbyVars, reportVars, keyVars>>
  /\ record_cleared(s)
  /\ UNCHANGED <<encrypted, refs, conn_timeout, limitVars, is_paired_adv_paused,
                 session, ready>>

(* fmna_keys.c: whoever encrypts a link of a paired accessory is an owner. *)
owner_secured ==
  LET s == Head(batch).conn IN
  /\ Handling("PEER_SECURITY_CHANGED")
  /\ is_paired
  /\ IF bt_ltk_check(s) /\ Head(batch).arg = 0
     THEN /\ owner' = owner \cup ({s} \cap is_valid)
          /\ Post(<<Ev("OWNER_CONNECTED", s)>>)
     ELSE UNCHANGED owner /\ Post(<<>>)
  /\ UNCHANGED <<hostVars, is_valid, is_disconnecting, persistent, conn_timeout,
                 limitVars, adv, stateVars, pairVars, ready>>

(* fmna_pair.c: the first peer to pair is the pairing candidate, another    *)
(* one is unpaired, which disconnects it.                                   *)
candidate_secured ==
  LET s     == Head(batch).conn
      err   == Head(batch).arg # 0
      start == ~err /\ pairing_conn = NULL
  IN
  /\ Handling("PEER_SECURITY_CHANGED")
  /\ ~is_paired
  /\ IF err THEN Disconnect({s}) /\ UNCHANGED le_keys
            ELSE unpaired_peer(IF start THEN {} ELSE {s})
  /\ pairing_conn' = IF start THEN s ELSE pairing_conn
  /\ session' = IF start THEN "none" ELSE session
  /\ Post(<<>>)
  /\ UNCHANGED <<encrypted, refs, recordVars, conn_timeout, limitVars, adv,
                 stateVars, ready>>

owner_connected ==
  LET s == Head(batch).conn IN
  /\ Handling("OWNER_CONNECTED")
  /\ owner' = IF state = "CONNECTED" THEN owner ELSE owner \cup ({s} \cap is_valid)
  /\ state_set(workq, limit_check, s, "CONNECTED")
  /\ UNCHANGED <<hostVars, is_valid, is_disconnecting, persistent, conn_timeout,
                 limitVars, is_paired_adv_paused, pairVars, ready>>

max_conn_changed ==
  /\ Handling("MAX_CONN_CHANGED")
  /\ adv' = advertise_restart(limit_check)
  /\ Post(<<>>)
  /\ UNCHANGED <<connVars, stateVars, pairVars, ready>>

limit_kept ==  \* mutant
  /\ Handling("STATE_CHANGED")
  /\ Post(<<>>)
  /\ UNCHANGED <<connVars, adv, stateVars, pairVars, ready>>

state_changed ==
  /\ Handling("STATE_CHANGED")
  /\ max_connections' = IF state = "UNPAIRED" THEN FMNA_MAX_CONN ELSE max_connections
  /\ Post(<<>>)
  /\ UNCHANGED <<hostVars, recordVars, conn_timeout, max_work, adv, stateVars, pairVars, ready>>

public_keys_changed ==
  /\ Handling("PUBLIC_KEYS_CHANGED")
  /\ fmna_public_keys_changed(Head(batch).arg)
  /\ UNCHANGED <<pairVars, ready>>

config_event ==
  LET s == Head(batch).conn
      n == Head(batch).arg
  IN
  /\ \/ /\ Handling("SET_PERSISTENT_CONN_STATUS")
        /\ persistent_conn_request_handle(s, n) /\ UNCHANGED stateVars
     \/ /\ Handling("SET_MAX_CONNECTIONS")
        /\ max_connections_request_handle(s, n) /\ UNCHANGED stateVars
     \/ Handling("SET_NEARBY_TIMEOUT") /\ nearby_timeout_set_request_handle(n)
     \/ Handling("UNPAIR") /\ unpair_request_handle
  /\ UNCHANGED <<pairVars, ready>>

pair_event ==
  /\ \/ \E id \in PairEvents : pairing_cmd_rejected(id)
     \/ initiate_pairing_cmd_handle
     \/ finalize_pairing_cmd_handle
     \/ pairing_complete_cmd_handle
  /\ UNCHANGED ready

-----------------------------------------------------------------------------
(* Writes of peers, in the Bluetooth receive context. *)

Args(id) == CASE id = "SET_PERSISTENT_CONN_STATUS" -> {0, 1}
              [] id = "SET_MAX_CONNECTIONS" -> MaxRequests
              [] id = "SET_NEARBY_TIMEOUT" -> NearbyTimeouts
              [] OTHER -> {0}

config_cp_write(s) ==
  /\ is_enabled
  /\ s \in connected \cap is_valid \cap owner
  /\ Len(events) < MaxPending
  /\ \E id \in Commands \cap ConfigEvents : \E n \in Args(id) : Post(<<EvArg(id, s, n)>>)
  /\ UNCHANGED <<batch, connVars, adv, stateVars, pairVars, ready>>

(* "hasty_complete": a peer completes the pairing without the status that   *)
(* answers its Finalize command.                                            *)
pairing_cp_write(s) ==
  /\ is_enabled /\ ~is_paired
  /\ s \in connected
  /\ Len(events) < MaxPending
  /\ \E id \in Commands \cap PairEvents :
       /\ \/ id # "PAIRING_COMPLETE" \/ "hasty_complete" \in Races
          \/ pairing_conn = s /\ session = "finalized"
       /\ Post(<<Ev(id, s)>>)
  /\ UNCHANGED <<batch, connVars, adv, stateVars, pairVars, ready>>

-----------------------------------------------------------------------------
(* The application, in the context of the system workqueue as the          *)
(* documentation of fmna_disable() recommends.                              *)

(* The stack is ready if its first state could be entered.  An attempt that *)
(* failed may be repeated.  "early_enable": links of the time before        *)
(* fmna_disable() are still going down.                                     *)
fmna_enable ==
  LET stored == fmna_storage_pairing_data_check
      first  == IF stored THEN "SEPARATED" ELSE "UNPAIRED"
  IN
  /\ "fmna_enable" \in AppCalls
  /\ Between
  /\ ~ready
  /\ Live # {} => "early_enable" \in Races
  /\ fmna_conn_init
  /\ \/ /\ fmna_keys_init(stored)
        /\ \/ unchanged_state(workq, TRUE, first) /\ ready' = TRUE
           \/ forbidden_transition(workq, first)  /\ ready' = FALSE
           \/ enter_separated(workq, first)       /\ ready' = paired_adv_ok
     \/ enter_unpaired(workq, first) /\ ready' = (AUTO_ENTER => free_conn)
  /\ UNCHANGED <<batch, hostVars, is_paired_adv_paused, pairVars>>

(* Every peer is disconnected; the pairing under way, the connection        *)
(* records, the LTKs of the links and the delayed response stay behind.     *)
(* "busy_disable": events are still waiting to be handled.                  *)
(* "closing_disable": a link is already going down; it keeps the reference. *)
fmna_disable ==
  /\ "fmna_disable" \in AppCalls
  /\ Between
  /\ ready
  /\ NothingQueued \/ "busy_disable" \in Races
  /\ closing = {} \/ "closing_disable" \in Races
  /\ ready' = FALSE
  /\ enter_disabled(workq, "DISABLED")
  /\ fmna_conn_uninit
  /\ UNCHANGED <<batch, encrypted, le_keys, recordVars, limitVars,
                 is_paired_adv_paused, pairVars>>

paired_adv ==
  /\ "paired_adv" \in AppCalls
  /\ Between
  /\ fmna_paired_adv_disable \/ fmna_paired_adv_enable
  /\ UNCHANGED <<pairVars, ready>>

pairing_mode_request ==
  /\ "pairing_mode" \in AppCalls
  /\ Between
  /\ fmna_pairing_mode_cancel \/ fmna_pairing_mode_enter
  /\ UNCHANGED <<pairVars, ready>>

-----------------------------------------------------------------------------
(* The system. *)

HandleEvent ==
  \/ peer_connected
  \/ peer_disconnected
  \/ owner_secured
  \/ candidate_secured
  \/ owner_connected
  \/ max_conn_changed
  \/ state_changed
  \/ public_keys_changed
  \/ config_event
  \/ pair_event

event_work == TakeEvents /\ UNCHANGED <<connVars, adv, stateVars, pairVars, ready>>

aboveConn  == <<stateVars, pairVars, ready>>
aboveState == <<pairVars, ready>>

link_up              == connected_cb /\ UNCHANGED aboveConn
link_down(s)         == disconnected_cb(s) /\ UNCHANGED aboveConn
link_secured(s)      == secured_cb(s) /\ UNCHANGED aboveConn
security_error(s)    == security_failed_cb(s) /\ UNCHANGED aboveConn
conn_timeout_work(s) == conn_timeout_work_handle(s) /\ UNCHANGED aboveConn
max_conn_work        == max_conn_work_handle /\ UNCHANGED aboveConn

nearby_timeout       == nearby_separated_timeout_handle /\ UNCHANGED aboveState
nearby_work          == nearby_separated_work_handle /\ UNCHANGED aboveState
persistent_conn_work == persistent_conn_work_handle /\ UNCHANGED aboveState
pairing_mode_work    == pairing_mode_timeout_work_handle /\ UNCHANGED aboveState
key_timeout ==
  Len(events) < MaxPendingKeys /\ key_rotation_timeout_handle /\ UNCHANGED aboveState
key_work             == key_rotation_work_handle /\ UNCHANGED aboveState

Next ==
  \/ event_work
  \/ HandleEvent
  \/ link_up
  \/ \E s \in Slots : \/ link_down(s)
                      \/ link_secured(s)
                      \/ security_error(s)
                      \/ conn_timeout_work(s)
                      \/ config_cp_write(s)
                      \/ pairing_cp_write(s)
  \/ max_conn_work
  \/ nearby_timeout
  \/ nearby_work
  \/ persistent_conn_work
  \/ pairing_mode_work
  \/ key_timeout
  \/ key_work
  \/ fmna_enable
  \/ fmna_disable
  \/ paired_adv
  \/ pairing_mode_request

Spec == Init /\ [][Next]_vars

(* The workqueue thread runs whatever is queued.  A work item whose delay   *)
(* has expired waits in that same queue, so it runs although other items    *)
(* come and go (strong fairness); a timer that is not stopped expires; the  *)
(* host reports the end of a link it was told to disconnect.  Peers and the *)
(* application need not do anything.                                        *)
Fairness ==
  /\ WF_vars(event_work \/ nearby_work \/ key_work)
  /\ WF_vars(HandleEvent)
  /\ SF_vars(nearby_timeout)
  /\ SF_vars(persistent_conn_work)
  /\ SF_vars(pairing_mode_work)
  /\ SF_vars(max_conn_work)
  /\ \A s \in Slots : /\ SF_vars(conn_timeout_work(s))
                      /\ WF_vars(s \in closing /\ link_down(s))

FairSpec == Spec /\ Fairness

-----------------------------------------------------------------------------
(* Safety. *)

(* The connection records, which limit_check counts, agree with the links   *)
(* whenever the stack is enabled: across the callbacks that set the flags,  *)
(* the events that clear the records later, and the reuse of a slot.        *)
RecordsTracked == ready => is_valid \ is_disconnecting = Live

(* An enabled stack holds one reference on every link and none on other     *)
(* connection objects, a disabled stack none at all, although one callback  *)
(* takes the reference and several paths may give it back.                  *)
OneReferencePerLink ==
  \A s \in Slots : refs[s] = IF s \in Live /\ is_enabled THEN 1 ELSE 0

(* A link whose encryption nobody has seen is on the clock: the security    *)
(* timeout of fmna_conn.c runs for every unencrypted link that is up,       *)
(* whatever disconnected or was disconnected meanwhile, and whatever became *)
(* of the stack.                                                            *)
UnsecuredLinkTimed == connected \ encrypted \subseteq conn_timeout

(* Only an encrypted link counts as an owner, although the record of a slot *)
(* outlives its link until PEER_DISCONNECTED is handled.                    *)
OwnersEncrypted == ready => owner \cap connected \subseteq encrypted

(* Once the events are handled, the accessory is in CONNECTED exactly when  *)
(* an owner is connected.                                                   *)
OwnerTracked ==
  NothingQueued /\ ready => (state = "CONNECTED" <=> owner \cap Live # {})

(* In NEARBY the switch to SEPARATED is always on its way, and never in     *)
(* another state: timer and work item are two steps, and an owner's return  *)
(* can come between them.                                                   *)
NearbyTimerArmed ==
  state = "NEARBY" <=>
    nearby_timer \/ Queued(workq, "nearby")

(* The pairing mode and the fast advertising for a lost persistent          *)
(* connection always have the timer that ends them, although both are       *)
(* started, stopped and restarted by several handlers.                      *)
TemporaryModesEnd ==
  /\ pairing_mode => pairing_timer
  /\ persistent_conn_adv => persistent_work

(* The limit an owner has set does not outlive the pairing.                 *)
LimitReset == NothingQueued /\ state = "UNPAIRED" => max_connections = FMNA_MAX_CONN

(* The pairing candidate is a link that is up or whose end is still to be   *)
(* handled, so that a candidate that leaves frees the place.                *)
PairingConnLive ==
  pairing_conn # NULL =>
    pairing_conn \in Live \/ Pending("PEER_DISCONNECTED", pairing_conn)

(* Rotation of the keys and stored keys go with the paired states, and what *)
(* is stored while unpaired does not make a pairing at the next start.      *)
KeysWithPairing ==
  /\ keys_running => is_paired
  /\ is_paired => "KEYS" \in pairing_items
  /\ ready /\ state = "UNPAIRED" => pairing_items # PairingItems

(* The paired payloads are on air in the paired states only.                *)
PairedAdvInPairedState == adv.kind \in {"nearby", "separated"} => is_paired

(* The payload on air fits the state; the pairing mode belongs to UNPAIRED. *)
(* The pairing payload stays on air during the connection in which the      *)
(* accessory is paired, because its address must not change.                *)
AdvMatchesState ==
  /\ PairedAdvInPairedState
  /\ adv.kind = "unpaired" => state \in {"UNPAIRED", "CONNECTED"}
  /\ pairing_mode => state = "UNPAIRED"

(* A paired accessory without its owner can be found: below the connection  *)
(* limit it advertises, with the payload of its state.                      *)
Findable ==
  NothingQueued /\ ready /\ limit_check /\ ~is_paired_adv_paused =>
    /\ state = "NEARBY"    => adv.kind = "nearby"
    /\ state = "SEPARATED" => adv.kind = "separated"

(* Once the events are handled, the last location_availability_changed()    *)
(* says "available" exactly when the accessory is paired and no owner is    *)
(* connected, as fmna.h describes it.                                       *)
AvailabilityReported ==
  NothingQueued /\ ready =>
    (location_reported <=> is_paired /\ owner \cap Live = {})

(* state_set() never meets a transition it calls forbidden, and nobody is   *)
(* CONNECTED to a disabled stack.  CONNECTED goes to SEPARATED at once when *)
(* the owner has set the nearby timeout to 0.                               *)
TransitionsAllowed ==
  [][/\ state' = "UNPAIRED"  => state \in {"UNPAIRED", "CONNECTED", "DISABLED"}
     /\ state' = "NEARBY"    => state \in {"NEARBY", "CONNECTED"}
     /\ state' = "SEPARATED" => \/ state \in {"SEPARATED", "NEARBY", "DISABLED"}
                                \/ state = "CONNECTED" /\ nearby_separated_timeout = 0
     /\ state' = "CONNECTED" => state # "DISABLED"]_vars

(* CONNECTED is left for NEARBY or UNPAIRED with the last owner only.       *)
LastOwnerLeaves ==
  [][state = "CONNECTED" /\ state' # "CONNECTED" /\ ready'
       => owner' \cap connected' = {}]_vars

-----------------------------------------------------------------------------
(* Liveness. *)

(* A peer that does not encrypt its link loses it.                          *)
UnsecuredLinkEnds ==
  \A s \in Slots : s \in connected \ encrypted ~> s \notin connected \/ s \in encrypted

(* NEARBY does not last: the owner returns, or the accessory is separated.  *)
NearbyEnds == state = "NEARBY" ~> state # "NEARBY"

(* The pairing mode does not last, however often the application refreshes  *)
(* it and whatever the peers do.                                            *)
PairingModeEnds == pairing_mode ~> ~pairing_mode

-----------------------------------------------------------------------------
(* What the documentation says and the code does not keep. *)

(* "Emit event notifying that the device is in the new state."  Sound,      *)
(* motion detection, NFC and the connection limit depend on that event.     *)
StateAnnounced == ready => announced = state

(* "The disabled state of the FMN stack is treated similarly to the         *)
(* power-off state": nothing is left of earlier connections.                *)
PoweredOff ==
  state = "DISABLED" /\ Live = {} /\ NothingQueued =>
    pairing_conn = NULL /\ \A s \in Slots : refs[s] = 0

(* "All Find My functionalities like advertising, NFC emulation and key     *)
(* rotation are stopped" by fmna_disable().                                 *)
SilentWhenDisabled == ~ready => adv.kind = "off"

=============================================================================
