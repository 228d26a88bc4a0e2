----------------------------- MODULE FmnaState ------------------------------
(***************************************************************************)
(* fmna_state.c: the Find My states, what each transition starts and stops *)
(* and reports, and the two timers behind them.  The parts of fmna_keys.c  *)
(* and fmna_storage.c a transition touches are the rotation timer and      *)
(* which of the two groups of pairing items is stored.                     *)
(*                                                                         *)
(* A transition is state_set(q, below, c, new): c is the connection it is  *)
(* about, q the workqueue it posts onto, and below says whether            *)
(* fmna_conn_limit_check() holds.                                          *)
(***************************************************************************)
EXTENDS FmnaConn

CONSTANT
  AUTO_ENTER          \* CONFIG_FMNA_PAIRING_MODE_AUTO_ENTER

ASSUME AutoEnterAssumption == AUTO_ENTER \in BOOLEAN

NEARBY_SEPARATED_TIMEOUT_DEFAULT == 30
NEARBY_SEPARATED_TIMEOUT_MAX     == 3600

VARIABLES
  is_paired_adv_paused, is_maintained, unpair_pending,
  persistent_conn_adv,
  persistent_work,          \* persistent_conn_work scheduled
  pairing_mode,
  pairing_timer,            \* pairing_mode_timeout_work scheduled
  nearby_separated_timeout,
  nearby_timer,             \* nearby_separated_timer running
  location_reported,        \* last location_availability_changed_cb()
  paired_reported,          \* last paired_state_changed_cb()
  announced,                \* state of the last STATE_CHANGED posted
  keys_running,             \* fmna_keys.c: key_rotation_timer running
  pairing_items             \* fmna_storage.c: groups of items stored

modeVars   == <<is_maintained, unpair_pending, persistent_conn_adv,
                persistent_work, pairing_mode, pairing_timer>>
nearbyVars == <<nearby_separated_timeout, nearby_timer>>
reportVars == <<location_reported, paired_reported, announced>>
keyVars    == <<keys_running, pairing_items>>
stateVars  == <<state, is_paired_adv_paused, modeVars, nearbyVars, reportVars, keyVars>>

(* What finalize_pairing stores, and what the keys module stores at the end. *)
PairingItems == {"SECRETS", "KEYS"}

StateTypeOK ==
  /\ is_paired_adv_paused \in BOOLEAN
  /\ is_maintained \in BOOLEAN
  /\ unpair_pending \in BOOLEAN
  /\ persistent_conn_adv \in BOOLEAN
  /\ persistent_work \in BOOLEAN
  /\ pairing_mode \in BOOLEAN
  /\ pairing_timer \in BOOLEAN
  /\ nearby_separated_timeout \in 0..NEARBY_SEPARATED_TIMEOUT_MAX
  /\ nearby_timer \in BOOLEAN
  /\ location_reported \in BOOLEAN
  /\ paired_reported \in BOOLEAN
  /\ announced \in States
  /\ keys_running \in BOOLEAN
  /\ pairing_items \subseteq PairingItems

-----------------------------------------------------------------------------
(* Advertising. *)

free_conn == \E s \in Slots : s \notin Live /\ refs[s] <= 0

(* nearby_adv_start(), separated_adv_start() *)
paired_adv_start(kind) == IF is_paired_adv_paused THEN adv ELSE AdvOnAir(kind)
paired_adv_ok == is_paired_adv_paused \/ free_conn

(* unpaired_adv_start() *)
unpaired_adv_start == IF pairing_mode THEN AdvOnAir("unpaired") ELSE adv

(* advertise_restart_on_no_state_change(): what is on air afterwards. *)
advertise_restart(below) ==
  CASE ~below                          -> NoAdv
    [] below /\ state = "UNPAIRED"     -> unpaired_adv_start
    [] below /\ state \in {"CONNECTED", "NEARBY"} -> paired_adv_start("nearby")
    [] below /\ state = "SEPARATED"    -> paired_adv_start("separated")
    [] below /\ state = "DISABLED"     -> adv

-----------------------------------------------------------------------------
(* Transitions. *)

only_separated(new)        == new = "SEPARATED"  \* mutant
is_location_available(new) == new \in {"NEARBY", "SEPARATED"}

(* The end of state_set(): both callbacks, and STATE_CHANGED n times (the   *)
(* transition to NEARBY with a timeout of 0 contains another one).          *)
reported(q, new, n) ==
  /\ location_reported' = is_location_available(new)
  /\ paired_reported' =
       IF new # "DISABLED" /\ (state \in {"DISABLED", "UNPAIRED"} \/ new = "UNPAIRED")
       THEN new # "UNPAIRED" ELSE paired_reported
  /\ announced' = new
  /\ PostOn(q, [i \in 1..n |-> Ev("STATE_CHANGED", NULL)])

(* state_set() returns before its end. *)
unreported(q) ==
  /\ UNCHANGED reportVars
  /\ PostOn(q, <<>>)

(* Advertising that does not start is an error that state_set() returns. *)
reported_if(ok, q, new, n) == IF ok THEN reported(q, new, n) ELSE unreported(q)

unchanged_state(q, below, new) ==
  /\ state = new
  /\ adv' = advertise_restart(below)
  /\ unreported(q)
  /\ UNCHANGED <<state, modeVars, nearbyVars>>

forbidden_transition(q, new) ==
  /\ \/ new = "UNPAIRED"  /\ state \in {"NEARBY", "SEPARATED"}
     \/ new = "NEARBY"    /\ state \in {"UNPAIRED", "SEPARATED", "DISABLED"}
     \/ new = "SEPARATED" /\ state \in {"UNPAIRED", "CONNECTED"}
  /\ state' = new
  /\ unreported(q)
  /\ UNCHANGED <<adv, modeVars, nearbyVars>>

(* fmna_storage.c: a pairing counts at the next start when it is complete. *)
fmna_storage_pairing_data_check  == pairing_items = PairingItems
fmna_storage_pairing_data_delete == {}

(* keys_running after fmna_keys_service_stop(). *)
service_not_stopped    == keys_running  \* mutant
fmna_keys_service_stop == FALSE

(* fmna_keys_init(): a stored pairing is restored and its keys rotate again. *)
fmna_keys_init(paired) ==
  /\ keys_running' = (paired \/ keys_running)
  /\ UNCHANGED pairing_items

enter_unpaired(q, new) ==
  LET unpaired == state = "CONNECTED" IN
  /\ new = "UNPAIRED" /\ state \in {"CONNECTED", "DISABLED"}
  /\ state' = new
  /\ keys_running'  = IF unpaired THEN fmna_keys_service_stop ELSE keys_running
  /\ pairing_items' = IF unpaired THEN fmna_storage_pairing_data_delete ELSE pairing_items
  /\ unpair_pending' = IF unpaired THEN FALSE ELSE unpair_pending
  /\ persistent_conn_adv' = IF unpaired THEN FALSE ELSE persistent_conn_adv
  /\ nearby_separated_timeout' =
       IF unpaired THEN NEARBY_SEPARATED_TIMEOUT_DEFAULT ELSE nearby_separated_timeout
  /\ pairing_mode'  = IF AUTO_ENTER THEN TRUE ELSE pairing_mode
  /\ pairing_timer' = IF AUTO_ENTER THEN TRUE ELSE pairing_timer
  /\ adv' = IF AUTO_ENTER THEN AdvOnAir("unpaired") ELSE adv
  /\ reported_if(AUTO_ENTER => free_conn, q, new, 1)
  /\ UNCHANGED <<is_maintained, persistent_work, nearby_timer>>

(* What a transition to CONNECTED makes of the nearby timer and of the      *)
(* pairing mode and its timer.                                              *)
nearby_timer_left == nearby_timer  \* mutant
nearby_timer_stop == state # "NEARBY" /\ nearby_timer

mode_left(m)         == m  \* mutant
pairing_mode_exit(m) == state # "UNPAIRED" /\ m

(* The address must not change while the peer that has just paired is       *)
(* connected: no advertising from UNPAIRED.                                 *)
enter_connected(q, below, new) ==
  LET start == state # "UNPAIRED" /\ below IN
  /\ new = "CONNECTED" /\ state # new
  /\ state' = new
  /\ nearby_timer'  = nearby_timer_stop
  /\ pairing_mode'  = pairing_mode_exit(pairing_mode)
  /\ pairing_timer' = pairing_mode_exit(pairing_timer)
  /\ is_maintained' = TRUE
  /\ adv' = IF start THEN paired_adv_start("nearby") ELSE adv
  /\ reported_if(start => paired_adv_ok, q, new, 1)
  /\ UNCHANGED <<unpair_pending, persistent_conn_adv, persistent_work,
                 nearby_separated_timeout>>

(* The persistent connection's owner is expected back: advertise fast for   *)
(* PERSISTENT_CONN_ADV_TIMEOUT.  A nearby timeout of 0 leads to SEPARATED.  *)
enter_nearby(q, c, new) ==
  LET fast  == c \in is_valid \cap persistent
      stay  == nearby_separated_timeout # 0
  IN
  /\ new = "NEARBY" /\ state = "CONNECTED"
  /\ state' = IF stay THEN "NEARBY" ELSE "SEPARATED"
  /\ persistent_work'     = IF fast THEN TRUE ELSE persistent_work
  /\ persistent_conn_adv' = IF fast THEN TRUE ELSE persistent_conn_adv
  /\ nearby_timer' = IF stay THEN TRUE ELSE nearby_timer
  /\ adv' = paired_adv_start(IF stay THEN "nearby" ELSE "separated")
  /\ reported_if(paired_adv_ok, q, state', IF stay THEN 1 ELSE 2)
  /\ UNCHANGED <<is_maintained, unpair_pending, pairing_mode, pairing_timer,
                 nearby_separated_timeout>>

enter_separated(q, new) ==
  /\ new = "SEPARATED" /\ state \in {"NEARBY", "DISABLED"}
  /\ state' = new
  /\ adv' = paired_adv_start("separated")
  /\ reported_if(paired_adv_ok, q, new, 1)
  /\ UNCHANGED <<modeVars, nearbyVars>>

(* With fmna_adv_uninit(), which fmna_state_uninit() calls next. *)
enter_disabled(q, new) ==
  /\ new = "DISABLED" /\ state # new
  /\ state' = new
  /\ nearby_timer' = FALSE
  /\ persistent_work' = FALSE
  /\ pairing_timer' = FALSE
  /\ keys_running' = IF state # "UNPAIRED" THEN fmna_keys_service_stop ELSE keys_running
  /\ is_maintained' = FALSE
  /\ unpair_pending' = FALSE
  /\ persistent_conn_adv' = FALSE
  /\ pairing_mode' = FALSE
  /\ adv' = NoAdv
  /\ reported(Cancelled(q, "nearby"), new, 1)
  /\ UNCHANGED <<nearby_separated_timeout, pairing_items>>

(* The key service and the pairing items are touched by two of them only.   *)
state_set(q, below, c, new) ==
  \/ unchanged_state(q, below, new)   /\ UNCHANGED keyVars
  \/ forbidden_transition(q, new)     /\ UNCHANGED keyVars
  \/ enter_unpaired(q, new)
  \/ enter_connected(q, below, new)   /\ UNCHANGED keyVars
  \/ enter_nearby(q, c, new)          /\ UNCHANGED keyVars
  \/ enter_separated(q, new)          /\ UNCHANGED keyVars
  \/ enter_disabled(q, new)

-----------------------------------------------------------------------------
(* Timers and their work items. *)

owner_expected ==
  \E s \in Slots : Pending("PEER_SECURITY_CHANGED", s) \/ Pending("OWNER_CONNECTED", s)

timeout_without_work ==  \* mutant
  /\ nearby_timer
  /\ owner_expected => "late_nearby" \in Races
  /\ nearby_timer' = FALSE
  /\ UNCHANGED <<workq, batch, events, connVars, adv, state, is_paired_adv_paused,
                 modeVars, nearby_separated_timeout, reportVars, keyVars>>

(* Interrupt context.  That the timer expires while the arrival of an owner *)
(* is being handled is "late_nearby".                                       *)
nearby_separated_timeout_handle ==
  /\ nearby_timer
  /\ owner_expected => "late_nearby" \in Races
  /\ nearby_timer' = FALSE
  /\ workq' = Submitted(workq, "nearby")
  /\ UNCHANGED <<batch, events, connVars, adv, state, is_paired_adv_paused, modeVars,
                 nearby_separated_timeout, reportVars, keyVars>>

nearby_separated_work_handle ==
  /\ Running("nearby")
  /\ state_set(Tail(workq), limit_check, NULL, "SEPARATED")
  /\ UNCHANGED <<connVars, is_paired_adv_paused>>

persistent_adv_kept ==  \* mutant
  /\ Between
  /\ persistent_work
  /\ persistent_work' = FALSE
  /\ adv' = IF persistent_conn_adv THEN advertise_restart(limit_check) ELSE adv
  /\ UNCHANGED <<queueVars, connVars, state, is_paired_adv_paused, is_maintained,
                 unpair_pending, persistent_conn_adv, pairing_mode, pairing_timer,
                 nearbyVars, reportVars, keyVars>>

persistent_conn_work_handle ==
  /\ Between
  /\ persistent_work
  /\ persistent_work' = FALSE
  /\ persistent_conn_adv' = FALSE
  /\ adv' = IF persistent_conn_adv THEN advertise_restart(limit_check) ELSE adv
  /\ UNCHANGED <<queueVars, connVars, state, is_paired_adv_paused, is_maintained,
                 unpair_pending, pairing_mode, pairing_timer, nearbyVars,
                 reportVars, keyVars>>

pairing_mode_timeout_work_handle ==
  /\ Between
  /\ pairing_timer
  /\ pairing_timer' = FALSE
  /\ pairing_mode' = FALSE
  /\ adv' = NoAdv
  /\ UNCHANGED <<queueVars, connVars, state, is_paired_adv_paused, is_maintained,
                 unpair_pending, persistent_conn_adv, persistent_work, nearbyVars,
                 reportVars, keyVars>>

(* fmna_keys.c, as far as the state machine sees it. *)
key_rotation_timeout_handle ==
  /\ keys_running
  /\ workq' = Submitted(workq, "keys")
  /\ workq' # workq
  /\ UNCHANGED <<batch, events, connVars, adv, stateVars>>

(* A rotation that fails posts nothing; the argument of the event says      *)
(* whether the separated key changed.  Stopping the key service does not    *)
(* cancel a rotation that waits.                                            *)
key_rotation_work_handle ==
  /\ Running("keys")
  /\ \E evs \in {<<>>} \cup {<<EvArg("PUBLIC_KEYS_CHANGED", NULL, a)>> : a \in {0, 1}} :
       PostOn(Tail(workq), evs)
  /\ UNCHANGED <<connVars, adv, stateVars>>

-----------------------------------------------------------------------------
(* Requests of owners and of the application. *)

nearby_timeout_unchecked(timeout) ==  \* mutant
  /\ nearby_separated_timeout' = timeout
  /\ Post(<<>>)
  /\ UNCHANGED <<connVars, adv, state, is_paired_adv_paused, modeVars, nearby_timer,
                 reportVars, keyVars>>

nearby_timeout_set_request_handle(timeout) ==
  /\ nearby_separated_timeout' =
       IF timeout > NEARBY_SEPARATED_TIMEOUT_MAX THEN nearby_separated_timeout ELSE timeout
  /\ Post(<<>>)
  /\ UNCHANGED <<connVars, adv, state, is_paired_adv_paused, modeVars, nearby_timer,
                 reportVars, keyVars>>

unpair_request_handle ==
  /\ unpair_pending' =
       IF connection_num(is_valid, is_disconnecting) > 1 THEN unpair_pending ELSE TRUE
  /\ Post(<<>>)
  /\ UNCHANGED <<connVars, adv, state, is_paired_adv_paused, is_maintained,
                 persistent_conn_adv, persistent_work, pairing_mode, pairing_timer,
                 nearbyVars, reportVars, keyVars>>

fmna_public_keys_changed(separated_key_changed) ==
  /\ is_maintained' = (state = "CONNECTED")
  /\ adv' = IF state = "UNPAIRED" \/ (state = "SEPARATED" /\ separated_key_changed = 0)
            THEN adv ELSE advertise_restart(limit_check)
  /\ Post(<<>>)
  /\ UNCHANGED <<connVars, state, is_paired_adv_paused, unpair_pending,
                 persistent_conn_adv, persistent_work, pairing_mode, pairing_timer,
                 nearbyVars, reportVars, keyVars>>

fmna_paired_adv_disable ==
  /\ is_paired_adv_paused' = TRUE
  /\ adv' = IF is_paired THEN NoAdv ELSE adv
  /\ UNCHANGED <<queueVars, connVars, state, modeVars, nearbyVars, reportVars, keyVars>>

paired_adv_enable_unpaired ==  \* mutant
  /\ is_paired_adv_paused' = FALSE
  /\ adv' = CASE ~limit_check -> NoAdv
              [] limit_check ->
                   AdvOnAir(IF state = "SEPARATED" THEN "separated" ELSE "nearby")
  /\ UNCHANGED <<queueVars, connVars, state, modeVars, nearbyVars, reportVars, keyVars>>

fmna_paired_adv_enable ==
  /\ is_paired_adv_paused' = FALSE
  /\ adv' = CASE ~is_paired -> adv
              [] is_paired /\ ~limit_check -> NoAdv
              [] is_paired /\ limit_check ->
                   AdvOnAir(IF state = "SEPARATED" THEN "separated" ELSE "nearby")
  /\ UNCHANGED <<queueVars, connVars, state, modeVars, nearbyVars, reportVars, keyVars>>

fmna_pairing_mode_cancel ==
  /\ state = "UNPAIRED"
  /\ pairing_mode' = FALSE
  /\ pairing_timer' = FALSE
  /\ adv' = NoAdv
  /\ UNCHANGED <<queueVars, connVars, state, is_paired_adv_paused, is_maintained,
                 unpair_pending, persistent_conn_adv, persistent_work, nearbyVars,
                 reportVars, keyVars>>

pairing_mode_untimed ==  \* mutant
  /\ state = "UNPAIRED"
  /\ pairing_mode' = TRUE
  /\ adv' = AdvOnAir("unpaired")
  /\ UNCHANGED <<queueVars, connVars, state, is_paired_adv_paused, is_maintained,
                 unpair_pending, persistent_conn_adv, persistent_work, pairing_timer,
                 nearbyVars, reportVars, keyVars>>

fmna_pairing_mode_enter ==
  /\ state = "UNPAIRED"
  /\ pairing_mode' = TRUE
  /\ pairing_timer' = TRUE
  /\ adv' = AdvOnAir("unpaired")
  /\ UNCHANGED <<queueVars, connVars, state, is_paired_adv_paused, is_maintained,
                 unpair_pending, persistent_conn_adv, persistent_work, nearbyVars,
                 reportVars, keyVars>>

=============================================================================
