----------------------------- MODULE AppNetworks -----------------------------
(***************************************************************************)
(* samples/switchable_networks: the two networks under the selector.  The  *)
(* Apple network (networks/apple/core.c) is the Find My stack of the other *)
(* modules, here only its pairing.  The Google network                     *)
(* (networks/google/core.c, fp_adv.c) is Fast Pair, whose account key      *)
(* starts the provisioning of the Find My Device network.                  *)
(*                                                                         *)
(* While nothing is selected both run, and the first connection selects.   *)
(***************************************************************************)
EXTENDS AppSelector

CONSTANT Conns  \* connection objects

Triggers == {"clock_sync", "fmdn_provisioning", "ui"}
NULL == "null"

ASSUME NetworksAssumption == NULL \notin Conns

VARIABLES
  pairing_data,               \* Flash, of the Find My stack
  account_key, provisioned,   \* Flash, of Fast Pair
  fmna_ready, paired, pairing_mode,
  fast_pair_ready,
  factory_reset_trigger, fp_account_key_present, rpa_rotation_suspended,
  first_cb_after_bootup,
  is_enabled,                 \* fp_adv is enabled, and has its advertising set
  fp_adv_mode, fp_adv_request_bm, fp_conn,
  restart_work,               \* fp_adv_restart_work is submitted
  on_air,                     \* The Fast Pair set advertises
  links                       \* Connections there are

appleData  == <<pairing_data>>
googleData == <<account_key, provisioned>>
appleVars  == <<fmna_ready, paired, pairing_mode>>
airVars    == <<on_air, fp_conn, links>>
advVars    == <<is_enabled, fp_adv_mode, fp_adv_request_bm, restart_work>>
coreVars   == <<fast_pair_ready, factory_reset_trigger, fp_account_key_present,
                rpa_rotation_suspended, first_cb_after_bootup>>
googleVars == <<coreVars, advVars, airVars>>
networkVars == <<appleData, googleData, appleVars, googleVars>>
vars == <<selectorVars, bootVars, reset_step, factory_reset_state, unreachable, boundVars,
          networkVars>>

TypeOK ==
  /\ SelectorTypeOK
  /\ pairing_data \in BOOLEAN /\ account_key \in BOOLEAN /\ provisioned \in BOOLEAN
  /\ fmna_ready \in BOOLEAN /\ paired \in BOOLEAN /\ pairing_mode \in BOOLEAN
  /\ fast_pair_ready \in BOOLEAN
  /\ factory_reset_trigger \in {"NONE", "KEY_STATE_MISMATCH", "PROVISIONING_TIMEOUT"}
  /\ fp_account_key_present \in BOOLEAN /\ rpa_rotation_suspended \in BOOLEAN
  /\ first_cb_after_bootup \in BOOLEAN /\ is_enabled \in BOOLEAN
  /\ fp_adv_mode \in {"OFF", "DISCOVERABLE", "NOT_DISCOVERABLE"}
  /\ fp_adv_request_bm \subseteq Triggers
  /\ fp_conn \in Conns \union {NULL} /\ links \subseteq Conns
  /\ restart_work \in BOOLEAN /\ on_air \in BOOLEAN

Init ==
  /\ SelectorInit
  /\ pairing_data = FALSE /\ account_key = FALSE /\ provisioned = FALSE
  /\ fmna_ready = FALSE /\ paired = FALSE /\ pairing_mode = FALSE
  /\ fast_pair_ready = FALSE /\ factory_reset_trigger = "NONE"
  /\ fp_account_key_present = FALSE /\ rpa_rotation_suspended = FALSE
  /\ first_cb_after_bootup = TRUE
  /\ is_enabled = FALSE /\ fp_adv_mode = "OFF" /\ fp_adv_request_bm = {}
  /\ fp_conn = NULL /\ restart_work = FALSE /\ on_air = FALSE /\ links = {}

(* The static variables after a reset of the device. *)
NetworksReboot ==
  /\ fmna_ready' = FALSE /\ paired' = FALSE /\ pairing_mode' = FALSE
  /\ fast_pair_ready' = FALSE /\ factory_reset_trigger' = "NONE"
  /\ fp_account_key_present' = FALSE /\ rpa_rotation_suspended' = FALSE
  /\ first_cb_after_bootup' = TRUE
  /\ is_enabled' = FALSE /\ fp_adv_mode' = "OFF" /\ fp_adv_request_bm' = {}
  /\ fp_conn' = NULL /\ restart_work' = FALSE /\ on_air' = FALSE /\ links' = {}

Reboot == SelectorReboot /\ NetworksReboot

(* The system workqueue is not inside a handler. *)
WorkqueueFree == phase \in {"launch", "running"} /\ reset_step = "none"
Alive == phase \in {"launch", "running"}
NotBoot == UNCHANGED <<selectorVars, bootVars, reset_step, unreachable, boundVars>>

-----------------------------------------------------------------------------
(* fp_adv.c: the Fast Pair advertising set. *)

set_unchecked(mode) ==  \* mutant
  on_air' = (is_enabled /\ mode # "OFF") /\ UNCHANGED <<fp_conn, links>>

(* The handler stops the set, waits for the controller and starts it       *)
(* again.  Under "late_connect" a connection that was made just before the *)
(* stop is reported while it waits, after it has looked at fp_conn.        *)
fp_advertising_update(mode) ==
  IF ~is_enabled \/ fp_conn # NULL
    THEN UNCHANGED airVars
    ELSE /\ on_air' = (mode # "OFF")
         /\ \/ UNCHANGED <<fp_conn, links>>
            \/ /\ "late_connect" \in Races /\ on_air /\ current_network.id = "GOOGLE"
               /\ \E c \in Conns \ links : fp_conn' = c /\ links' = links \union {c}

RequestedMode(requests, has_account_key) ==
  CASE requests = {} -> "OFF"
    [] requests # {} /\ has_account_key -> "NOT_DISCOVERABLE"
    [] OTHER -> "DISCOVERABLE"

(* Some calls of app_fp_adv_request, the state of the key being known.     *)
app_fp_adv_request(requests, has_account_key) ==
  /\ fp_adv_request_bm' = requests
  /\ LET mode == RequestedMode(requests, has_account_key) IN
       IF is_enabled /\ requests # fp_adv_request_bm /\ mode # fp_adv_mode
         THEN fp_adv_mode' = mode /\ fp_advertising_update(mode)
         ELSE UNCHANGED <<fp_adv_mode, airVars>>

(* The first connection of a device that is not selected decides, and the  *)
(* device reboots whether or not the decision could be saved.              *)
Select(network) ==
  /\ \/ settings' = Desc(network, FALSE) /\ Succeeds
     \/ UNCHANGED settings /\ Fails
  /\ Reboot /\ UNCHANGED <<appleData, googleData>>

fp_adv_connected ==
  /\ Alive /\ on_air
  /\ \/ current_network.id = "UNSELECTED" /\ Select("GOOGLE")
     \/ /\ current_network.id # "UNSELECTED"
        /\ \E c \in Conns \ links : fp_conn' = c /\ links' = links \union {c}
        /\ on_air' = FALSE  \* a connectable set ends with its connection
        /\ NotBoot
        /\ UNCHANGED <<factory_reset_state, appleData, googleData, appleVars, coreVars,
                       advVars>>

(* connected() with an error, of any set. *)
connection_failed ==
  /\ Alive /\ on_air
  /\ on_air' = FALSE /\ restart_work' = TRUE
  /\ NotBoot
  /\ UNCHANGED <<factory_reset_state, appleData, googleData, appleVars, coreVars, fp_conn,
                 links, is_enabled, fp_adv_mode, fp_adv_request_bm>>

disconnected(c) ==
  /\ c \in links
  /\ links' = links \ {c}
  /\ IF fp_conn = c THEN fp_conn' = NULL /\ restart_work' = TRUE
                    ELSE UNCHANGED <<fp_conn, restart_work>>
  /\ NotBoot
  /\ UNCHANGED <<factory_reset_state, appleData, googleData, appleVars, coreVars, on_air,
                 is_enabled, fp_adv_mode, fp_adv_request_bm>>

fp_adv_restart_work_handle ==
  /\ WorkqueueFree /\ restart_work
  /\ restart_work' = FALSE
  /\ fp_advertising_update(fp_adv_mode)
  /\ NotBoot
  /\ UNCHANGED <<factory_reset_state, appleData, googleData, appleVars, coreVars, is_enabled,
                 fp_adv_mode, fp_adv_request_bm>>

-----------------------------------------------------------------------------
(* google/core.c *)

FirstAccountKey == ~fp_account_key_present

(* The first account key starts the time for the provisioning. *)
fp_account_key_written ==
  /\ Alive /\ fast_pair_ready /\ fp_conn # NULL
  /\ account_key' = TRUE /\ fp_account_key_present' = TRUE
  /\ IF FirstAccountKey
       THEN /\ app_fp_adv_request(fp_adv_request_bm \union {"fmdn_provisioning"}, TRUE)
            /\ app_factory_reset_schedule
            /\ factory_reset_trigger' = "PROVISIONING_TIMEOUT"
            /\ rpa_rotation_suspended' = TRUE
       ELSE UNCHANGED <<fp_adv_request_bm, fp_adv_mode, airVars, factory_reset_state,
                        factory_reset_trigger, rpa_rotation_suspended>>
  /\ NotBoot
  /\ UNCHANGED <<provisioned, appleData, appleVars, fast_pair_ready, first_cb_after_bootup,
                 is_enabled, restart_work>>

timeout_kept(now_provisioned) == FALSE  \* mutant

TimeoutCancelled(now_provisioned) ==
  now_provisioned /\ factory_reset_trigger = "PROVISIONING_TIMEOUT"

key_lost(now_provisioned) == ~account_key /\ now_provisioned  \* mutant

KeyMismatch(now_provisioned) == account_key # now_provisioned

(* A key without the provisioning it belongs to, or the reverse, is reset  *)
(* after a delay; a pending reset is kept, under the new reason.           *)
fmdn_provisioning_state_changed(now_provisioned) ==
  LET state == IF TimeoutCancelled(now_provisioned) THEN CancelledState
               ELSE factory_reset_state
      requests == (IF first_cb_after_bootup /\ now_provisioned THEN {"clock_sync"} ELSE {})
                  \union (IF now_provisioned THEN {} ELSE {"ui"})
  IN /\ first_cb_after_bootup' = FALSE
     /\ fp_account_key_present' = account_key
     /\ rpa_rotation_suspended' =
          (rpa_rotation_suspended /\ ~TimeoutCancelled(now_provisioned))
     /\ IF KeyMismatch(now_provisioned)
          THEN /\ factory_reset_state' = IF state = "IDLE" THEN "PENDING" ELSE state
               /\ factory_reset_trigger' = "KEY_STATE_MISMATCH"
               /\ UNCHANGED <<fp_adv_request_bm, fp_adv_mode, airVars>>
          ELSE /\ factory_reset_state' = state
               /\ factory_reset_trigger' =
                    IF TimeoutCancelled(now_provisioned) THEN "NONE"
                    ELSE factory_reset_trigger
               /\ app_fp_adv_request(requests, account_key)

(* A peer with the account key provisions the device or takes it back. *)
Provision(now_provisioned) ==
  /\ Alive /\ fast_pair_ready /\ links # {} /\ account_key
  /\ provisioned = ~now_provisioned
  /\ provisioned' = now_provisioned
  /\ fmdn_provisioning_state_changed(now_provisioned)
  /\ NotBoot
  /\ UNCHANGED <<account_key, appleData, appleVars, fast_pair_ready, is_enabled, restart_work>>

fmdn_clock_synced ==
  /\ Alive /\ fast_pair_ready /\ links # {} /\ provisioned
  /\ "clock_sync" \in fp_adv_request_bm
  /\ app_fp_adv_request(fp_adv_request_bm \ {"clock_sync"}, account_key)
  /\ NotBoot
  /\ UNCHANGED <<factory_reset_state, appleData, googleData, appleVars, coreVars, is_enabled,
                 restart_work>>

(* The button of the advertising mode, in the user interface of Google.    *)
ui_advertising_mode_change ==
  /\ WorkqueueFree /\ is_enabled
  /\ app_fp_adv_request(IF "ui" \in fp_adv_request_bm THEN fp_adv_request_bm \ {"ui"}
                        ELSE fp_adv_request_bm \union {"ui"}, account_key)
  /\ NotBoot
  /\ UNCHANGED <<factory_reset_state, appleData, googleData, appleVars, coreVars, is_enabled,
                 restart_work>>

(* init_work_handle: bt_fast_pair_enable reports the provisioning state,   *)
(* then the advertising set is made and its mode set.                      *)
google_enable ==
  /\ fast_pair_ready' = TRUE /\ is_enabled' = TRUE
  /\ first_cb_after_bootup' = FALSE
  /\ fp_account_key_present' = account_key
  /\ LET mismatch == KeyMismatch(provisioned)
         requests == IF mismatch THEN {} ELSE IF provisioned THEN {"clock_sync"} ELSE {"ui"}
     IN /\ IF mismatch THEN /\ app_factory_reset_schedule
                            /\ factory_reset_trigger' = "KEY_STATE_MISMATCH"
                       ELSE UNCHANGED <<factory_reset_state, factory_reset_trigger>>
        /\ fp_adv_request_bm' = requests
        /\ fp_adv_mode' = RequestedMode(requests, account_key)
        /\ on_air' = (requests # {})

GoogleLaunch ==
  /\ phase = "launch" /\ reset_step = "none" /\ to_launch # <<>> /\ Head(to_launch) = "GOOGLE"
  /\ \/ /\ current_network.id # "UNSELECTED" \/ "reset_unselected" \in Races
        /\ factory_reset_perform  \* the button was held
        /\ UNCHANGED googleVars
     \/ /\ google_enable /\ Succeeds
        /\ to_launch' = Tail(to_launch) /\ phase' = "running"
        /\ UNCHANGED <<selectorVars, reset_step, unreachable, rpa_rotation_suspended, fp_conn,
                       links, restart_work>>
     \/ /\ Fails /\ Halt
        /\ UNCHANGED <<selectorVars, factory_reset_state, unreachable, googleVars>>
  /\ UNCHANGED <<appleData, googleData, appleVars>>

-----------------------------------------------------------------------------
(* apple/core.c *)

paired_state_changed(new_paired_state) ==
  /\ IF paired /\ ~new_paired_state THEN app_factory_reset_schedule
                                    ELSE UNCHANGED factory_reset_state
  /\ paired' = new_paired_state

AppleLaunch ==
  /\ phase = "launch" /\ reset_step = "none" /\ to_launch # <<>> /\ Head(to_launch) = "APPLE"
  /\ \/ /\ current_network.id # "UNSELECTED" \/ "reset_unselected" \in Races
        /\ factory_reset_perform  \* the button was held
        /\ UNCHANGED appleVars
     \/ /\ fmna_ready' = TRUE
        /\ paired_state_changed(pairing_data)
        /\ pairing_mode' = ~pairing_data  \* adv_resume_action_handle
        /\ to_launch' = Tail(to_launch)
        /\ phase' = IF Tail(to_launch) = <<>> THEN "running" ELSE "launch"
        /\ Succeeds /\ UNCHANGED <<selectorVars, reset_step, unreachable>>
     \/ /\ Fails /\ Halt
        /\ UNCHANGED <<selectorVars, factory_reset_state, unreachable, appleVars>>
  /\ UNCHANGED <<appleData, googleData, googleVars>>

apple_adv_connected ==
  /\ Alive /\ fmna_ready
  /\ pairing_mode \/ pairing_data
  /\ \/ current_network.id = "UNSELECTED" /\ Select("APPLE")
     \/ /\ current_network.id # "UNSELECTED"
        /\ \E c \in Conns \ links : links' = links \union {c}
        /\ NotBoot
        /\ UNCHANGED <<factory_reset_state, appleData, googleData, appleVars, coreVars,
                       advVars, on_air, fp_conn>>

(* The pairing of the Find My stack, and the removal by its owner: the     *)
(* data are stored or deleted, then the application is told.               *)
Pair(new_paired_state) ==
  /\ WorkqueueFree /\ fmna_ready /\ links # {}
  /\ pairing_data = ~new_paired_state
  /\ pairing_data' = new_paired_state
  /\ paired_state_changed(new_paired_state)
  /\ pairing_mode' = (pairing_mode /\ ~new_paired_state)
  /\ NotBoot /\ UNCHANGED <<googleData, fmna_ready, googleVars>>

pairing_mode_exited ==
  /\ WorkqueueFree /\ pairing_mode
  /\ pairing_mode' = FALSE
  /\ NotBoot
  /\ UNCHANGED <<factory_reset_state, appleData, googleData, fmna_ready, paired, googleVars>>

adv_resume_action_handle ==
  /\ WorkqueueFree /\ fmna_ready /\ current_network.id = "APPLE"
  /\ ~paired /\ ~pairing_mode
  /\ pairing_mode' = TRUE
  /\ NotBoot
  /\ UNCHANGED <<factory_reset_state, appleData, googleData, fmna_ready, paired, googleVars>>

-----------------------------------------------------------------------------
(* The factory_reset callback of the selected network, in factory_reset_run. *)

InReset(step) == reset_step = step /\ UNCHANGED <<factory_reset_state, unreachable>>
NextStep(step) == reset_step' = step /\ Succeeds /\ UNCHANGED <<selectorVars, bootVars>>
StepFails == Fails /\ Halt /\ UNCHANGED selectorVars

AppleStops ==  \* fmna_disable, if it is ready
  /\ fmna_ready' = FALSE /\ pairing_mode' = FALSE
  /\ links' = {}
  /\ UNCHANGED <<paired, coreVars, advVars, on_air, fp_conn>>

GoogleStops ==  \* fmdn_factory_reset_prepare, app_fp_adv_disable, bt_fast_pair_disable
  /\ fp_adv_request_bm' = {} /\ rpa_rotation_suspended' = FALSE
  /\ is_enabled' = FALSE /\ fp_adv_mode' = "OFF" /\ on_air' = FALSE
  /\ fast_pair_ready' = FALSE
  /\ UNCHANGED <<appleVars, factory_reset_trigger, fp_account_key_present,
                 first_cb_after_bootup, fp_conn, links, restart_work>>

StopNetwork ==
  /\ InReset("stop")
  /\ \/ /\ NextStep("wipe")
        /\ IF current_network.id = "APPLE" THEN AppleStops ELSE GoogleStops
     \/ StepFails /\ UNCHANGED <<appleVars, googleVars>>
  /\ UNCHANGED <<appleData, googleData>>

WipeNetwork ==  \* fmna_storage_pairing_data_delete or bt_fast_pair_factory_reset
  /\ InReset("wipe")
  /\ \/ /\ NextStep("id")
        /\ IF current_network.id = "APPLE"
             THEN pairing_data' = FALSE /\ UNCHANGED googleData
             ELSE account_key' = FALSE /\ provisioned' = FALSE /\ UNCHANGED appleData
     \/ StepFails /\ UNCHANGED <<appleData, googleData>>
  /\ UNCHANGED <<appleVars, googleVars>>

ResetIdentity ==  \* bt_id_reset
  /\ InReset("id")
  /\ NextStep("unselect") \/ StepFails
  /\ UNCHANGED networkVars

Unselect ==  \* reset_in_progress_set(false), factory_reset_reboot
  /\ reset_step = "unselect"
  /\ settings' = Desc("UNSELECTED", FALSE)
  /\ Reboot /\ Succeeds /\ UNCHANGED <<appleData, googleData>>

ResetStep ==
  \/ FlagReset /\ UNCHANGED networkVars
  \/ StopNetwork \/ WipeNetwork \/ ResetIdentity \/ Unselect
  \/ UnselectFails /\ UNCHANGED networkVars

-----------------------------------------------------------------------------
(* CONFIG_RESET_ON_FATAL_ERROR *)
Restart ==
  /\ phase = "halted"
  /\ Reboot /\ Succeeds /\ UNCHANGED <<settings, appleData, googleData>>

PowerLoss ==
  /\ phase # "off" /\ losses < MaxPowerLoss
  /\ losses' = losses + 1
  /\ Reboot /\ UNCHANGED <<faults, settings, appleData, googleData>>

Boot ==
  \/ (PowerOn \/ app_network_selector_init) /\ UNCHANGED networkVars
  \/ AppleLaunch \/ GoogleLaunch \/ ResetStep \/ Restart

ResetTimer == factory_reset_work_handle /\ UNCHANGED networkVars

Peers ==
  \/ fp_adv_connected \/ apple_adv_connected \/ connection_failed
  \/ \E c \in Conns : disconnected(c)
  \/ fp_account_key_written \/ fmdn_clock_synced
  \/ \E b \in BOOLEAN : Provision(b) \/ Pair(b)

Next ==
  \/ Boot \/ ResetTimer \/ Peers \/ fp_adv_restart_work_handle
  \/ ui_advertising_mode_change \/ pairing_mode_exited \/ adv_resume_action_handle
  \/ PowerLoss

(* The boot goes on, the reset that is scheduled becomes due, and the      *)
(* workqueue runs what was submitted to it.                                *)
Spec == Init /\ [][Next]_vars /\ WF_vars(Boot) /\ WF_vars(ResetTimer)

-----------------------------------------------------------------------------
(* Safety. *)

(* Pairing or provisioning data are in the flash only while the settings   *)
(* name their network: no reset, whatever interrupts it, hands them over.  *)
DataOfSelected ==
  /\ pairing_data => settings.id = "APPLE"
  /\ account_key \/ provisioned => settings.id = "GOOGLE"

(* A reset that was begun is not abandoned: with its flag in the flash the *)
(* device resets, restarts or is off, and launches no network.             *)
ResetNotAbandoned ==
  settings.reset_in_progress /\ Alive => reset_step # "none"

(* fp_adv.c: "Only one Fast Pair connection is supported."  The set is off *)
(* the air while it has its connection, and follows its mode without one.  *)
OneFastPairLink ==
  /\ on_air => fp_conn = NULL
  /\ is_enabled /\ fp_conn = NULL /\ ~restart_work => on_air = (fp_adv_mode # "OFF")

(* core.c: the device resets unless the provisioning follows the account   *)
(* key in time, and a provisioned device is not reset by that timeout.     *)
ProvisioningTimed ==
  fast_pair_ready =>
    /\ account_key # provisioned => factory_reset_state # "IDLE"
    /\ factory_reset_trigger = "PROVISIONING_TIMEOUT" => ~provisioned /\ rpa_rotation_suspended

(* The device with its selector, its two stacks and every interruption     *)
(* keeps the promise of NetworkChoice.                                     *)
Selection == IF settings = NoEntry THEN "UNSELECTED" ELSE settings.id
Data == (IF pairing_data THEN {"APPLE"} ELSE {})
        \union (IF account_key \/ provisioned THEN {"GOOGLE"} ELSE {})
Serving == (IF fmna_ready THEN {"APPLE"} ELSE {})
           \union (IF fast_pair_ready THEN {"GOOGLE"} ELSE {})

Choice == INSTANCE NetworkChoice WITH
  network   <- Selection,
  resetting <- settings.reset_in_progress,
  serving   <- Serving,
  data      <- Data

ImplementsChoice == Choice!Spec

(* factory_reset.c: "Should not reach." *)
ResetLeaves == ~unreachable

(* Liveness. *)

(* A reset that was begun ends in the unselected device, through every     *)
(* power loss and failure.                                                 *)
ResetCompletes ==
  (settings.reset_in_progress) ~> (settings = Desc("UNSELECTED", FALSE))

(* An account key without provisioning does not stay, also across a power  *)
(* loss, which forgets the timeout.                                        *)
HalfProvisionedEnds == (account_key /\ ~provisioned) ~> (~account_key \/ provisioned)

=============================================================================
