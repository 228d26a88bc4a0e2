-------------------------- MODULE AppNetworksProofs --------------------------
(***************************************************************************)
(* Safety of AppNetworks for every number of failing calls, power losses   *)
(* and connection objects, and with every order of events that Races can   *)
(* allow: a reset is never abandoned, no network's data outlive its        *)
(* selection, and the device implements NetworkChoice.                     *)
(***************************************************************************)
EXTENDS AppNetworks, TLAPS

-----------------------------------------------------------------------------
(* The selector.  The RAM copy is the settings from the launch on, a reset *)
(* under way has its flag stored, and nothing is launched under the flag.  *)

LaunchList ==
  \/ to_launch = <<>>
  \/ to_launch = <<"APPLE">> /\ current_network.id = "APPLE"
  \/ to_launch = <<"GOOGLE">> /\ current_network.id \in {"GOOGLE", "UNSELECTED"}
  \/ to_launch = <<"APPLE", "GOOGLE">> /\ current_network.id = "UNSELECTED"

SelectorInv ==
  /\ settings \in network_desc \union {NoEntry}
  /\ current_network \in network_desc
  /\ phase \in {"off", "selector_init", "launch", "running", "halted"}
  /\ reset_step \in {"none", "flag", "stop", "wipe", "id", "unselect"}
  /\ settings.reset_in_progress => settings.id \in Networks
  /\ phase = "selector_init" => settings \in {NoEntry, current_network}
  /\ Alive => settings = current_network
  /\ Alive /\ reset_step = "none" => ~settings.reset_in_progress
  /\ reset_step # "none" => /\ settings = current_network /\ settings.id \in Networks
                            /\ phase \in {"selector_init", "launch", "running"}
  /\ reset_step \in {"stop", "wipe", "id", "unselect"} => settings.reset_in_progress
  /\ ~Alive => to_launch = <<>>
  /\ LaunchList

bootState == <<selectorVars, bootVars, reset_step>>

LEMMA SelectorKept ==
  ASSUME SelectorInv, UNCHANGED bootState
  PROVE  SelectorInv'
BY DEF SelectorInv, bootState, selectorVars, bootVars, Alive, LaunchList

(* A device that is halted or has restarted keeps settings it may have. *)
LEMMA SelectorStopped ==
  ASSUME SelectorInv,
         settings' \in network_desc \union {NoEntry},
         settings'.reset_in_progress => settings'.id \in Networks,
         current_network' \in network_desc,
         phase' \in {"off", "halted"}, to_launch' = <<>>, reset_step' = "none"
  PROVE  SelectorInv'
BY DEF SelectorInv, Alive, LaunchList

LEMMA DescType ==
  /\ \A n \in Selections, b \in BOOLEAN :
       /\ Desc(n, b) \in network_desc
       /\ Desc(n, b).id = n /\ Desc(n, b).reset_in_progress = b
  /\ \A d \in network_desc : /\ d.id \in Selections /\ d.reset_in_progress \in BOOLEAN
                             /\ d = Desc(d.id, d.reset_in_progress)
  /\ NoEntry.reset_in_progress = FALSE /\ NoEntry.id = "none"
BY DEF Desc, network_desc, NoEntry

LEMMA LaunchTail ==
  ASSUME LaunchList, to_launch # <<>>
  PROVE  /\ Head(to_launch) \in Networks
         /\ Head(to_launch) = "APPLE" => current_network.id # "GOOGLE"
         /\ Head(to_launch) = "GOOGLE" => current_network.id # "APPLE" /\ Tail(to_launch) = <<>>
         /\ \/ Tail(to_launch) = <<>>
            \/ Tail(to_launch) = <<"GOOGLE">> /\ current_network.id = "UNSELECTED"
<1>1. CASE to_launch = <<"APPLE">> /\ current_network.id = "APPLE"
  <2>1. Head(<<"APPLE">>) = "APPLE"
    OBVIOUS
  <2>2. Tail(<<"APPLE">>) = <<>>
    OBVIOUS
  <2>. QED  BY <1>1, <2>1, <2>2, Zenon DEF Networks
<1>2. CASE to_launch = <<"GOOGLE">> /\ current_network.id \in {"GOOGLE", "UNSELECTED"}
  <2>1. Head(<<"GOOGLE">>) = "GOOGLE"
    OBVIOUS
  <2>2. Tail(<<"GOOGLE">>) = <<>>
    OBVIOUS
  <2>. QED  BY <1>2, <2>1, <2>2 DEF Networks
<1>3. CASE to_launch = <<"APPLE", "GOOGLE">> /\ current_network.id = "UNSELECTED"
  <2>1. Head(<<"APPLE", "GOOGLE">>) = "APPLE"
    OBVIOUS
  <2>2. Tail(<<"APPLE", "GOOGLE">>) = <<"GOOGLE">>
    OBVIOUS
  <2>. QED  BY <1>3, <2>1, <2>2, Zenon DEF Networks
<1>. QED  BY <1>1, <1>2, <1>3, Zenon DEF LaunchList

LEMMA SelectorReboots ==
  ASSUME SelectorInv, Reboot, settings' \in network_desc \union {NoEntry},
         settings'.reset_in_progress => settings'.id \in Networks
  PROVE  SelectorInv'
<1>1. Desc("UNSELECTED", FALSE) \in network_desc
  BY DescType DEF Selections
<1>. QED  BY <1>1, SelectorStopped DEF Reboot, SelectorReboot

LEMMA SelectorHalts ==
  ASSUME SelectorInv, Halt, UNCHANGED selectorVars
  PROVE  SelectorInv'
BY SelectorStopped DEF SelectorInv, Halt, selectorVars

LEMMA SelectorSelects ==
  ASSUME SelectorInv, NEW n \in Networks, Select(n)
  PROVE  SelectorInv'
BY DescType, SelectorReboots DEF Select, SelectorInv, Selections

(* What peers, buttons and the Bluetooth host do leaves the selector alone, *)
(* except for the connection that selects.                                 *)
LEMMA PeersKeepSelector ==
  ASSUME Peers
  PROVE  \/ UNCHANGED bootState
         \/ /\ Alive /\ current_network.id = "UNSELECTED"
            /\ \E n \in Networks : Select(n)
<1>1. CASE fp_adv_connected
  BY <1>1 DEF fp_adv_connected, NotBoot, bootState, Networks
<1>2. CASE apple_adv_connected
  BY <1>2 DEF apple_adv_connected, NotBoot, bootState, Networks
<1>3. CASE connection_failed
  BY <1>3 DEF connection_failed, NotBoot, bootState
<1>4. CASE \E c \in Conns : disconnected(c)
  BY <1>4 DEF disconnected, NotBoot, bootState
<1>5. CASE fp_account_key_written
  BY <1>5 DEF fp_account_key_written, NotBoot, bootState
<1>6. CASE fmdn_clock_synced
  BY <1>6 DEF fmdn_clock_synced, NotBoot, bootState
<1>7. CASE \E b \in BOOLEAN : Provision(b) \/ Pair(b)
  BY <1>7 DEF Provision, Pair, NotBoot, bootState
<1>. QED  BY <1>1, <1>2, <1>3, <1>4, <1>5, <1>6, <1>7 DEF Peers

LEMMA ButtonsKeepSelector ==
  ASSUME fp_adv_restart_work_handle \/ ui_advertising_mode_change \/ pairing_mode_exited
         \/ adv_resume_action_handle
  PROVE  UNCHANGED bootState
BY DEF fp_adv_restart_work_handle, ui_advertising_mode_change, pairing_mode_exited,
       adv_resume_action_handle, NotBoot, bootState

LEMMA SelectorPerforms ==
  ASSUME SelectorInv, Alive, reset_step = "none", factory_reset_perform
  PROVE  SelectorInv'
<1>1. CASE current_network.id # "UNSELECTED"
  <2>1. current_network.id \in Networks
    BY <1>1, DescType DEF SelectorInv, Selections
  <2>2. UNCHANGED <<settings, current_network, phase, to_launch>> /\ reset_step' = "flag"
    BY <1>1 DEF factory_reset_perform, factory_reset_run, selectorVars, bootVars
  <2>. QED  BY <2>1, <2>2 DEF SelectorInv, Alive, LaunchList
<1>2. CASE current_network.id = "UNSELECTED"
  <2>1. network_selector_set("UNSELECTED", FALSE) /\ Halt
    BY <1>2 DEF factory_reset_perform
  <2>2. Desc("UNSELECTED", FALSE) \in network_desc
        /\ Desc("UNSELECTED", FALSE).reset_in_progress = FALSE
    BY DescType DEF Selections
  <2>. QED  BY <2>1, <2>2, SelectorStopped DEF network_selector_set, Halt
<1>. QED  BY <1>1, <1>2

LEMMA SelectorFlags ==
  ASSUME SelectorInv, FlagReset
  PROVE  SelectorInv'
<1>1. CASE Halt /\ UNCHANGED selectorVars
  BY <1>1, SelectorHalts
<1>2. CASE reset_in_progress_set(TRUE) /\ reset_step' = "stop" /\ UNCHANGED bootVars
  <2>1. reset_step = "flag" /\ settings = current_network /\ settings.id \in Networks
        /\ phase \in {"selector_init", "launch", "running"}
    BY DEF FlagReset, SelectorInv
  <2>2. settings' = Desc(current_network.id, TRUE) /\ current_network' = settings'
    BY <1>2 DEF reset_in_progress_set, network_selector_set
  <2>3. settings' \in network_desc /\ settings'.id = current_network.id
        /\ settings'.reset_in_progress = TRUE
    BY <2>1, <2>2, DescType DEF Selections
  <2>. QED  BY <1>2, <2>1, <2>2, <2>3 DEF SelectorInv, Alive, LaunchList, bootVars
<1>. QED  BY <1>1, <1>2 DEF FlagReset

(* The steps between the two flags. *)
LEMMA SelectorResets ==
  ASSUME SelectorInv, StopNetwork \/ WipeNetwork \/ ResetIdentity
  PROVE  SelectorInv'
<1>1. CASE Halt /\ UNCHANGED selectorVars
  BY <1>1, SelectorHalts
<1>2. CASE /\ reset_step \in {"stop", "wipe", "id"}
           /\ \E step \in {"wipe", "id", "unselect"} : NextStep(step)
  BY <1>2 DEF NextStep, SelectorInv, Alive, LaunchList, selectorVars, bootVars
<1>. QED  BY <1>1, <1>2 DEF StopNetwork, WipeNetwork, ResetIdentity, InReset, StepFails

LEMMA SelectorInits ==
  ASSUME SelectorInv, app_network_selector_init
  PROVE  SelectorInv'
<1>. USE DEF app_network_selector_init
<1>0. phase = "selector_init" /\ reset_step = "none"
  OBVIOUS
<1>1. CASE /\ network_selector_set("UNSELECTED", FALSE)
           /\ app_network_selector_launch("UNSELECTED") /\ UNCHANGED reset_step
  <2>1. /\ Desc("UNSELECTED", FALSE) \in network_desc
        /\ Desc("UNSELECTED", FALSE).reset_in_progress = FALSE
        /\ Desc("UNSELECTED", FALSE).id = "UNSELECTED"
    BY DescType DEF Selections
  <2>2. /\ settings' = Desc("UNSELECTED", FALSE) /\ current_network' = settings'
        /\ phase' = "launch" /\ to_launch' = <<"APPLE", "GOOGLE">> /\ reset_step' = "none"
    BY <1>0, <1>1 DEF network_selector_set, app_network_selector_launch, Launched
  <2>. QED  BY <2>1, <2>2 DEF SelectorInv, Alive, LaunchList
<1>2. CASE Halt /\ UNCHANGED selectorVars
  BY <1>2, SelectorHalts
<1>3. CASE settings # NoEntry /\ Interrupted /\ factory_reset_run
           /\ UNCHANGED <<selectorVars, bootVars>>
  <2>1. settings = current_network /\ settings.id \in Networks
    BY <1>0, <1>3 DEF SelectorInv, Interrupted
  <2>2. UNCHANGED <<settings, current_network, phase, to_launch>> /\ reset_step' = "flag"
    BY <1>3 DEF factory_reset_run, selectorVars, bootVars
  <2>. QED  BY <1>0, <2>1, <2>2 DEF SelectorInv, Alive, LaunchList
<1>4. CASE settings # NoEntry /\ ~Interrupted
           /\ app_network_selector_launch(current_network.id)
           /\ UNCHANGED <<selectorVars, reset_step>>
  <2>1. settings = current_network /\ ~settings.reset_in_progress
        /\ current_network.id \in Selections
    BY <1>0, <1>4, DescType DEF SelectorInv, Interrupted
  <2>2. /\ UNCHANGED <<settings, current_network>> /\ reset_step' = "none"
        /\ phase' = "launch" /\ to_launch' = Launched(current_network.id)
    BY <1>0, <1>4 DEF selectorVars, app_network_selector_launch
  <2>3. LaunchList'
    BY <2>1, <2>2 DEF LaunchList, Launched, Selections, Networks
  <2>. QED  BY <2>1, <2>2, <2>3 DEF SelectorInv, Alive
<1>. QED  BY <1>1, <1>2, <1>3, <1>4

LEMMA SelectorLaunches ==
  ASSUME SelectorInv, AppleLaunch \/ GoogleLaunch
  PROVE  SelectorInv'
<1>0. phase = "launch" /\ reset_step = "none" /\ to_launch # <<>>
  BY DEF AppleLaunch, GoogleLaunch
<1>1. CASE factory_reset_perform
  BY <1>0, <1>1, SelectorPerforms DEF Alive
<1>2. CASE Halt /\ UNCHANGED selectorVars
  BY <1>2, SelectorHalts
<1>3. CASE /\ UNCHANGED <<selectorVars, reset_step>>
           /\ to_launch' = Tail(to_launch) /\ phase' \in {"launch", "running"}
  <2>1. LaunchList'
    BY <1>0, <1>3, LaunchTail DEF SelectorInv, LaunchList, selectorVars
  <2>. QED  BY <1>0, <1>3, <2>1 DEF SelectorInv, Alive, selectorVars
<1>. QED  BY <1>1, <1>2, <1>3 DEF AppleLaunch, GoogleLaunch

LEMMA SelectorStep ==
  ASSUME SelectorInv, [Next]_vars
  PROVE  SelectorInv'
<1>1. CASE UNCHANGED vars
  BY <1>1, SelectorKept DEF vars, bootState
<1>2. CASE PowerOn
  BY <1>2 DEF PowerOn, SelectorInv, Alive, LaunchList
<1>3. CASE app_network_selector_init
  BY <1>3, SelectorInits
<1>4. CASE AppleLaunch \/ GoogleLaunch
  BY <1>4, SelectorLaunches
<1>5. CASE FlagReset
  BY <1>5, SelectorFlags
<1>6. CASE StopNetwork \/ WipeNetwork \/ ResetIdentity
  BY <1>6, SelectorResets
<1>7. CASE Unselect
  BY <1>7, DescType, SelectorReboots DEF Unselect, Selections
<1>8. CASE UnselectFails
  BY <1>8, SelectorHalts DEF UnselectFails
<1>9. CASE Restart \/ PowerLoss
  BY <1>9, SelectorReboots DEF Restart, PowerLoss, SelectorInv
<1>10. CASE ResetTimer
  BY <1>10, SelectorPerforms DEF ResetTimer, factory_reset_work_handle, Alive
<1>11. CASE Peers
  BY <1>11, PeersKeepSelector, SelectorKept, SelectorSelects
<1>12. CASE fp_adv_restart_work_handle \/ ui_advertising_mode_change \/ pairing_mode_exited
            \/ adv_resume_action_handle
  BY <1>12, ButtonsKeepSelector, SelectorKept
<1>. QED  BY <1>1, <1>2, <1>3, <1>4, <1>5, <1>6, <1>7, <1>8, <1>9, <1>10, <1>11, <1>12
          DEF Next, Boot, ResetStep

LEMMA SelectorInvariant == Spec => []SelectorInv
<1>1. Init => SelectorInv
  BY DescType DEF Init, SelectorInit, SelectorInv, Alive, LaunchList, Selections
<1>. QED  BY <1>1, SelectorStep, PTL DEF Spec

(* A reset that was begun is not abandoned (app_network_selector_init in   *)
(* network_selector.c retries it before anything is launched), whatever    *)
(* fails and whenever the power is lost.                                   *)
THEOREM ResetsAreResumed == Spec => []ResetNotAbandoned
<1>1. SelectorInv => ResetNotAbandoned
  BY DEF SelectorInv, ResetNotAbandoned
<1>. QED  BY <1>1, SelectorInvariant, PTL

-----------------------------------------------------------------------------
(* The networks.  Only the selected one serves, an unselected device has no *)
(* connection, and a network is stopped before its data are erased.        *)

NetworkInv ==
  /\ phase \in {"off", "selector_init"} =>
       ~fmna_ready /\ ~fast_pair_ready /\ links = {} /\ fp_conn = NULL
  /\ phase # "halted" =>
       /\ fmna_ready => current_network.id # "GOOGLE"
       /\ fast_pair_ready => current_network.id # "APPLE"
       /\ links # {} \/ fp_conn # NULL => current_network.id # "UNSELECTED"
  /\ reset_step \in {"wipe", "id", "unselect"} => ~fmna_ready /\ ~fast_pair_ready

readyVars == <<fmna_ready, fast_pair_ready>>

LEMMA UpdateAir ==
  ASSUME NEW mode, fp_advertising_update(mode)
  PROVE  \/ UNCHANGED <<fp_conn, links>>
         \/ "late_connect" \in Races /\ current_network.id = "GOOGLE"
BY DEF fp_advertising_update, airVars

LEMMA RequestAir ==
  ASSUME NEW requests, NEW key, app_fp_adv_request(requests, key)
  PROVE  \/ UNCHANGED <<fp_conn, links>>
         \/ "late_connect" \in Races /\ current_network.id = "GOOGLE"
BY UpdateAir DEF app_fp_adv_request, airVars

(* New connections are made by a selected network only. *)
LEMMA NetworkLinks ==
  ASSUME SelectorInv, NetworkInv, UNCHANGED <<bootState, readyVars>>,
         \/ links' \subseteq links /\ fp_conn' \in {fp_conn, NULL}
         \/ Alive /\ current_network.id # "UNSELECTED"
  PROVE  NetworkInv'
BY DEF SelectorInv, NetworkInv, bootState, selectorVars, bootVars, readyVars, Alive

LEMMA NetworkUpdates ==
  ASSUME SelectorInv, NetworkInv, UNCHANGED <<bootState, readyVars>>, Alive,
         UNCHANGED <<fp_conn, links>> \/ current_network.id = "GOOGLE"
  PROVE  NetworkInv'
<1>1. CASE UNCHANGED <<fp_conn, links>>
  <2>1. links' \subseteq links /\ fp_conn' \in {fp_conn, NULL}
    BY <1>1
  <2>. QED  BY <2>1, NetworkLinks
<1>2. CASE current_network.id = "GOOGLE"
  <2>1. Alive /\ current_network.id # "UNSELECTED"
    BY <1>2
  <2>. QED  BY <2>1, NetworkLinks
<1>. QED  BY <1>1, <1>2

LEMMA NetworkReboots ==
  ASSUME Reboot
  PROVE  NetworkInv'
BY DEF Reboot, SelectorReboot, NetworksReboot, NetworkInv

LEMMA NetworkHalts ==
  ASSUME Halt
  PROVE  NetworkInv'
BY DEF Halt, NetworkInv

LEMMA NetworkPeers ==
  ASSUME SelectorInv, NetworkInv, Peers
  PROVE  NetworkInv'
<1>0. ASSUME NEW n, Select(n)
      PROVE  NetworkInv'
  BY <1>0, NetworkReboots DEF Select
<1>1. CASE fp_adv_connected
  <2>1. CASE UNCHANGED <<bootState, readyVars>> /\ Alive /\ current_network.id # "UNSELECTED"
    BY <2>1, NetworkLinks
  <2>. QED  BY <1>0, <1>1, <2>1
       DEF fp_adv_connected, NotBoot, bootState, readyVars, appleVars, coreVars
<1>2. CASE apple_adv_connected
  <2>1. CASE UNCHANGED <<bootState, readyVars>> /\ Alive /\ current_network.id # "UNSELECTED"
    BY <2>1, NetworkLinks
  <2>. QED  BY <1>0, <1>2, <2>1
       DEF apple_adv_connected, NotBoot, bootState, readyVars, appleVars, coreVars
<1>3. CASE connection_failed
  <2>1. UNCHANGED <<bootState, readyVars>> /\ Alive
    BY <1>3 DEF connection_failed, NotBoot, bootState, readyVars, appleVars, coreVars
  <2>2. UNCHANGED <<fp_conn, links>>
    BY <1>3 DEF connection_failed
  <2>. QED  BY <2>1, <2>2, NetworkUpdates
<1>4. ASSUME NEW c \in Conns, disconnected(c)
      PROVE  NetworkInv'
  <2>1. UNCHANGED <<bootState, readyVars>>
    BY <1>4 DEF disconnected, NotBoot, bootState, readyVars, appleVars, coreVars
  <2>2. links' \subseteq links /\ fp_conn' \in {fp_conn, NULL}
    BY <1>4 DEF disconnected
  <2>. QED  BY <2>1, <2>2, NetworkLinks
<1>5. CASE fp_account_key_written
  <2>1. UNCHANGED <<bootState, readyVars>> /\ Alive
    BY <1>5 DEF fp_account_key_written, NotBoot, bootState, readyVars, appleVars
  <2>2. UNCHANGED <<fp_conn, links>> \/ current_network.id = "GOOGLE"
    BY <1>5, RequestAir DEF fp_account_key_written, airVars
  <2>. QED  BY <2>1, <2>2, NetworkUpdates
<1>6. CASE fmdn_clock_synced
  <2>1. UNCHANGED <<bootState, readyVars>> /\ Alive
    BY <1>6 DEF fmdn_clock_synced, NotBoot, bootState, readyVars, appleVars, coreVars
  <2>2. UNCHANGED <<fp_conn, links>> \/ current_network.id = "GOOGLE"
    BY <1>6, RequestAir DEF fmdn_clock_synced
  <2>. QED  BY <2>1, <2>2, NetworkUpdates
<1>7. ASSUME NEW b \in BOOLEAN, Provision(b)
      PROVE  NetworkInv'
  <2>1. UNCHANGED <<bootState, readyVars>> /\ Alive
    BY <1>7 DEF Provision, NotBoot, bootState, readyVars, appleVars
  <2>2. UNCHANGED <<fp_conn, links>> \/ current_network.id = "GOOGLE"
    BY <1>7, RequestAir DEF Provision, fmdn_provisioning_state_changed, airVars
  <2>. QED  BY <2>1, <2>2, NetworkUpdates
<1>8. ASSUME NEW b \in BOOLEAN, Pair(b)
      PROVE  NetworkInv'
  <2>1. UNCHANGED <<bootState, readyVars>> /\ Alive
    BY <1>8 DEF Pair, WorkqueueFree, Alive, NotBoot, bootState, readyVars, googleVars, coreVars
  <2>2. UNCHANGED <<fp_conn, links>>
    BY <1>8 DEF Pair, googleVars, airVars
  <2>. QED  BY <2>1, <2>2, NetworkUpdates
<1>. QED  BY <1>1, <1>2, <1>3, <1>4, <1>5, <1>6, <1>7, <1>8 DEF Peers

LEMMA NetworkButtons ==
  ASSUME SelectorInv, NetworkInv,
         fp_adv_restart_work_handle \/ ui_advertising_mode_change \/ pairing_mode_exited
         \/ adv_resume_action_handle
  PROVE  NetworkInv'
<1>1. UNCHANGED <<bootState, readyVars>> /\ Alive
  BY ButtonsKeepSelector DEF fp_adv_restart_work_handle, ui_advertising_mode_change,
     pairing_mode_exited, adv_resume_action_handle, WorkqueueFree, Alive, readyVars,
     appleVars, googleVars, coreVars
<1>2. UNCHANGED <<fp_conn, links>> \/ current_network.id = "GOOGLE"
  BY UpdateAir, RequestAir DEF fp_adv_restart_work_handle, ui_advertising_mode_change,
     pairing_mode_exited, adv_resume_action_handle, googleVars, airVars
<1>. QED  BY <1>1, <1>2, NetworkUpdates

LEMMA NetworkLaunches ==
  ASSUME SelectorInv, NetworkInv, AppleLaunch \/ GoogleLaunch
  PROVE  NetworkInv'
<1>0. phase = "launch" /\ reset_step = "none" /\ to_launch # <<>>
      /\ current_network \in network_desc
  BY DEF AppleLaunch, GoogleLaunch, SelectorInv
<1>1. CASE Halt
  BY <1>1, NetworkHalts
<1>2. CASE /\ factory_reset_perform
           /\ UNCHANGED <<appleVars, googleVars>>
  BY <1>0, <1>2, NetworkHalts DEF factory_reset_perform, factory_reset_run, NetworkInv,
     selectorVars, bootVars, appleVars, googleVars, coreVars, airVars
<1>3. CASE /\ AppleLaunch /\ fmna_ready' = TRUE /\ phase' \in {"launch", "running"}
           /\ UNCHANGED <<selectorVars, reset_step, googleVars>>
  BY <1>0, <1>3, LaunchTail DEF AppleLaunch, SelectorInv, NetworkInv, selectorVars,
     googleVars, coreVars, airVars
<1>4. CASE /\ GoogleLaunch /\ fast_pair_ready' = TRUE /\ phase' = "running"
           /\ UNCHANGED <<selectorVars, reset_step, appleVars, fp_conn, links>>
  BY <1>0, <1>4, LaunchTail DEF GoogleLaunch, SelectorInv, NetworkInv, selectorVars,
     appleVars
<1>. QED  BY <1>1, <1>2, <1>3, <1>4 DEF AppleLaunch, GoogleLaunch, google_enable

LEMMA NetworkResets ==
  ASSUME SelectorInv, NetworkInv, StopNetwork \/ WipeNetwork \/ ResetIdentity
  PROVE  NetworkInv'
<1>0. reset_step # "none" /\ phase # "halted" /\ current_network.id \in Networks
  BY DEF StopNetwork, WipeNetwork, ResetIdentity, InReset, SelectorInv
<1>1. CASE Halt
  BY <1>1, NetworkHalts
<1>2. CASE StopNetwork /\ NextStep("wipe")
  <2>1. UNCHANGED <<phase, current_network>> /\ reset_step' = "wipe"
    BY <1>2 DEF NextStep, selectorVars, bootVars
  <2>2. /\ ~fmna_ready' /\ ~fast_pair_ready'
        /\ links' \subseteq links /\ fp_conn' = fp_conn
    BY <1>0, <1>2 DEF StopNetwork, StepFails, Halt, NextStep, NetworkInv, Networks, AppleStops,
       GoogleStops, appleVars, coreVars, bootVars
  <2>. QED  BY <1>0, <2>1, <2>2 DEF NetworkInv
<1>3. CASE /\ reset_step \in {"wipe", "id"} /\ \E step \in {"id", "unselect"} : NextStep(step)
           /\ UNCHANGED <<appleVars, googleVars>>
  BY <1>3 DEF NextStep, NetworkInv, selectorVars, bootVars, appleVars, googleVars, coreVars,
     airVars
<1>. QED  BY <1>1, <1>2, <1>3
     DEF StopNetwork, WipeNetwork, ResetIdentity, InReset, StepFails, networkVars

(* The boot and the calls of a reset change nothing of the networks. *)
LEMMA NetworkIdles ==
  ASSUME SelectorInv, NetworkInv, UNCHANGED networkVars,
         PowerOn \/ app_network_selector_init \/ FlagReset \/ UnselectFails
         \/ factory_reset_work_handle
  PROVE  NetworkInv'
<1>0. UNCHANGED <<fmna_ready, fast_pair_ready, fp_conn, links>>
  BY DEF networkVars, appleVars, googleVars, coreVars, airVars
<1>1. CASE Halt
  BY <1>1, NetworkHalts
<1>2. CASE PowerOn
  BY <1>0, <1>2 DEF PowerOn, NetworkInv, SelectorInv
<1>3. CASE app_network_selector_init
  <2>1. phase = "selector_init" /\ (reset_step' \in {"none", "flag"} \/ Halt)
    BY <1>3 DEF app_network_selector_init, factory_reset_run
  <2>. QED  BY <1>0, <1>1, <2>1 DEF NetworkInv
<1>4. CASE FlagReset /\ ~Halt
  <2>1. reset_step' = "stop" /\ UNCHANGED phase /\ current_network.id \in Networks
    BY <1>4 DEF FlagReset, SelectorInv, bootVars
  <2>2. current_network'.id = current_network.id
    BY <1>4, <2>1, DescType
       DEF FlagReset, reset_in_progress_set, network_selector_set, Selections
  <2>. QED  BY <1>0, <2>1, <2>2 DEF NetworkInv
<1>5. CASE factory_reset_work_handle
  <2>1. CASE current_network.id # "UNSELECTED"
    BY <1>0, <1>5, <2>1 DEF factory_reset_work_handle, factory_reset_perform,
       factory_reset_run, NetworkInv, selectorVars, bootVars
  <2>2. CASE Halt
    BY <2>2, NetworkHalts
  <2>. QED  BY <1>5, <2>1, <2>2 DEF factory_reset_work_handle, factory_reset_perform
<1>. QED  BY <1>1, <1>2, <1>3, <1>4, <1>5 DEF UnselectFails

LEMMA NetworkStep ==
  ASSUME SelectorInv, NetworkInv, [Next]_vars
  PROVE  NetworkInv'
<1>1. CASE UNCHANGED vars
  BY <1>1 DEF vars, NetworkInv, selectorVars, bootVars, networkVars, appleVars, googleVars,
     coreVars, airVars
<1>2. CASE UNCHANGED networkVars /\
           (PowerOn \/ app_network_selector_init \/ FlagReset \/ UnselectFails
            \/ factory_reset_work_handle)
  BY <1>2, NetworkIdles
<1>3. CASE AppleLaunch \/ GoogleLaunch
  BY <1>3, NetworkLaunches
<1>4. CASE StopNetwork \/ WipeNetwork \/ ResetIdentity
  BY <1>4, NetworkResets
<1>5. CASE Unselect \/ Restart \/ PowerLoss
  BY <1>5, NetworkReboots DEF Unselect, Restart, PowerLoss
<1>6. CASE Peers
  BY <1>6, NetworkPeers
<1>7. CASE fp_adv_restart_work_handle \/ ui_advertising_mode_change \/ pairing_mode_exited
           \/ adv_resume_action_handle
  BY <1>7, NetworkButtons
<1>. QED  BY <1>1, <1>2, <1>3, <1>4, <1>5, <1>6, <1>7 DEF Next, Boot, ResetStep, ResetTimer

LEMMA NetworkInvariant == Spec => [](SelectorInv /\ NetworkInv)
<1>1. Init => NetworkInv
  BY DEF Init, SelectorInit, NetworkInv
<1>. QED  BY <1>1, SelectorInvariant, NetworkStep, PTL DEF Spec

-----------------------------------------------------------------------------
(* The data.  They are gone when the settings are about to be. *)

NoData == ~pairing_data /\ ~account_key /\ ~provisioned

DataInv ==
  /\ DataOfSelected
  /\ reset_step \in {"id", "unselect"} => NoData

dataVars == <<appleData, googleData>>

(* Data that do not change need a selection that does not, or are none. *)
LEMMA DataKept ==
  ASSUME DataInv, UNCHANGED dataVars,
         settings'.id = settings.id \/ NoData,
         reset_step' \in {"id", "unselect"} => reset_step \in {"id", "unselect"}
  PROVE  DataInv'
BY DEF DataInv, DataOfSelected, NoData, dataVars, appleData, googleData

(* Data of no network are there while none is selected. *)
LEMMA UnselectedNoData ==
  ASSUME DataInv, settings.id \notin Networks
  PROVE  NoData
BY DEF DataInv, DataOfSelected, NoData, Networks

LEMMA DataPeers ==
  ASSUME SelectorInv, NetworkInv, DataInv, Peers
  PROVE  DataInv'
<1>0. ASSUME NEW n \in Networks, Select(n), Alive, current_network.id = "UNSELECTED"
      PROVE  DataInv'
  <2>1. settings.id \notin Networks
    BY <1>0 DEF SelectorInv, Networks
  <2>2. UNCHANGED dataVars /\ reset_step' = "none"
    BY <1>0 DEF Select, Reboot, SelectorReboot, dataVars
  <2>. QED  BY <2>1, <2>2, UnselectedNoData, DataKept
<1>1. ASSUME UNCHANGED bootState, UNCHANGED dataVars
      PROVE  DataInv'
  <2>1. UNCHANGED <<settings, reset_step>>
    BY <1>1 DEF bootState, selectorVars
  <2>. QED  BY <1>1, <2>1, DataKept
<1>2. CASE fp_adv_connected \/ apple_adv_connected \/ connection_failed
           \/ (\E c \in Conns : disconnected(c)) \/ fmdn_clock_synced
  <2>1. UNCHANGED dataVars
    BY <1>2 DEF fp_adv_connected, apple_adv_connected, connection_failed, disconnected,
       fmdn_clock_synced, Select, dataVars
  <2>. QED  BY <1>0, <1>1, <2>1, PeersKeepSelector
<1>3. CASE fp_account_key_written \/ \E b \in BOOLEAN : Provision(b)
  <2>1. /\ Alive /\ fast_pair_ready /\ (links # {} \/ fp_conn # NULL)
        /\ UNCHANGED <<bootState, pairing_data>>
    BY <1>3 DEF fp_account_key_written, Provision, NotBoot, bootState, appleData
  <2>2. settings.id = "GOOGLE" /\ reset_step \notin {"id", "unselect"}
    BY <2>1, DescType DEF SelectorInv, NetworkInv, Alive, Selections, Networks
  <2>3. UNCHANGED <<settings, reset_step, pairing_data>>
    BY <2>1 DEF bootState, selectorVars
  <2>. QED  BY <2>2, <2>3 DEF DataInv, DataOfSelected, NoData
<1>4. ASSUME NEW b \in BOOLEAN, Pair(b)
      PROVE  DataInv'
  <2>1. /\ WorkqueueFree /\ fmna_ready /\ links # {}
        /\ UNCHANGED <<bootState, account_key, provisioned>>
    BY <1>4 DEF Pair, NotBoot, bootState, googleData
  <2>2. settings.id = "APPLE" /\ reset_step \notin {"id", "unselect"}
    BY <2>1, DescType DEF SelectorInv, NetworkInv, WorkqueueFree, Alive, Selections, Networks
  <2>3. UNCHANGED <<settings, reset_step, account_key, provisioned>>
    BY <2>1 DEF bootState, selectorVars
  <2>. QED  BY <2>2, <2>3 DEF DataInv, DataOfSelected, NoData
<1>. QED  BY <1>2, <1>3, <1>4 DEF Peers

LEMMA DataStep ==
  ASSUME SelectorInv, NetworkInv, DataInv, [Next]_vars
  PROVE  DataInv'
<1>0. ASSUME UNCHANGED <<dataVars, settings>>,
             reset_step' \in {"id", "unselect"} => reset_step \in {"id", "unselect"}
      PROVE  DataInv'
  BY <1>0, DataKept
<1>1. CASE UNCHANGED vars
  BY <1>0, <1>1 DEF vars, selectorVars, networkVars, dataVars
<1>2. CASE PowerOn /\ UNCHANGED networkVars
  BY <1>0, <1>2 DEF PowerOn, networkVars, dataVars
<1>3. CASE app_network_selector_init /\ UNCHANGED networkVars
  <2>1. settings'.id = settings.id \/ settings.id \notin Networks
    BY <1>3, DescType DEF app_network_selector_init, Networks, selectorVars
  <2>2. reset_step' \notin {"id", "unselect"} /\ UNCHANGED dataVars
    BY <1>3 DEF app_network_selector_init, factory_reset_run, Halt, networkVars, dataVars
  <2>. QED  BY <2>1, <2>2, DataKept, UnselectedNoData
<1>4. ASSUME factory_reset_perform, Alive, UNCHANGED dataVars
      PROVE  DataInv'
  <2>1. settings'.id = settings.id \/ settings.id \notin Networks
    BY <1>4, DescType DEF factory_reset_perform, SelectorInv, Networks, selectorVars
  <2>2. reset_step' \notin {"id", "unselect"}
    BY <1>4 DEF factory_reset_perform, factory_reset_run, Halt
  <2>. QED  BY <1>4, <2>1, <2>2, DataKept, UnselectedNoData
<1>5. CASE AppleLaunch \/ GoogleLaunch
  <2>1. Alive /\ reset_step = "none" /\ UNCHANGED dataVars
    BY <1>5 DEF AppleLaunch, GoogleLaunch, Alive, dataVars
  <2>2. factory_reset_perform \/ (UNCHANGED settings /\ reset_step' = "none")
    BY <1>5, <2>1 DEF AppleLaunch, GoogleLaunch, Halt, selectorVars
  <2>3. CASE UNCHANGED settings /\ reset_step' = "none"
    BY <1>0, <2>1, <2>3
  <2>. QED  BY <1>4, <2>1, <2>2, <2>3
<1>6. CASE ResetTimer
  BY <1>4, <1>6 DEF ResetTimer, factory_reset_work_handle, Alive, networkVars, dataVars
<1>7. CASE FlagReset /\ UNCHANGED networkVars
  <2>1. settings'.id = settings.id
    <3>1. settings = current_network /\ current_network.id \in Selections
      BY <1>7, DescType DEF FlagReset, SelectorInv
    <3>2. settings' \in {settings, Desc(current_network.id, TRUE)}
      BY <1>7 DEF FlagReset, reset_in_progress_set, network_selector_set, selectorVars
    <3>. QED  BY <3>1, <3>2, DescType
  <2>2. reset_step' \notin {"id", "unselect"} /\ UNCHANGED dataVars
    BY <1>7 DEF FlagReset, Halt, networkVars, dataVars
  <2>. QED  BY <2>1, <2>2, DataKept
<1>8. CASE StopNetwork \/ ResetIdentity
  BY <1>0, <1>8 DEF StopNetwork, ResetIdentity, InReset, NextStep, StepFails, Halt,
     selectorVars, networkVars, dataVars
<1>9. CASE WipeNetwork
  <2>1. reset_step = "wipe" /\ settings = current_network /\ UNCHANGED settings
        /\ settings.id \in Networks
    BY <1>9 DEF WipeNetwork, InReset, NextStep, StepFails, selectorVars, SelectorInv
  <2>2. CASE NextStep("id")
    BY <1>9, <2>1, <2>2 DEF WipeNetwork, NextStep, StepFails, Halt, bootVars, DataInv,
       DataOfSelected, NoData, Networks, appleData, googleData
  <2>3. CASE StepFails /\ UNCHANGED dataVars
    BY <1>0, <2>1, <2>3 DEF StepFails, Halt
  <2>. QED  BY <1>9, <2>2, <2>3 DEF WipeNetwork, dataVars
<1>10. CASE Unselect
  BY <1>10, DataKept DEF Unselect, Reboot, SelectorReboot, DataInv, dataVars
<1>11. CASE UnselectFails /\ UNCHANGED networkVars
  BY <1>0, <1>11 DEF UnselectFails, Halt, selectorVars, networkVars, dataVars
<1>12. CASE Restart \/ PowerLoss
  BY <1>0, <1>12 DEF Restart, PowerLoss, Reboot, SelectorReboot, dataVars
<1>13. CASE Peers
  BY <1>13, DataPeers
<1>14. CASE fp_adv_restart_work_handle \/ ui_advertising_mode_change \/ pairing_mode_exited
            \/ adv_resume_action_handle
  <2>1. UNCHANGED dataVars
    BY <1>14 DEF fp_adv_restart_work_handle, ui_advertising_mode_change, pairing_mode_exited,
       adv_resume_action_handle, dataVars
  <2>2. UNCHANGED <<settings, reset_step>>
    BY <1>14, ButtonsKeepSelector DEF bootState, selectorVars
  <2>. QED  BY <1>0, <2>1, <2>2
<1>. QED  BY <1>1, <1>2, <1>3, <1>5, <1>6, <1>7, <1>8, <1>9, <1>10, <1>11, <1>12, <1>13, <1>14
          DEF Next, Boot, ResetStep

AppInv == SelectorInv /\ NetworkInv /\ DataInv

LEMMA AppInvariant == Spec => []AppInv
<1>1. Init => DataInv
  BY DEF Init, SelectorInit, DataInv, DataOfSelected
<1>. QED  BY <1>1, NetworkInvariant, DataStep, PTL DEF Spec, AppInv

(* Pairing or provisioning data are in the flash only while the settings   *)
(* name their network: no reset, failure or power loss hands them over.    *)
THEOREM DataBelongToSelection == Spec => []DataOfSelected
<1>1. AppInv => DataOfSelected
  BY DEF AppInv, DataInv
<1>. QED  BY <1>1, AppInvariant, PTL

-----------------------------------------------------------------------------
(* The refinement.  The mapped state is the stored selection and flag, the *)
(* stacks that are ready and the data; most steps leave it alone.          *)

flashVars == <<settings, dataVars>>

LEMMA Stutters ==
  ASSUME Selection' = Selection, UNCHANGED settings.reset_in_progress,
         UNCHANGED <<readyVars, dataVars>>
  PROVE  UNCHANGED Choice!vars
BY DEF Choice!vars, Serving, Data, readyVars, dataVars, appleData, googleData

LEMMA KeepsSettings ==
  ASSUME UNCHANGED <<settings, readyVars, dataVars>>
  PROVE  UNCHANGED Choice!vars
BY Stutters DEF Selection, readyVars, dataVars

LEMMA StopsServing ==
  ASSUME UNCHANGED flashVars, ~fmna_ready', ~fast_pair_ready'
  PROVE  Choice!StopServing
BY DEF Choice!StopServing, Selection, Serving, Data, flashVars, dataVars, appleData, googleData

LEMMA RebootStops ==
  ASSUME Reboot, UNCHANGED flashVars
  PROVE  Choice!StopServing
BY StopsServing DEF Reboot, NetworksReboot

(* A selected device has an entry, which names its network. *)
LEMMA SelectionOfAlive ==
  ASSUME SelectorInv, Alive \/ reset_step # "none"
  PROVE  /\ Selection = settings.id /\ settings = current_network
         /\ settings.id \in Selections /\ settings.reset_in_progress \in BOOLEAN
         /\ settings.reset_in_progress => settings.id \in Networks
BY DescType DEF Selection, SelectorInv, Selections, Networks

LEMMA SelectionOfDesc ==
  \A n \in Selections, b \in BOOLEAN :
    settings' = Desc(n, b) => Selection' = n /\ settings'.reset_in_progress = b
<1>1. \A n \in Selections, b \in BOOLEAN :
        Desc(n, b).id = n /\ Desc(n, b).reset_in_progress = b /\ Desc(n, b) # NoEntry
  BY DescType DEF Selections, Networks
<1>. QED  BY <1>1 DEF Selection

LEMMA PerformMaps ==
  ASSUME SelectorInv, Alive, factory_reset_perform, UNCHANGED <<readyVars, dataVars>>
  PROVE  UNCHANGED Choice!vars
<1>1. CASE current_network.id # "UNSELECTED"
  BY <1>1, KeepsSettings DEF factory_reset_perform, selectorVars, readyVars, dataVars
<1>2. CASE current_network.id = "UNSELECTED"
  <2>1. settings' = Desc("UNSELECTED", FALSE)
    BY <1>2 DEF factory_reset_perform, network_selector_set
  <2>2. Selection = "UNSELECTED" /\ settings.reset_in_progress = FALSE
    BY <1>2, SelectionOfAlive DEF Networks
  <2>3. Selection' = "UNSELECTED" /\ settings'.reset_in_progress = FALSE
    BY <2>1, SelectionOfDesc DEF Selections
  <2>. QED  BY <2>2, <2>3, Stutters
<1>. QED  BY <1>1, <1>2

LEMMA SelectMaps ==
  ASSUME SelectorInv, NEW n \in Networks, Select(n), Alive, current_network.id = "UNSELECTED"
  PROVE  Choice!Choose(n) \/ Choice!StopServing
<1>1. CASE UNCHANGED settings
  BY <1>1, RebootStops DEF Select, flashVars, dataVars
<1>2. CASE settings' = Desc(n, FALSE)
  <2>1. Selection = "UNSELECTED" /\ settings.reset_in_progress = FALSE
    BY SelectionOfAlive DEF Networks
  <2>2. Selection' = n /\ settings'.reset_in_progress = FALSE
    BY <1>2, SelectionOfDesc DEF Selections
  <2>3. UNCHANGED dataVars /\ ~fmna_ready' /\ ~fast_pair_ready'
    BY DEF Select, Reboot, NetworksReboot, dataVars
  <2>. QED  BY <2>1, <2>2, <2>3
       DEF Choice!Choose, Serving, Data, dataVars, appleData, googleData
<1>. QED  BY <1>1, <1>2 DEF Select

LEMMA PeersMap ==
  ASSUME AppInv, Peers
  PROVE  [Choice!Next]_Choice!vars
<1>. USE DEF AppInv
<1>0. ASSUME UNCHANGED bootState, UNCHANGED <<readyVars, dataVars>>
      PROVE  UNCHANGED Choice!vars
  BY <1>0, KeepsSettings DEF bootState, selectorVars, readyVars, dataVars
<1>1. CASE fp_adv_connected \/ apple_adv_connected
  <2>1. CASE NotBoot /\ UNCHANGED <<appleData, googleData, appleVars, coreVars>>
    BY <1>0, <2>1 DEF NotBoot, bootState, readyVars, dataVars, appleVars, coreVars
  <2>2. CASE \E n \in Networks : Select(n) /\ Alive /\ current_network.id = "UNSELECTED"
    BY <2>2, SelectMaps DEF Choice!Next
  <2>. QED  BY <1>1, <2>1, <2>2 DEF fp_adv_connected, apple_adv_connected, Networks
<1>2. CASE connection_failed \/ fmdn_clock_synced \/ \E c \in Conns : disconnected(c)
  BY <1>0, <1>2 DEF connection_failed, fmdn_clock_synced, disconnected, NotBoot, bootState,
     readyVars, dataVars, appleVars, coreVars
<1>3. CASE fp_account_key_written \/ \E b \in BOOLEAN : Provision(b)
  <2>1. /\ Alive /\ fast_pair_ready /\ (links # {} \/ fp_conn # NULL)
        /\ UNCHANGED <<bootState, readyVars, pairing_data>>
    BY <1>3 DEF fp_account_key_written, Provision, NotBoot, bootState, readyVars, appleVars,
       appleData
  <2>2. Selection = "GOOGLE" /\ ~pairing_data
    BY <2>1, SelectionOfAlive DEF NetworkInv, Alive, Selections, Networks, DataInv,
       DataOfSelected
  <2>3. UNCHANGED <<settings, fmna_ready, fast_pair_ready, pairing_data>>
    BY <2>1 DEF bootState, selectorVars, readyVars
  <2>4. Selection' = Selection /\ Serving' = Serving /\ "GOOGLE" \in Serving
        /\ Data' \in {{}, {"GOOGLE"}} /\ UNCHANGED settings.reset_in_progress
    BY <2>1, <2>2, <2>3 DEF Selection, Serving, Data
  <2>. QED  BY <2>2, <2>4 DEF Choice!Next, Choice!ChangeData, Networks
<1>4. ASSUME NEW b \in BOOLEAN, Pair(b)
      PROVE  Choice!Next
  <2>1. /\ Alive /\ fmna_ready /\ links # {}
        /\ UNCHANGED <<bootState, readyVars, account_key, provisioned>>
    BY <1>4 DEF Pair, WorkqueueFree, Alive, NotBoot, bootState, readyVars, googleVars,
       coreVars, googleData
  <2>2. Selection = "APPLE" /\ ~account_key /\ ~provisioned
    BY <2>1, SelectionOfAlive DEF NetworkInv, Alive, Selections, Networks, DataInv,
       DataOfSelected
  <2>3. UNCHANGED <<settings, fmna_ready, fast_pair_ready, account_key, provisioned>>
    BY <2>1 DEF bootState, selectorVars, readyVars
  <2>4. Selection' = Selection /\ Serving' = Serving /\ "APPLE" \in Serving
        /\ Data' \in {{}, {"APPLE"}} /\ UNCHANGED settings.reset_in_progress
    BY <2>1, <2>2, <2>3 DEF Selection, Serving, Data
  <2>. QED  BY <2>2, <2>4 DEF Choice!Next, Choice!ChangeData, Networks
<1>. QED  BY <1>1, <1>2, <1>3, <1>4 DEF Peers

LEMMA LaunchMaps ==
  ASSUME AppInv, AppleLaunch \/ GoogleLaunch
  PROVE  [Choice!Next]_Choice!vars
<1>. USE DEF AppInv
<1>0. /\ phase = "launch" /\ Alive /\ reset_step = "none" /\ to_launch # <<>>
      /\ UNCHANGED dataVars
  BY DEF AppleLaunch, GoogleLaunch, Alive, dataVars
<1>1. Selection = current_network.id /\ current_network.id \in Selections
      /\ settings.reset_in_progress = FALSE
  BY <1>0, SelectionOfAlive DEF SelectorInv
<1>2. CASE factory_reset_perform /\ UNCHANGED <<appleVars, googleVars>>
  BY <1>0, <1>2, PerformMaps DEF readyVars, appleVars, googleVars, coreVars
<1>3. CASE UNCHANGED <<selectorVars, appleVars, googleVars>>
  BY <1>0, <1>3, KeepsSettings
     DEF selectorVars, readyVars, appleVars, googleVars, coreVars, dataVars
<1>4. CASE AppleLaunch /\ fmna_ready' = TRUE /\ UNCHANGED selectorVars
  <2>1. Selection \in {"APPLE", "UNSELECTED"}
    BY <1>0, <1>1, <1>4, LaunchTail DEF AppleLaunch, SelectorInv, Selections, Networks
  <2>2. UNCHANGED <<settings, dataVars, fast_pair_ready>>
    BY <1>0, <1>4 DEF AppleLaunch, selectorVars, googleVars, coreVars
  <2>3. Serving' = Serving \union {"APPLE"} /\ Data' = Data /\ Selection' = Selection
    BY <1>4, <2>2 DEF Serving, Data, Selection, dataVars, appleData, googleData
  <2>. QED  BY <1>1, <2>1, <2>2, <2>3 DEF Choice!Next, Choice!Serve, Networks
<1>5. CASE GoogleLaunch /\ fast_pair_ready' = TRUE /\ UNCHANGED selectorVars
  <2>1. Selection \in {"GOOGLE", "UNSELECTED"}
    BY <1>0, <1>1, <1>5, LaunchTail DEF GoogleLaunch, SelectorInv, Selections, Networks
  <2>2. UNCHANGED <<settings, dataVars, fmna_ready>>
    BY <1>0, <1>5 DEF GoogleLaunch, selectorVars, appleVars
  <2>3. Serving' = Serving \union {"GOOGLE"} /\ Data' = Data /\ Selection' = Selection
    BY <1>5, <2>2 DEF Serving, Data, Selection, dataVars, appleData, googleData
  <2>. QED  BY <1>1, <2>1, <2>2, <2>3 DEF Choice!Next, Choice!Serve, Networks
<1>. QED  BY <1>2, <1>3, <1>4, <1>5 DEF AppleLaunch, GoogleLaunch, google_enable

LEMMA ResetMaps ==
  ASSUME AppInv, StopNetwork \/ WipeNetwork \/ ResetIdentity \/ Unselect
  PROVE  [Choice!Next]_Choice!vars
<1>. USE DEF AppInv
<1>0. /\ reset_step # "none" /\ Selection = settings.id /\ settings = current_network
      /\ settings.id \in Networks
  BY SelectionOfAlive DEF StopNetwork, WipeNetwork, ResetIdentity, Unselect, InReset, SelectorInv
<1>1. CASE StopNetwork
  <2>1. CASE NextStep("wipe")
    <3>1. UNCHANGED flashVars
      BY <1>1, <2>1 DEF StopNetwork, NextStep, selectorVars, flashVars, dataVars
    <3>2. ~fmna_ready' /\ ~fast_pair_ready'
      BY <1>0, <1>1, <2>1 DEF StopNetwork, InReset, NextStep, StepFails, Halt, SelectorInv,
         NetworkInv, Networks, AppleStops, GoogleStops, appleVars, coreVars, bootVars
    <3>. QED  BY <3>1, <3>2, StopsServing DEF Choice!Next
  <2>2. CASE StepFails /\ UNCHANGED <<appleVars, googleVars>>
    BY <1>1, <2>2, KeepsSettings DEF StopNetwork, StepFails, selectorVars, readyVars,
       appleVars, googleVars, coreVars, dataVars
  <2>. QED  BY <1>1, <2>1, <2>2 DEF StopNetwork
<1>2. CASE WipeNetwork
  <2>1. /\ UNCHANGED settings /\ UNCHANGED readyVars /\ ~fmna_ready /\ ~fast_pair_ready
        /\ settings.reset_in_progress = TRUE
    BY <1>0, <1>2, SelectionOfAlive DEF WipeNetwork, InReset, NextStep, StepFails, selectorVars,
       SelectorInv, NetworkInv, readyVars, appleVars, googleVars, coreVars
  <2>2. CASE NextStep("id")
    <3>1. Data' = {}
      BY <1>0, <1>2, <2>1, <2>2 DEF WipeNetwork, NextStep, StepFails, Halt, bootVars, Data,
         DataInv, DataOfSelected, Networks, appleData, googleData
    <3>2. Selection' = Selection /\ Serving = {} /\ Serving' = {}
      BY <2>1 DEF Selection, Serving, readyVars
    <3>. QED  BY <2>1, <3>1, <3>2 DEF Choice!Next, Choice!Erase
  <2>3. CASE UNCHANGED dataVars
    BY <2>1, <2>3, KeepsSettings DEF readyVars, dataVars
  <2>. QED  BY <1>2, <2>2, <2>3 DEF WipeNetwork, dataVars
<1>3. CASE ResetIdentity
  BY <1>3, KeepsSettings DEF ResetIdentity, NextStep, StepFails, selectorVars, networkVars,
     readyVars, dataVars, appleVars, googleVars, coreVars
<1>4. CASE Unselect
  <2>1. Selection' = "UNSELECTED" /\ settings'.reset_in_progress = FALSE
    BY <1>4, SelectionOfDesc DEF Unselect, Selections
  <2>2. settings.reset_in_progress = TRUE /\ NoData /\ ~fmna_ready /\ ~fast_pair_ready
    BY <1>4, SelectionOfAlive DEF Unselect, SelectorInv, NetworkInv, DataInv
  <2>3. UNCHANGED dataVars /\ ~fmna_ready' /\ ~fast_pair_ready'
    BY <1>4 DEF Unselect, Reboot, NetworksReboot, dataVars
  <2>4. Data = {} /\ Data' = {} /\ Serving = {} /\ Serving' = {}
    BY <2>2, <2>3 DEF Data, Serving, NoData, dataVars, appleData, googleData
  <2>. QED  BY <2>1, <2>2, <2>4 DEF Choice!Next, Choice!Release
<1>. QED  BY <1>1, <1>2, <1>3, <1>4

LEMMA FlagMaps ==
  ASSUME AppInv, FlagReset, UNCHANGED networkVars
  PROVE  [Choice!Next]_Choice!vars
<1>. USE DEF AppInv
<1>0. /\ Selection = settings.id /\ settings = current_network
      /\ settings.id \in Networks /\ settings.id \in Selections
      /\ settings.reset_in_progress \in BOOLEAN
  BY SelectionOfAlive DEF FlagReset, SelectorInv
<1>1. UNCHANGED <<readyVars, dataVars>>
  BY DEF networkVars, readyVars, dataVars, appleVars, googleVars, coreVars
<1>2. CASE UNCHANGED settings
  BY <1>1, <1>2, KeepsSettings DEF readyVars, dataVars
<1>3. CASE settings' = Desc(settings.id, TRUE)
  <2>1. Selection' = Selection /\ settings'.reset_in_progress = TRUE
    BY <1>0, <1>3, SelectionOfDesc
  <2>2. CASE settings.reset_in_progress = TRUE
    BY <1>1, <2>1, <2>2, Stutters
  <2>3. CASE settings.reset_in_progress = FALSE
    <3>1. Serving' = Serving /\ Data' = Data
      BY <1>1 DEF Serving, Data, readyVars, dataVars, appleData, googleData
    <3>. QED  BY <1>0, <2>1, <2>3, <3>1 DEF Choice!Next, Choice!BeginReset
  <2>. QED  BY <1>0, <2>2, <2>3
<1>. QED  BY <1>0, <1>2, <1>3
     DEF FlagReset, reset_in_progress_set, network_selector_set, selectorVars

LEMMA BootMaps ==
  ASSUME AppInv, PowerOn \/ app_network_selector_init, UNCHANGED networkVars
  PROVE  UNCHANGED Choice!vars
<1>1. UNCHANGED <<readyVars, dataVars>>
  BY DEF networkVars, readyVars, dataVars, appleVars, googleVars, coreVars
<1>2. CASE UNCHANGED settings
  BY <1>1, <1>2, KeepsSettings DEF readyVars, dataVars
<1>3. CASE settings = NoEntry /\ settings' = Desc("UNSELECTED", FALSE)
  <2>1. Selection = "UNSELECTED" /\ settings.reset_in_progress = FALSE
    BY <1>3, DescType DEF Selection
  <2>2. Selection' = "UNSELECTED" /\ settings'.reset_in_progress = FALSE
    BY <1>3, SelectionOfDesc DEF Selections
  <2>. QED  BY <1>1, <2>1, <2>2, Stutters
<1>. QED  BY <1>2, <1>3
     DEF PowerOn, app_network_selector_init, network_selector_set, selectorVars

LEMMA StepMaps ==
  ASSUME AppInv, [Next]_vars
  PROVE  [Choice!Next]_Choice!vars
<1>1. CASE UNCHANGED vars
  BY <1>1, KeepsSettings DEF vars, selectorVars, networkVars, readyVars, dataVars, appleVars,
     googleVars, coreVars
<1>2. CASE (PowerOn \/ app_network_selector_init) /\ UNCHANGED networkVars
  BY <1>2, BootMaps
<1>3. CASE AppleLaunch \/ GoogleLaunch
  BY <1>3, LaunchMaps
<1>4. CASE FlagReset /\ UNCHANGED networkVars
  BY <1>4, FlagMaps
<1>5. CASE StopNetwork \/ WipeNetwork \/ ResetIdentity \/ Unselect
  BY <1>5, ResetMaps
<1>6. CASE UnselectFails /\ UNCHANGED networkVars
  BY <1>6, KeepsSettings DEF UnselectFails, selectorVars, networkVars, readyVars, dataVars,
     appleVars, googleVars, coreVars
<1>7. CASE Restart \/ PowerLoss
  BY <1>7, RebootStops DEF Restart, PowerLoss, Choice!Next, flashVars, dataVars
<1>8. CASE ResetTimer
  BY <1>8, PerformMaps DEF ResetTimer, factory_reset_work_handle, Alive, AppInv, networkVars,
     readyVars, dataVars, appleVars, googleVars, coreVars
<1>9. CASE Peers
  BY <1>9, PeersMap
<1>10. CASE fp_adv_restart_work_handle \/ ui_advertising_mode_change \/ pairing_mode_exited
            \/ adv_resume_action_handle
  <2>1. UNCHANGED <<readyVars, dataVars>>
    BY <1>10 DEF fp_adv_restart_work_handle, ui_advertising_mode_change, pairing_mode_exited,
       adv_resume_action_handle, readyVars, dataVars, appleVars, googleVars, coreVars
  <2>2. UNCHANGED settings
    BY <1>10, ButtonsKeepSelector DEF bootState, selectorVars
  <2>. QED  BY <2>1, <2>2, KeepsSettings DEF readyVars, dataVars
<1>. QED  BY <1>1, <1>2, <1>3, <1>4, <1>5, <1>6, <1>7, <1>8, <1>9, <1>10
          DEF Next, Boot, ResetStep

(* The device, with its selector, its two stacks, every failing call and   *)
(* every power loss, implements NetworkChoice: it changes its network only *)
(* through a reset that has stopped the service and erased the data.       *)
THEOREM ChoiceImplemented == Spec => ImplementsChoice
<1>1. Init => Choice!Init
  BY DescType DEF Init, SelectorInit, Choice!Init, Selection, Serving, Data
<1>2. AppInv /\ [Next]_vars => [Choice!Next]_Choice!vars
  BY StepMaps
<1>. QED  BY <1>1, <1>2, AppInvariant, PTL DEF Spec, ImplementsChoice, Choice!Spec

-----------------------------------------------------------------------------
(* Fast Pair.  Until the Google network is launched nothing of it runs. *)

GoogleToCome ==
  \/ phase \in {"off", "selector_init"}
  \/ to_launch \in {<<"GOOGLE">>, <<"APPLE", "GOOGLE">>}

IdleInv ==
  /\ on_air => is_enabled
  /\ GoogleToCome => /\ ~is_enabled /\ fp_conn = NULL /\ ~fast_pair_ready
                     /\ factory_reset_trigger = "NONE"

idleVars == <<on_air, is_enabled, fp_conn, fast_pair_ready, factory_reset_trigger>>

LEMMA IdleReboots ==
  ASSUME Reboot
  PROVE  IdleInv'
BY DEF Reboot, NetworksReboot, IdleInv

LEMMA IdleKept ==
  ASSUME IdleInv, GoogleToCome' => GoogleToCome, UNCHANGED idleVars
  PROVE  IdleInv'
BY DEF IdleInv, idleVars

LEMMA LaunchOrder ==
  ASSUME LaunchList, to_launch # <<>>,
         to_launch' = Tail(to_launch), phase' \in {"launch", "running"}
  PROVE  GoogleToCome' => GoogleToCome
<1>1. CASE Tail(to_launch) = <<>>
  BY <1>1 DEF GoogleToCome
<1>2. CASE current_network.id = "UNSELECTED"
  BY <1>2 DEF LaunchList, GoogleToCome
<1>. QED  BY <1>1, <1>2, LaunchTail

(* The reset and the boot. *)
LEMMA IdleBoots ==
  ASSUME SelectorInv, IdleInv, Boot \/ ResetTimer
  PROVE  IdleInv'
<1>0. ASSUME Halt
      PROVE  ~GoogleToCome'
  BY <1>0 DEF Halt, GoogleToCome
<1>1. ASSUME UNCHANGED bootVars
      PROVE  GoogleToCome' => GoogleToCome
  BY <1>1 DEF bootVars, GoogleToCome
<1>2. ASSUME factory_reset_perform, UNCHANGED idleVars
      PROVE  IdleInv'
  <2>1. UNCHANGED bootVars \/ Halt
    BY <1>2 DEF factory_reset_perform
  <2>2. GoogleToCome' => GoogleToCome
    BY <1>0, <1>1, <2>1
  <2>. QED  BY <1>2, <2>2, IdleKept
<1>3. CASE (PowerOn \/ app_network_selector_init) /\ UNCHANGED networkVars
  <2>1. GoogleToCome
    BY <1>3 DEF PowerOn, app_network_selector_init, GoogleToCome
  <2>. QED  BY <1>3, <2>1, IdleKept
       DEF networkVars, googleVars, coreVars, advVars, airVars, idleVars
<1>4. CASE AppleLaunch
  <2>1. UNCHANGED idleVars /\ LaunchList /\ to_launch # <<>>
    BY <1>4 DEF AppleLaunch, SelectorInv, googleVars, coreVars, advVars, airVars, idleVars
  <2>2. GoogleToCome' => GoogleToCome \/ factory_reset_perform
    BY <1>0, <1>4, <2>1, LaunchOrder DEF AppleLaunch
  <2>. QED  BY <1>2, <2>1, <2>2, IdleKept
<1>5. CASE GoogleLaunch
  <2>1. CASE UNCHANGED googleVars
    <3>1. UNCHANGED idleVars
      BY <2>1 DEF googleVars, coreVars, advVars, airVars, idleVars
    <3>2. CASE factory_reset_perform
      BY <1>2, <3>1, <3>2
    <3>3. CASE Halt
      BY <1>0, <3>1, <3>3, IdleKept
    <3>4. CASE google_enable /\ to_launch' = Tail(to_launch) /\ phase' = "running"
      <4>1. LaunchList /\ to_launch # <<>>
        BY <1>5 DEF GoogleLaunch, SelectorInv
      <4>. QED  BY <3>1, <3>4, <4>1, LaunchOrder, IdleKept
    <3>. QED  BY <1>5, <3>2, <3>3, <3>4 DEF GoogleLaunch
  <2>2. CASE google_enable /\ to_launch' = Tail(to_launch) /\ phase' = "running"
    <3>1. LaunchList /\ to_launch # <<>> /\ Head(to_launch) = "GOOGLE"
      BY <1>5 DEF GoogleLaunch, SelectorInv
    <3>2. Tail(to_launch) = <<>>
      BY <3>1, LaunchTail
    <3>3. ~GoogleToCome'
      BY <2>2, <3>2 DEF GoogleToCome
    <3>. QED  BY <2>2, <3>3 DEF google_enable, IdleInv
  <2>. QED  BY <1>5, <2>1, <2>2 DEF GoogleLaunch
<1>6. CASE FlagReset /\ UNCHANGED networkVars
  <2>1. GoogleToCome' => GoogleToCome
    BY <1>0, <1>1, <1>6 DEF FlagReset
  <2>. QED  BY <1>6, <2>1, IdleKept
       DEF networkVars, googleVars, coreVars, advVars, airVars, idleVars
<1>7. CASE StopNetwork
  <2>1. GoogleToCome' => GoogleToCome
    BY <1>0, <1>1, <1>7 DEF StopNetwork, NextStep, StepFails
  <2>2. CASE UNCHANGED idleVars
    BY <2>1, <2>2, IdleKept
  <2>3. CASE GoogleStops
    BY <2>1, <2>3 DEF GoogleStops, IdleInv
  <2>. QED  BY <1>7, <2>2, <2>3
       DEF StopNetwork, AppleStops, googleVars, coreVars, advVars, airVars, idleVars
<1>8. CASE WipeNetwork \/ ResetIdentity
  <2>1. GoogleToCome' => GoogleToCome
    BY <1>0, <1>1, <1>8 DEF WipeNetwork, ResetIdentity, NextStep, StepFails
  <2>. QED  BY <1>8, <2>1, IdleKept DEF WipeNetwork, ResetIdentity, networkVars, googleVars,
            coreVars, advVars, airVars, idleVars
<1>9. CASE Unselect \/ Restart
  BY <1>9, IdleReboots DEF Unselect, Restart
<1>10. CASE UnselectFails /\ UNCHANGED networkVars
  BY <1>0, <1>10, IdleKept
     DEF UnselectFails, networkVars, googleVars, coreVars, advVars, airVars, idleVars
<1>11. CASE ResetTimer
  BY <1>2, <1>11 DEF ResetTimer, factory_reset_work_handle, networkVars, googleVars, coreVars,
     advVars, airVars, idleVars
<1>. QED  BY <1>3, <1>4, <1>5, <1>6, <1>7, <1>8, <1>9, <1>10, <1>11 DEF Boot, ResetStep

(* Peers and buttons reach a Fast Pair that is on the air or ready. *)
LEMMA IdleEvents ==
  ASSUME SelectorInv, IdleInv,
         Peers \/ fp_adv_restart_work_handle \/ ui_advertising_mode_change
         \/ pairing_mode_exited \/ adv_resume_action_handle
  PROVE  IdleInv'
<1>0. ASSUME UNCHANGED bootState
      PROVE  GoogleToCome' => GoogleToCome
  BY <1>0 DEF bootState, bootVars, GoogleToCome
<1>1. ASSUME UNCHANGED bootState, UNCHANGED idleVars
      PROVE  IdleInv'
  BY <1>0, <1>1, IdleKept
<1>2. ASSUME UNCHANGED bootState, ~GoogleToCome, UNCHANGED is_enabled, on_air' => is_enabled
      PROVE  IdleInv'
  BY <1>0, <1>2 DEF IdleInv
<1>3. ASSUME NEW n, Select(n)
      PROVE  IdleInv'
  BY <1>3, IdleReboots DEF Select
<1>4. ASSUME NEW mode, fp_advertising_update(mode)
      PROVE  IF is_enabled THEN TRUE ELSE UNCHANGED airVars
  BY <1>4 DEF fp_advertising_update
<1>5. CASE fp_adv_connected \/ connection_failed
  <2>1. ~GoogleToCome
    BY <1>5 DEF fp_adv_connected, connection_failed, IdleInv
  <2>2. (\E n : Select(n)) \/ (NotBoot /\ ~on_air' /\ UNCHANGED is_enabled)
    BY <1>5 DEF fp_adv_connected, connection_failed, advVars
  <2>. QED  BY <1>2, <1>3, <2>1, <2>2 DEF NotBoot, bootState
<1>6. CASE apple_adv_connected
  <2>1. (\E n : Select(n)) \/ (UNCHANGED bootState /\ UNCHANGED idleVars)
    BY <1>6 DEF apple_adv_connected, NotBoot, bootState, coreVars, advVars, idleVars
  <2>. QED  BY <1>1, <1>3, <2>1
<1>7. ASSUME NEW c \in Conns, disconnected(c)
      PROVE  IdleInv'
  <2>1. UNCHANGED bootState /\ UNCHANGED <<on_air, is_enabled, coreVars>>
        /\ fp_conn' \in {fp_conn, NULL}
    BY <1>7 DEF disconnected, NotBoot, bootState
  <2>2. GoogleToCome' => GoogleToCome
    BY <1>0, <2>1
  <2>. QED  BY <2>1, <2>2 DEF IdleInv, coreVars
<1>8. CASE fp_account_key_written \/ fmdn_clock_synced \/ \E b \in BOOLEAN : Provision(b)
  <2>1. UNCHANGED bootState /\ fast_pair_ready /\ UNCHANGED is_enabled
    BY <1>8 DEF fp_account_key_written, fmdn_clock_synced, Provision, NotBoot, bootState
  <2>2. ~GoogleToCome
    BY <2>1 DEF IdleInv
  <2>3. on_air' => is_enabled
    BY <1>4, <1>8 DEF fp_account_key_written, fmdn_clock_synced, Provision, IdleInv, airVars,
       fmdn_provisioning_state_changed, app_fp_adv_request
  <2>. QED  BY <1>2, <2>1, <2>2, <2>3
<1>9. ASSUME NEW b \in BOOLEAN, Pair(b)
      PROVE  IdleInv'
  <2>1. UNCHANGED bootState /\ UNCHANGED idleVars
    BY <1>9 DEF Pair, NotBoot, bootState, googleVars, coreVars, advVars, airVars, idleVars
  <2>. QED  BY <1>1, <2>1
<1>10. CASE pairing_mode_exited \/ adv_resume_action_handle
  <2>1. UNCHANGED bootState /\ UNCHANGED idleVars
    BY <1>10 DEF pairing_mode_exited, adv_resume_action_handle, NotBoot, bootState, googleVars,
       coreVars, advVars, airVars, idleVars
  <2>. QED  BY <1>1, <2>1
<1>11. CASE fp_adv_restart_work_handle \/ ui_advertising_mode_change
  <2>1. UNCHANGED bootState /\ UNCHANGED <<is_enabled, coreVars>>
    BY <1>11 DEF fp_adv_restart_work_handle, ui_advertising_mode_change, NotBoot, bootState
  <2>2. CASE is_enabled
    <3>1. ~GoogleToCome
      BY <2>2 DEF IdleInv
    <3>. QED  BY <1>2, <2>1, <2>2, <3>1
  <2>3. CASE ~is_enabled
    <3>1. UNCHANGED airVars
      BY <1>4, <1>11, <2>3 DEF fp_adv_restart_work_handle, ui_advertising_mode_change
    <3>. QED  BY <1>1, <2>1, <3>1 DEF airVars, coreVars, idleVars
  <2>. QED  BY <2>2, <2>3
<1>. QED  BY <1>5, <1>6, <1>7, <1>8, <1>9, <1>10, <1>11 DEF Peers

LEMMA IdleStep ==
  ASSUME SelectorInv, IdleInv, [Next]_vars
  PROVE  IdleInv'
<1>1. CASE UNCHANGED vars
  BY <1>1 DEF vars, bootVars, networkVars, googleVars, coreVars, advVars, airVars, IdleInv,
     GoogleToCome
<1>2. CASE PowerLoss
  BY <1>2, IdleReboots DEF PowerLoss
<1>. QED  BY <1>1, <1>2, IdleBoots, IdleEvents DEF Next

LEMMA IdleInvariant == Spec => [](SelectorInv /\ IdleInv)
<1>1. Init => IdleInv
  BY DEF Init, IdleInv
<1>. QED  BY <1>1, SelectorInvariant, IdleStep, PTL DEF Spec

-----------------------------------------------------------------------------
(* The advertising of Fast Pair, when no connection is made in the middle  *)
(* of its update.                                                          *)

AirInv == OneFastPairLink /\ on_air \in BOOLEAN

linkVars == <<on_air, fp_conn, is_enabled, fp_adv_mode, restart_work>>

LEMMA AirKept ==
  ASSUME AirInv, UNCHANGED linkVars
  PROVE  AirInv'
BY DEF AirInv, OneFastPairLink, linkVars

LEMMA AirReboots ==
  ASSUME Reboot
  PROVE  AirInv'
BY DEF Reboot, NetworksReboot, AirInv, OneFastPairLink

LEMMA AirUpdates ==
  ASSUME AirInv, "late_connect" \notin Races, NEW mode, fp_advertising_update(mode),
         fp_adv_mode' = mode, UNCHANGED is_enabled
  PROVE  AirInv'
BY DEF fp_advertising_update, airVars, AirInv, OneFastPairLink

LEMMA AirRequests ==
  ASSUME AirInv, "late_connect" \notin Races, NEW requests, NEW key,
         app_fp_adv_request(requests, key), UNCHANGED <<is_enabled, restart_work>>
  PROVE  AirInv'
<1>1. CASE UNCHANGED <<fp_adv_mode, airVars>>
  BY <1>1, AirKept DEF airVars, linkVars
<1>2. CASE \E mode : fp_adv_mode' = mode /\ fp_advertising_update(mode)
  BY <1>2, AirUpdates
<1>. QED  BY <1>1, <1>2 DEF app_fp_adv_request

LEMMA AirLaunches ==
  ASSUME IdleInv, AirInv, SelectorInv, GoogleLaunch
  PROVE  AirInv'
<1>1. CASE UNCHANGED googleVars
  BY <1>1, AirKept DEF googleVars, advVars, airVars, linkVars
<1>2. CASE google_enable /\ UNCHANGED <<fp_conn, restart_work>>
  <2>1. LaunchList /\ to_launch # <<>> /\ Head(to_launch) = "GOOGLE"
    BY DEF GoogleLaunch, SelectorInv
  <2>2. GoogleToCome
    BY <2>1 DEF LaunchList, GoogleToCome
  <2>3. fp_conn' = NULL
    BY <1>2, <2>2 DEF IdleInv
  <2>4. PICK requests : fp_adv_mode' = RequestedMode(requests, account_key)
                        /\ on_air' = (requests # {})
    BY <1>2 DEF google_enable
  <2>. QED  BY <2>3, <2>4 DEF RequestedMode, AirInv, OneFastPairLink
<1>. QED  BY <1>1, <1>2 DEF GoogleLaunch

LEMMA AirEvents ==
  ASSUME AirInv, "late_connect" \notin Races,
         Peers \/ fp_adv_restart_work_handle \/ ui_advertising_mode_change
         \/ pairing_mode_exited \/ adv_resume_action_handle
  PROVE  AirInv'
<1>1. CASE fp_adv_connected
  <2>1. CASE \E n : Select(n)
    BY <2>1, AirReboots DEF Select
  <2>2. CASE (\E c \in Conns : fp_conn' = c) /\ on_air' = FALSE
    BY <2>2, NetworksAssumption DEF AirInv, OneFastPairLink
  <2>. QED  BY <1>1, <2>1, <2>2 DEF fp_adv_connected
<1>2. CASE apple_adv_connected
  <2>1. CASE \E n : Select(n)
    BY <2>1, AirReboots DEF Select
  <2>2. CASE UNCHANGED <<advVars, on_air, fp_conn>>
    BY <2>2, AirKept DEF advVars, linkVars
  <2>. QED  BY <1>2, <2>1, <2>2 DEF apple_adv_connected
<1>3. CASE connection_failed
  BY <1>3 DEF connection_failed, AirInv, OneFastPairLink
<1>4. ASSUME NEW c \in Conns, disconnected(c)
      PROVE  AirInv'
  BY <1>4, NetworksAssumption DEF disconnected, AirInv, OneFastPairLink
<1>5. CASE fp_account_key_written
  <2>1. CASE UNCHANGED <<fp_adv_mode, airVars, is_enabled, restart_work>>
    BY <2>1, AirKept DEF airVars, linkVars
  <2>. QED  BY <1>5, <2>1, AirRequests DEF fp_account_key_written
<1>6. CASE fmdn_clock_synced
  BY <1>6, AirRequests DEF fmdn_clock_synced
<1>7. ASSUME NEW b \in BOOLEAN, Provision(b)
      PROVE  AirInv'
  <2>1. CASE UNCHANGED <<fp_adv_mode, airVars, is_enabled, restart_work>>
    BY <2>1, AirKept DEF airVars, linkVars
  <2>2. CASE \E requests : app_fp_adv_request(requests, account_key)
                           /\ UNCHANGED <<is_enabled, restart_work>>
    BY <2>2, AirRequests
  <2>. QED  BY <1>7, <2>1, <2>2 DEF Provision, fmdn_provisioning_state_changed
<1>8. CASE (\E b \in BOOLEAN : Pair(b)) \/ pairing_mode_exited \/ adv_resume_action_handle
  BY <1>8, AirKept DEF Pair, pairing_mode_exited, adv_resume_action_handle, googleVars,
     advVars, airVars, linkVars
<1>9. CASE fp_adv_restart_work_handle
  BY <1>9, AirUpdates DEF fp_adv_restart_work_handle
<1>10. CASE ui_advertising_mode_change
  BY <1>10, AirRequests DEF ui_advertising_mode_change
<1>. QED  BY <1>1, <1>2, <1>3, <1>4, <1>5, <1>6, <1>7, <1>8, <1>9, <1>10 DEF Peers

LEMMA AirStep ==
  ASSUME SelectorInv, IdleInv, AirInv, "late_connect" \notin Races, [Next]_vars
  PROVE  AirInv'
<1>1. CASE UNCHANGED vars \/ UNCHANGED networkVars
  BY <1>1, AirKept DEF vars, networkVars, googleVars, advVars, airVars, linkVars
<1>2. CASE AppleLaunch \/ ResetIdentity \/ WipeNetwork
  BY <1>2, AirKept DEF AppleLaunch, ResetIdentity, WipeNetwork, networkVars, googleVars,
     advVars, airVars, linkVars
<1>3. CASE GoogleLaunch
  BY <1>3, AirLaunches
<1>4. CASE StopNetwork
  <2>1. CASE GoogleStops
    BY <2>1 DEF GoogleStops, AirInv, OneFastPairLink
  <2>2. CASE UNCHANGED linkVars
    BY <2>2, AirKept
  <2>. QED  BY <1>4, <2>1, <2>2
       DEF StopNetwork, AppleStops, googleVars, advVars, airVars, linkVars
<1>5. CASE Unselect \/ Restart \/ PowerLoss
  BY <1>5, AirReboots DEF Unselect, Restart, PowerLoss
<1>6. CASE Peers \/ fp_adv_restart_work_handle \/ ui_advertising_mode_change
           \/ pairing_mode_exited \/ adv_resume_action_handle
  BY <1>6, AirEvents
<1>. QED  BY <1>1, <1>2, <1>3, <1>4, <1>5, <1>6 DEF Next, Boot, ResetStep, ResetTimer

(* Fast Pair has at most one connection, is off the air while it has it,   *)
(* and follows its mode when it has none and no restart is due: for every  *)
(* order of events but the connection that falls into the update.          *)
THEOREM FastPairLinkIsOne ==
  ASSUME "late_connect" \notin Races
  PROVE  Spec => []OneFastPairLink
<1>1. Init => AirInv
  BY DEF Init, AirInv, OneFastPairLink
<1>2. SelectorInv /\ IdleInv /\ AirInv /\ [Next]_vars => AirInv'
  BY AirStep
<1>3. AirInv => OneFastPairLink
  BY DEF AirInv
<1>. QED  BY <1>1, <1>2, <1>3, IdleInvariant, PTL DEF Spec

-----------------------------------------------------------------------------
(* Provisioning.  The copy of the account key's state is exact while Fast  *)
(* Pair is ready, and only a provisioning that has its key is there.       *)

ProvInv ==
  /\ ProvisioningTimed
  /\ provisioned => account_key
  /\ fast_pair_ready => fp_account_key_present = account_key
  /\ account_key \in BOOLEAN /\ provisioned \in BOOLEAN

timedVars == <<account_key, provisioned, coreVars>>

LEMMA ProvKept ==
  ASSUME ProvInv, UNCHANGED timedVars,
         fast_pair_ready /\ factory_reset_state # "IDLE" => factory_reset_state' # "IDLE"
  PROVE  ProvInv'
BY DEF ProvInv, ProvisioningTimed, timedVars, coreVars

LEMMA ProvReboots ==
  ASSUME ProvInv, Reboot, UNCHANGED googleData
  PROVE  ProvInv'
BY DEF ProvInv, ProvisioningTimed, Reboot, NetworksReboot, googleData

LEMMA ProvLaunches ==
  ASSUME SelectorInv, IdleInv, ProvInv, GoogleLaunch
  PROVE  ProvInv'
<1>0. UNCHANGED <<account_key, provisioned>>
  BY DEF GoogleLaunch, googleData
<1>1. CASE UNCHANGED googleVars
  <2>1. factory_reset_state # "IDLE" => factory_reset_state' # "IDLE"
    BY <1>1 DEF GoogleLaunch, factory_reset_perform, google_enable, app_factory_reset_schedule
  <2>. QED  BY <1>0, <1>1, <2>1, ProvKept DEF googleVars, timedVars
<1>2. CASE google_enable
  <2>1. LaunchList /\ to_launch # <<>> /\ Head(to_launch) = "GOOGLE"
    BY DEF GoogleLaunch, SelectorInv
  <2>2. GoogleToCome
    BY <2>1 DEF LaunchList, GoogleToCome
  <2>3. factory_reset_trigger = "NONE"
    BY <2>2 DEF IdleInv
  <2>. QED  BY <1>0, <1>2, <2>3 DEF google_enable, KeyMismatch, app_factory_reset_schedule,
            ProvInv, ProvisioningTimed
<1>. QED  BY <1>1, <1>2 DEF GoogleLaunch

LEMMA ProvKeyWritten ==
  ASSUME ProvInv, fp_account_key_written
  PROVE  ProvInv'
<1>1. /\ account_key' = TRUE /\ fp_account_key_present' = TRUE
      /\ UNCHANGED <<provisioned, fast_pair_ready>> /\ fast_pair_ready
  BY DEF fp_account_key_written
<1>2. CASE FirstAccountKey
  <2>1. ~provisioned
    BY <1>1, <1>2 DEF ProvInv, FirstAccountKey
  <2>2. factory_reset_state' # "IDLE" /\ rpa_rotation_suspended' = TRUE
    BY <1>2 DEF fp_account_key_written, app_factory_reset_schedule
  <2>. QED  BY <1>1, <2>1, <2>2 DEF ProvInv, ProvisioningTimed
<1>3. CASE ~FirstAccountKey
  <2>1. account_key = TRUE
    BY <1>1, <1>3 DEF ProvInv, FirstAccountKey
  <2>2. UNCHANGED <<factory_reset_state, factory_reset_trigger, rpa_rotation_suspended>>
    BY <1>3 DEF fp_account_key_written
  <2>. QED  BY <1>1, <2>1, <2>2 DEF ProvInv, ProvisioningTimed
<1>. QED  BY <1>2, <1>3

LEMMA ProvProvisions ==
  ASSUME ProvInv, NEW b \in BOOLEAN, Provision(b)
  PROVE  ProvInv'
<1>1. /\ fast_pair_ready /\ account_key = TRUE
      /\ UNCHANGED <<account_key, fast_pair_ready>> /\ provisioned' = b
      /\ fmdn_provisioning_state_changed(b)
  BY DEF Provision, ProvInv
<1>2. fp_account_key_present' = account_key
  BY <1>1 DEF fmdn_provisioning_state_changed
<1>3. CASE b = TRUE
  <2>1. factory_reset_trigger' # "PROVISIONING_TIMEOUT"
    BY <1>1, <1>3 DEF fmdn_provisioning_state_changed, KeyMismatch, TimeoutCancelled
  <2>. QED  BY <1>1, <1>2, <1>3, <2>1 DEF ProvInv, ProvisioningTimed
<1>4. CASE b = FALSE
  <2>1. factory_reset_state' # "IDLE" /\ factory_reset_trigger' = "KEY_STATE_MISMATCH"
    BY <1>1, <1>4
       DEF fmdn_provisioning_state_changed, KeyMismatch, TimeoutCancelled
  <2>. QED  BY <1>1, <1>2, <1>4, <2>1 DEF ProvInv, ProvisioningTimed
<1>. QED  BY <1>3, <1>4

LEMMA ProvStep ==
  ASSUME SelectorInv, NetworkInv, IdleInv, ProvInv, [Next]_vars
  PROVE  ProvInv'
<1>1. CASE UNCHANGED vars
  BY <1>1, ProvKept DEF vars, networkVars, googleVars, googleData, timedVars
<1>2. CASE /\ UNCHANGED networkVars
           /\ \/ PowerOn \/ app_network_selector_init \/ FlagReset \/ UnselectFails
              \/ factory_reset_work_handle
  <2>1. UNCHANGED factory_reset_state \/ factory_reset_state' = "IN_PROGRESS"
    BY <1>2 DEF PowerOn, app_network_selector_init, FlagReset, UnselectFails,
       factory_reset_work_handle, factory_reset_perform
  <2>. QED  BY <1>2, <2>1, ProvKept DEF networkVars, googleVars, googleData, timedVars
<1>3. CASE AppleLaunch
  <2>1. factory_reset_state # "IDLE" => factory_reset_state' # "IDLE"
    BY <1>3 DEF AppleLaunch, factory_reset_perform, paired_state_changed,
       app_factory_reset_schedule
  <2>. QED  BY <1>3, <2>1, ProvKept DEF AppleLaunch, googleVars, googleData, timedVars
<1>4. CASE GoogleLaunch
  BY <1>4, ProvLaunches
<1>5. CASE StopNetwork
  <2>1. UNCHANGED <<account_key, provisioned, factory_reset_state>>
    BY <1>5 DEF StopNetwork, InReset, googleData
  <2>2. CASE GoogleStops
    BY <2>1, <2>2 DEF GoogleStops, ProvInv, ProvisioningTimed
  <2>3. CASE UNCHANGED coreVars
    BY <2>1, <2>3, ProvKept DEF timedVars
  <2>. QED  BY <1>5, <2>2, <2>3 DEF StopNetwork, AppleStops, googleVars
<1>6. CASE WipeNetwork
  <2>1. UNCHANGED coreVars /\ ~fast_pair_ready
    BY <1>6 DEF WipeNetwork, InReset, googleVars, NetworkInv
  <2>2. UNCHANGED googleData \/ (~account_key' /\ ~provisioned'
                                /\ account_key' \in BOOLEAN /\ provisioned' \in BOOLEAN)
    BY <1>6 DEF WipeNetwork
  <2>. QED  BY <2>1, <2>2 DEF ProvInv, ProvisioningTimed, coreVars, googleData
<1>7. CASE ResetIdentity
  BY <1>7, ProvKept
     DEF ResetIdentity, InReset, networkVars, googleVars, googleData, timedVars
<1>8. CASE Unselect \/ Restart \/ PowerLoss
  BY <1>8, ProvReboots DEF Unselect, Restart, PowerLoss
<1>9. CASE fp_adv_connected \/ apple_adv_connected
  <2>1. CASE \E n : Select(n)
    BY <2>1, ProvReboots DEF Select
  <2>2. CASE UNCHANGED <<factory_reset_state, googleData, coreVars>>
    BY <2>2, ProvKept DEF googleData, timedVars
  <2>. QED  BY <1>9, <2>1, <2>2 DEF fp_adv_connected, apple_adv_connected
<1>10. CASE connection_failed \/ fmdn_clock_synced \/ (\E c \in Conns : disconnected(c))
            \/ fp_adv_restart_work_handle \/ ui_advertising_mode_change
            \/ pairing_mode_exited \/ adv_resume_action_handle
  BY <1>10, ProvKept DEF connection_failed, fmdn_clock_synced, disconnected,
     fp_adv_restart_work_handle, ui_advertising_mode_change, pairing_mode_exited,
     adv_resume_action_handle, googleVars, googleData, timedVars
<1>11. CASE fp_account_key_written
  BY <1>11, ProvKeyWritten
<1>12. ASSUME NEW b \in BOOLEAN, Provision(b)
       PROVE  ProvInv'
  BY <1>12, ProvProvisions
<1>13. ASSUME NEW b \in BOOLEAN, Pair(b)
       PROVE  ProvInv'
  <2>1. factory_reset_state # "IDLE" => factory_reset_state' # "IDLE"
    BY <1>13 DEF Pair, paired_state_changed, app_factory_reset_schedule
  <2>. QED  BY <1>13, <2>1, ProvKept DEF Pair, googleVars, googleData, timedVars
<1>. QED  BY <1>1, <1>2, <1>3, <1>4, <1>5, <1>6, <1>7, <1>8, <1>9, <1>10, <1>11, <1>12, <1>13
          DEF Next, Boot, ResetStep, ResetTimer, Peers

(* The device resets unless the provisioning follows the account key in    *)
(* time, and that timeout never resets a provisioned device.               *)
THEOREM ProvisioningIsTimed == Spec => []ProvisioningTimed
<1>1. Init => ProvInv
  BY DEF Init, ProvInv, ProvisioningTimed
<1>2. ProvInv => ProvisioningTimed
  BY DEF ProvInv
<1>. QED  BY <1>1, <1>2, NetworkInvariant, IdleInvariant, ProvStep, PTL DEF Spec
=============================================================================
