----------------------------- MODULE AppSelector -----------------------------
(***************************************************************************)
(* samples/switchable_networks: the device holds two locator networks and  *)
(* keeps in its settings which of them it belongs to.  This module is the  *)
(* network selector (network_selector.c), the factory reset that takes the *)
(* device back to "unselected" (factory_reset.c) and the boot (main.c).    *)
(*                                                                         *)
(* The selector, the reset and the launch run on the system workqueue, in  *)
(* steps that a power loss, a failing call and the callbacks of the        *)
(* Bluetooth thread may come between.  AppNetworks adds the two networks.  *)
(***************************************************************************)
EXTENDS Naturals, Sequences

CONSTANTS
  MaxFaults,       \* bound: calls that fail
  MaxPowerLoss,    \* bound: power losses
  Races            \* orders of events the checks leave out unless named

ASSUME SelectorAssumption == MaxFaults \in Nat /\ MaxPowerLoss \in Nat

Networks == {"APPLE", "GOOGLE"}
Selections == Networks \union {"UNSELECTED"}
network_desc == [id : Selections, reset_in_progress : BOOLEAN]
NoEntry == [id |-> "none", reset_in_progress |-> FALSE]

VARIABLES
  settings,            \* Flash: the network_desc, or NoEntry (-ENOENT)
  current_network,     \* RAM: the same
  phase,               \* Of the boot: off, selector_init, launch, running, halted
  to_launch,           \* Networks whose init_work has yet to run
  reset_step,          \* Where factory_reset_run stands
  factory_reset_state,
  unreachable,         \* factory_reset_perform came to its end and nothing had failed
  faults, losses

selectorVars == <<settings, current_network>>
bootVars     == <<phase, to_launch>>
boundVars    == <<faults, losses>>

SelectorTypeOK ==
  /\ settings \in network_desc \union {NoEntry}
  /\ current_network \in network_desc
  /\ phase \in {"off", "selector_init", "launch", "running", "halted"}
  /\ to_launch \in Seq(Networks)
  /\ reset_step \in {"none", "flag", "stop", "wipe", "id", "unselect"}
  /\ factory_reset_state \in {"IDLE", "PENDING", "IN_PROGRESS"}
  /\ unreachable \in BOOLEAN
  /\ faults \in 0..MaxFaults /\ losses \in 0..MaxPowerLoss

Desc(network, in_progress) == [id |-> network, reset_in_progress |-> in_progress]

SelectorInit ==
  /\ settings = NoEntry
  /\ current_network = Desc("UNSELECTED", FALSE)
  /\ phase = "off" /\ to_launch = <<>>
  /\ reset_step = "none" /\ factory_reset_state = "IDLE" /\ unreachable = FALSE
  /\ faults = 0 /\ losses = 0

-----------------------------------------------------------------------------
(* Calls that succeed, or fail while the bound allows it. *)

Succeeds == UNCHANGED boundVars
Fails    == faults < MaxFaults /\ faults' = faults + 1 /\ UNCHANGED losses

(* k_panic: by the assertion, or because init_work gave no semaphore.      *)
error_ignored == UNCHANGED bootVars /\ reset_step' = "none"  \* mutant

Halt == phase' = "halted" /\ to_launch' = <<>> /\ reset_step' = "none"

network_selector_set(network, in_progress) ==
  settings' = Desc(network, in_progress) /\ current_network' = Desc(network, in_progress)

network_forgotten(in_progress) ==  \* mutant
  network_selector_set("UNSELECTED", in_progress)

(* The selection is kept until the reset has ended. *)
reset_in_progress_set(in_progress) ==
  network_selector_set(IF in_progress THEN current_network.id ELSE "UNSELECTED", in_progress)

-----------------------------------------------------------------------------
(* Factory reset. *)

factory_reset_run == reset_step' = "flag"

(* app_network_selector_set(UNSELECTED) of a selected network never comes  *)
(* back but with an error; of an unselected one it saves and returns.      *)
factory_reset_perform ==
  /\ factory_reset_state' = "IN_PROGRESS"
  /\ IF current_network.id # "UNSELECTED"
       THEN /\ factory_reset_run /\ Succeeds
            /\ UNCHANGED <<selectorVars, bootVars, unreachable>>
       ELSE /\ network_selector_set("UNSELECTED", FALSE) /\ Succeeds
            /\ unreachable' = TRUE /\ Halt

(* K_NO_WAIT or a delay: the work is due at some later time. *)
app_factory_reset_schedule ==
  factory_reset_state' =
    IF factory_reset_state = "IDLE" THEN "PENDING" ELSE factory_reset_state

CancelledState ==
  IF factory_reset_state = "IN_PROGRESS" THEN "IN_PROGRESS" ELSE "IDLE"

factory_reset_work_handle ==
  /\ phase \in {"launch", "running"} /\ reset_step = "none"
  /\ factory_reset_state = "PENDING"
  /\ factory_reset_perform

(* The first step of factory_reset_run and the last one; the steps between *)
(* are the factory_reset callback of the network.                          *)
FlagReset ==
  /\ reset_step = "flag"
  /\ \/ /\ reset_in_progress_set(TRUE)
        /\ reset_step' = "stop" /\ Succeeds /\ UNCHANGED bootVars
     \/ Fails /\ Halt /\ UNCHANGED selectorVars
  /\ UNCHANGED <<factory_reset_state, unreachable>>

UnselectFails ==
  /\ reset_step = "unselect"
  /\ Fails /\ Halt
  /\ UNCHANGED <<selectorVars, factory_reset_state, unreachable>>

(* Static variables of the selector after a reset of the device. *)
SelectorReboot ==
  /\ current_network' = Desc("UNSELECTED", FALSE)
  /\ phase' = "off" /\ to_launch' = <<>> /\ reset_step' = "none"
  /\ factory_reset_state' = "IDLE"
  /\ UNCHANGED unreachable

-----------------------------------------------------------------------------
(* Boot: main() submits its init_work and waits for it, and so does every  *)
(* network that is launched.                                               *)

PowerOn ==  \* settings_load, app_bt_id_create, app_ui_init
  /\ phase = "off"
  /\ phase' = "selector_init"
  /\ IF settings = NoEntry THEN UNCHANGED current_network ELSE current_network' = settings
  /\ UNCHANGED <<settings, to_launch, reset_step, factory_reset_state, unreachable, boundVars>>

Launched(network) == IF network = "UNSELECTED" THEN <<"APPLE", "GOOGLE">> ELSE <<network>>

app_network_selector_launch(network) == phase' = "launch" /\ to_launch' = Launched(network)

never_interrupted == FALSE  \* mutant

Interrupted == current_network.reset_in_progress

app_network_selector_init ==
  /\ phase = "selector_init" /\ reset_step = "none"
  /\ \/ /\ settings = NoEntry
        /\ \/ /\ network_selector_set("UNSELECTED", FALSE) /\ Succeeds
              /\ app_network_selector_launch("UNSELECTED")
              /\ UNCHANGED reset_step
           \/ Fails /\ Halt /\ UNCHANGED selectorVars
     \/ /\ settings # NoEntry /\ Interrupted
        /\ factory_reset_run /\ Succeeds
        /\ UNCHANGED <<selectorVars, bootVars>>
     \/ /\ settings # NoEntry /\ ~Interrupted
        /\ app_network_selector_launch(current_network.id) /\ Succeeds
        /\ UNCHANGED <<selectorVars, reset_step>>
  /\ UNCHANGED <<factory_reset_state, unreachable>>

=============================================================================
