---------------------------- MODULE NetworkChoice ----------------------------
(***************************************************************************)
(* What the selector of samples/switchable_networks promises, without its  *)
(* flash layout, boot and workqueue: the device belongs to at most one     *)
(* network, serves that one, keeps data of no other, and changes to        *)
(* another only through a reset that has stopped the service and erased    *)
(* its data.                                                               *)
(***************************************************************************)
CONSTANT Networks

VARIABLES
  network,    \* The network the device belongs to, or "UNSELECTED"
  resetting,  \* It is leaving that network
  serving,    \* Networks whose service runs
  data        \* Networks that have data in the flash

vars == <<network, resetting, serving, data>>

Init == network = "UNSELECTED" /\ resetting = FALSE /\ serving = {} /\ data = {}

(* An unselected device serves every network, and none while it resets.    *)
Serve(n) ==
  /\ ~resetting /\ network \in {n, "UNSELECTED"}
  /\ serving' = serving \union {n}
  /\ UNCHANGED <<network, resetting, data>>

StopServing ==
  /\ serving' = {}
  /\ UNCHANGED <<network, resetting, data>>

(* The choice restarts the device. *)
Choose(n) ==
  /\ network = "UNSELECTED"
  /\ network' = n /\ serving' = {}
  /\ UNCHANGED <<resetting, data>>

(* A peer pairs with the device or gives it up. *)
ChangeData(n) ==
  /\ network = n /\ n \in serving
  /\ data' \in {{}, {n}}
  /\ UNCHANGED <<network, resetting, serving>>

BeginReset ==
  /\ network \in Networks /\ ~resetting
  /\ resetting' = TRUE
  /\ UNCHANGED <<network, serving, data>>

Erase ==
  /\ resetting /\ serving = {}
  /\ data' = {}
  /\ UNCHANGED <<network, resetting, serving>>

Release ==
  /\ resetting /\ serving = {} /\ data = {}
  /\ network' = "UNSELECTED" /\ resetting' = FALSE
  /\ UNCHANGED <<serving, data>>

Next ==
  \/ \E n \in Networks : Serve(n) \/ Choose(n) \/ ChangeData(n)
  \/ StopServing \/ BeginReset \/ Erase \/ Release

Spec == Init /\ [][Next]_vars
=============================================================================
