------------------------------ MODULE MCStack -------------------------------
(***************************************************************************)
(* Instances of FmnaStack for TLC: the commands the peers may write in     *)
(* each run.                                                               *)
(***************************************************************************)
EXTENDS FmnaStack

NoCommands        == {}
SessionCommands   == PairEvents \cup {"UNPAIR", "SET_NEARBY_TIMEOUT"}
OwnerCommands     == ConfigEvents
LifecycleCommands == {"UNPAIR", "SET_PERSISTENT_CONN_STATUS"}
UnpairCommands    == {"UNPAIR"}

=============================================================================
