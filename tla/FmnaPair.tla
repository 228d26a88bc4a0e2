------------------------------ MODULE FmnaPair ------------------------------
(***************************************************************************)
(* fmna_pair.c: the Find My pairing, of one peer at a time, and its        *)
(* commands.                                                               *)
(***************************************************************************)
EXTENDS FmnaState

VARIABLES
  pairing_conn,
  session           \* ckg_ctx: how far the collaborative key generation got

pairVars == <<pairing_conn, session>>

PairTypeOK ==
  /\ pairing_conn \in Conns
  /\ session \in {"none", "initiated", "finalized"}

(* A command of a peer that is not pairing, or one that cannot be served:   *)
(* pairing_peer_disconnect().                                               *)
pairing_cmd_rejected(id) ==
  LET s == Head(batch).conn IN
  /\ Handling(id)
  /\ id = "PAIRING_COMPLETE" => pairing_conn # s
  /\ Disconnect({s})
  /\ Post(<<>>)
  /\ UNCHANGED <<encrypted, le_keys, refs, recordVars, conn_timeout, limitVars, adv,
                 stateVars, pairVars>>

initiate_pairing_cmd_handle ==
  /\ Handling("INITIATE_PAIRING")
  /\ pairing_conn = Head(batch).conn
  /\ session' = IF session = "none" THEN "initiated" ELSE session
  /\ Post(<<>>)
  /\ UNCHANGED <<connVars, adv, stateVars, pairing_conn>>

(* pairing_status_generate(): the pairing items afterwards. *)
pairing_status_generate == pairing_items \cup {"SECRETS"}

(* The server signs the nonce of this session.  An error after the pairing  *)
(* items have been stored leaves them stored.                               *)
finalize_pairing_cmd_handle ==
  LET s == Head(batch).conn IN
  /\ Handling("FINALIZE_PAIRING")
  /\ pairing_conn = s
  /\ session # "none"
  /\ pairing_items' = pairing_status_generate
  /\ \/ session' = "finalized" /\ UNCHANGED <<connected, closing>>
     \/ UNCHANGED session /\ Disconnect({s})
  /\ Post(<<>>)
  /\ UNCHANGED <<encrypted, le_keys, refs, recordVars, conn_timeout, limitVars, adv,
                 state, is_paired_adv_paused, modeVars, nearbyVars, reportVars,
                 keys_running, pairing_conn>>

(* The key service stores the keys and starts their rotation.  Unfinished   *)
(* key generation yields keys of zeros, with which the service may fail     *)
(* after it has stored them.                                                *)
fmna_keys_service_start ==
  /\ pairing_items' = pairing_items \cup {"KEYS"}
  /\ keys_running' \in IF session = "finalized" THEN {TRUE} ELSE {keys_running, TRUE}

(* The state changes before the key service starts. *)
pairing_complete_cmd_handle ==
  LET s == Head(batch).conn IN
  /\ Handling("PAIRING_COMPLETE")
  /\ pairing_conn = s
  /\ pairing_conn' = NULL
  /\ session' = "none"
  /\ owner' = owner \cup ({s} \cap is_valid)
  /\ enter_connected(workq, limit_check, "CONNECTED")
  /\ fmna_keys_service_start
  /\ UNCHANGED <<hostVars, is_valid, is_disconnecting, persistent, conn_timeout,
                 limitVars, is_paired_adv_paused>>

=============================================================================
