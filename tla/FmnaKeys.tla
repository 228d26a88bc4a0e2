------------------------------ MODULE FmnaKeys -------------------------------
(***************************************************************************)
(* fmna_keys.c and fmna_storage.c: the rotation of the primary and of the  *)
(* secondary key, the separated key, what of it is stored item by item,    *)
(* and what a restart makes of the stored items.                           *)
(*                                                                         *)
(* A key is a pair [gen, n]: the n-th key of the gen-th pairing.  A stored *)
(* item is such a pair too, n being the value of an index or a counter.  A *)
(* handler that writes to the flash is a job: it has started, its writes   *)
(* happen one by one, and it ends; the workqueue runs nothing else then,   *)
(* but interrupts and a power loss may come between two writes.            *)
(*                                                                         *)
(* The rest of the stack is reduced to one peer: the states, the events of *)
(* its link and its commands, in the order of the event queue.             *)
(***************************************************************************)
EXTENDS FmnaEvents

CONSTANTS
  PRIMARY_KEYS_PER_SECONDARY_KEY,
  STORAGE_UPDATE_PERIOD,
  SECONDARY_KEY_EVAL_INDEX_LOWER_BOUND,
  OwnerCommands, \* Commands a connected owner writes
  KeyRaces,     \* "late_rotation": a rotation is queued when the service stops
  MaxIndex,     \* Bound: keys are rotated up to this index
  MaxPairings,  \* Bound: pairings that reach the Finalize command
  MaxTorn,      \* Bound: power losses between two writes of a handler
  MaxKeyEvents  \* Bound: a command is written while fewer events wait

ASSUME KeysAssumption ==
  /\ PRIMARY_KEYS_PER_SECONDARY_KEY \in Nat
  /\ STORAGE_UPDATE_PERIOD \in 2..PRIMARY_KEYS_PER_SECONDARY_KEY
  /\ SECONDARY_KEY_EVAL_INDEX_LOWER_BOUND \in 0..(PRIMARY_KEYS_PER_SECONDARY_KEY - 1)
  /\ OwnerCommands \subseteq {"UNPAIR", "LATCH_SEPARATED_KEY", "CONFIGURE_SEPARATED_STATE"}
  /\ KeyRaces \subseteq {"late_rotation", "early_read", "slow_retry", "busy_disable"}
  /\ MaxIndex \in Nat /\ MaxPairings \in Nat /\ MaxTorn \in Nat /\ MaxKeyEvents \in Nat

VARIABLES
  state,              \* fmna_state.c
  unpair_pending,
  link,               \* The peer's link is encrypted, and what it paired
  stored,             \* The pairing items in the flash
  job,                \* The handler that writes to the flash
  psk, ssk,           \* curr_primary_sk, curr_secondary_sk
  cnt, scnt,          \* primary_pk_rotation_cnt, secondary_pk_rotation_cnt
  delta,              \* secondary_pk_rotation_delta
  latched,            \* latched_primary_pk while is_primary_pk_latched
  use_secondary_pk,
  key_timer,          \* key_rotation_timer running
  on_air,             \* Advertising payload: its kind and the key in it
  pairing, torn, eval \* History: pairings, torn writes, evaluation index asked for

keyVars == <<psk, ssk, cnt, scnt, delta, latched, use_secondary_pk, key_timer>>
envVars == <<state, unpair_pending, link, pairing, torn>>

P == PRIMARY_KEYS_PER_SECONDARY_KEY
U == STORAGE_UPDATE_PERIOD

Items ==  \* pairing_item_ids[], in the order in which they are deleted
  <<"MASTER_PUBLIC_KEY", "PRIMARY_SK", "SECONDARY_SK", "PRIMARY_KEY_INDEX",
    "CURRENT_KEYS_INDEX_DIFF", "SERVER_SHARED_SECRET", "SN_QUERY_COUNTER", "ICLOUD_ID">>
ItemIds == {Items[i] : i \in DOMAIN Items}

Key(g, n) == [gen |-> g, n |-> n]
None      == Key(0, 0)
Keys      == [gen : Nat, n : Nat]
NoJob     == [writes |-> <<>>, then |-> "none", arg |-> 0]
NoPayload == [kind |-> "off", key |-> None, secondary |-> FALSE]

Jobs == {"none", "rotated", "unpaired", "finalized", "started", "erased",
         "counting", "counted", "served"}

KeysTypeOK ==
  /\ state \in {"DISABLED", "UNPAIRED", "CONNECTED", "NEARBY", "SEPARATED"}
  /\ unpair_pending \in BOOLEAN
  /\ link \in {"down", "up", "finalized"}
  /\ stored \in [ItemIds -> Keys]
  /\ job \in [writes : Seq(ItemIds \X Keys), then : Jobs, arg : Nat]
  /\ psk \in Keys /\ ssk \in Keys /\ latched \in Keys
  /\ cnt \in Nat /\ scnt \in Nat /\ delta \in Nat
  /\ use_secondary_pk \in BOOLEAN /\ key_timer \in BOOLEAN
  /\ on_air \in [kind : {"off", "unpaired", "nearby", "separated"}, key : Keys,
                 secondary : BOOLEAN]
  /\ pairing \in Nat /\ torn \in Nat /\ eval \in Nat

KeysInit ==
  /\ workq = <<>> /\ batch = <<>> /\ events = <<>>
  /\ state = "DISABLED" /\ unpair_pending = FALSE /\ link = "down"
  /\ stored = [i \in ItemIds |-> None] /\ job = NoJob
  /\ psk = None /\ ssk = None /\ latched = None
  /\ cnt = 0 /\ scnt = 0 /\ delta = 0
  /\ use_secondary_pk = FALSE /\ key_timer = FALSE
  /\ on_air = NoPayload
  /\ pairing = 0 /\ torn = 0 /\ eval = 0

is_paired == state \notin {"DISABLED", "UNPAIRED"}

(* The workqueue thread is not inside a handler that writes. *)
Idle == job = NoJob

-----------------------------------------------------------------------------
(* Storage (fmna_storage.c). *)

fmna_storage_pairing_data_check == \A i \in ItemIds : stored[i] # None

deleted_backwards ==  \* mutant
  [i \in 1..Len(Items) |-> <<Items[Len(Items) + 1 - i], None>>]
fmna_storage_pairing_data_delete == [i \in 1..Len(Items) |-> <<Items[i], None>>]

(* fmna_storage_pairing_item_store(), or the deletion of an item. *)
item_store ==
  /\ job.writes # <<>>
  /\ stored' = [stored EXCEPT ![Head(job.writes)[1]] = Head(job.writes)[2]]
  /\ job' = [job EXCEPT !.writes = Tail(@)]
  /\ UNCHANGED <<queueVars, keyVars, envVars, on_air, eval>>

(* A handler starts the writes ws and does what "then" names afterwards.    *)
Start(ws, then, arg) == job' = [writes |-> ws, then |-> then, arg |-> arg]

(* The handler has written everything and ends. *)
Ending(then) ==
  /\ job.writes = <<>> /\ job.then = then
  /\ job' = NoJob

-----------------------------------------------------------------------------
(* Payloads (fmna_adv.c, fmna_state.c). *)

fmna_keys_separated_key_get ==
  CASE latched # None                       -> [key |-> latched, secondary |-> FALSE]
    [] latched = None /\ use_secondary_pk   -> [key |-> ssk, secondary |-> TRUE]
    [] latched = None /\ ~use_secondary_pk  -> [key |-> psk, secondary |-> FALSE]

separated_payload ==
  [kind |-> "separated", key |-> fmna_keys_separated_key_get.key,
   secondary |-> fmna_keys_separated_key_get.secondary]

payload(st) ==
  CASE st = "DISABLED"              -> NoPayload
    [] st = "UNPAIRED"              -> [NoPayload EXCEPT !.kind = "unpaired"]
    [] st \in {"CONNECTED", "NEARBY"} -> [kind |-> "nearby", key |-> psk, secondary |-> FALSE]
    [] st = "SEPARATED"             -> separated_payload

-----------------------------------------------------------------------------
(* Rotation. *)

SECONDARY_KEY_INDEX_FROM_PRIMARY(index) == (index \div P) + 1

secondary_every_rotation(index) == scnt < index  \* mutant
secondary_key_is_outdated(index) ==
  SECONDARY_KEY_INDEX_FROM_PRIMARY(index) - scnt # 0

Roll(k) == [k EXCEPT !.n = @ + 1]

rotating_key_storage_update(p, s, index) ==
  <<<<"PRIMARY_SK", p>>, <<"SECONDARY_SK", s>>,
    <<"PRIMARY_KEY_INDEX", Key(p.gen, index)>>, <<"CURRENT_KEYS_INDEX_DIFF", Key(p.gen, 0)>>>>

index_not_stored(p, s, index) ==  \* mutant
  IF index % U # 0
  THEN <<<<"CURRENT_KEYS_INDEX_DIFF", Key(p.gen, index % U)>>>>
  ELSE <<<<"PRIMARY_SK", p>>, <<"SECONDARY_SK", s>>,
         <<"CURRENT_KEYS_INDEX_DIFF", Key(p.gen, 0)>>>>

(* The keys every STORAGE_UPDATE_PERIOD rotations, otherwise the distance   *)
(* to those that are stored.                                                *)
rotation_writes(p, s, index) ==
  IF index % U # 0
  THEN <<<<"CURRENT_KEYS_INDEX_DIFF", Key(p.gen, index % U)>>>>
  ELSE rotating_key_storage_update(p, s, index)

(* Stopping the service does not take a rotation out of the workqueue.      *)
stop_expected ==
  Pending("PEER_DISCONNECTED", 1) /\ (unpair_pending \/ Pending("UNPAIR", 1))

(* Interrupt context. *)
key_rotation_timeout_handle ==
  /\ key_timer
  /\ cnt < MaxIndex
  /\ stop_expected => "late_rotation" \in KeyRaces
  /\ workq' = Submitted(workq, "keys")
  /\ workq' # workq
  /\ UNCHANGED <<batch, events, keyVars, envVars, stored, job, on_air, eval>>

not_changed_by_period(ended) == ~use_secondary_pk  \* mutant
separated_key_changed(ended) == ended \/ latched # None \/ ~use_secondary_pk

(* The primary key, and the secondary key when it is due; the separated key *)
(* period ends at the rotation offset.                                      *)
key_rotation_work_handle ==
  LET index   == cnt + 1
      ended   == index % P = delta
      rolled  == secondary_key_is_outdated(index)
      primary == Roll(psk)
      second  == IF rolled THEN Roll(ssk) ELSE ssk
  IN
  /\ Idle
  /\ Running("keys")
  /\ cnt' = index
  /\ psk' = primary
  /\ ssk' = second
  /\ scnt' = IF rolled THEN scnt + 1 ELSE scnt
  /\ latched' = IF ended THEN None ELSE latched
  /\ use_secondary_pk' = (ended \/ use_secondary_pk)
  /\ Start(rotation_writes(primary, second, index), "rotated",
           IF separated_key_changed(ended) THEN 1 ELSE 0)
  /\ PostOn(Tail(workq), <<>>)
  /\ UNCHANGED <<delta, key_timer, envVars, stored, on_air, eval>>

rotation_ends ==
  /\ Ending("rotated")
  /\ Post(<<EvArg("PUBLIC_KEYS_CHANGED", NULL, job.arg)>>)
  /\ UNCHANGED <<batch, keyVars, envVars, stored, on_air, eval>>

(* fmna_public_keys_changed() of fmna_state.c. *)
public_keys_changed ==
  /\ Idle
  /\ Handling("PUBLIC_KEYS_CHANGED")
  /\ on_air' = IF state = "UNPAIRED" \/ (state = "SEPARATED" /\ Head(batch).arg = 0)
               THEN on_air ELSE payload(state)
  /\ Post(<<>>)
  /\ UNCHANGED <<keyVars, envVars, stored, job, eval>>

-----------------------------------------------------------------------------
(* The service starts, stops and is restored. *)

(* fmna_keys_service_stop(): the keys themselves stay in memory. *)
fmna_keys_service_stop ==
  /\ key_timer' = FALSE
  /\ cnt' = 0 /\ scnt' = 0 /\ delta' = 0
  /\ latched' = None /\ use_secondary_pk' = FALSE
  /\ eval' = 0
  /\ UNCHANGED <<psk, ssk>>

(* paired_state_restore(): the stored keys are rolled to the current index, *)
(* the secondary one at each multiple of its period on the way.             *)
restored_primary   == stored["PRIMARY_KEY_INDEX"].n + stored["CURRENT_KEYS_INDEX_DIFF"].n
restored_secondary ==
  [stored["SECONDARY_SK"] EXCEPT
     !.n = @ + (restored_primary \div P) - (stored["PRIMARY_KEY_INDEX"].n \div P)]
restored_at_index == stored["PRIMARY_SK"]  \* mutant
restored_psk ==
  [stored["PRIMARY_SK"] EXCEPT !.n = @ + stored["CURRENT_KEYS_INDEX_DIFF"].n]

paired_state_restore ==
  /\ cnt' = restored_primary
  /\ psk' = restored_psk
  /\ ssk' = restored_secondary
  /\ scnt' = SECONDARY_KEY_INDEX_FROM_PRIMARY(restored_primary)
  /\ use_secondary_pk' = TRUE
  /\ key_timer' = TRUE
  /\ UNCHANGED <<delta, latched>>

(* The writes of fmna_keys_service_start(): the keys at index 0, then what  *)
(* has changed at index 1.  The primary index itself starts where it is.    *)
service_start_writes(g) ==
  <<<<"MASTER_PUBLIC_KEY", Key(g, 0)>>>>
    \o rotating_key_storage_update(Key(g, 0), Key(g, 0), cnt)
    \o <<<<"CURRENT_KEYS_INDEX_DIFF", Key(g, cnt + 1)>>, <<"SECONDARY_SK", Key(g, 1)>>>>

-----------------------------------------------------------------------------
(* The peer and the state machine around the keys. *)

(* fmna_conn.c: the peer connects, with the advertising set, and encrypts   *)
(* its link.                                                                *)
peer_arrives ==
  /\ state # "DISABLED" /\ link = "down"
  /\ ~Pending("PEER_DISCONNECTED", 1)
  /\ Len(events) < MaxKeyEvents
  /\ on_air.kind # "off"
  /\ on_air' = NoPayload
  /\ link' = "up"
  /\ Post(<<Ev("PEER_CONNECTED", 1), Ev("PEER_SECURITY_CHANGED", 1)>>)
  /\ UNCHANGED <<batch, keyVars, state, unpair_pending, pairing, torn, stored, job, eval>>

peer_leaves ==
  /\ link # "down"
  /\ Queued(workq, "keys") /\ (unpair_pending \/ Pending("UNPAIR", 1))
       => "late_rotation" \in KeyRaces
  /\ link' = "down"
  /\ Post(<<Ev("PEER_DISCONNECTED", 1)>>)
  /\ UNCHANGED <<batch, keyVars, state, unpair_pending, pairing, torn, stored, job,
                 on_air, eval>>

peer_connected ==
  /\ Idle
  /\ Handling("PEER_CONNECTED")
  /\ on_air' = payload(state)
  /\ Post(<<>>)
  /\ UNCHANGED <<keyVars, envVars, stored, job, eval>>

(* The separated key is the primary key again once an owner has come.       *)
peer_security_changed ==
  /\ Idle
  /\ Handling("PEER_SECURITY_CHANGED")
  /\ IF is_paired
     THEN use_secondary_pk' = FALSE /\ eval' = 0 /\ Post(<<Ev("OWNER_CONNECTED", 1)>>)
     ELSE UNCHANGED <<use_secondary_pk, eval>> /\ Post(<<>>)
  /\ UNCHANGED <<psk, ssk, cnt, scnt, delta, latched, key_timer, envVars, stored, job,
                 on_air>>

owner_connected ==
  /\ Idle
  /\ Handling("OWNER_CONNECTED")
  /\ state' = "CONNECTED"
  /\ on_air' = payload("CONNECTED")
  /\ Post(IF state = "CONNECTED" THEN <<>> ELSE <<Ev("STATE_CHANGED", NULL)>>)
  /\ UNCHANGED <<keyVars, unpair_pending, link, pairing, torn, stored, job, eval>>

(* The owner leaves CONNECTED: for NEARBY, or with a nearby timeout of 0    *)
(* for SEPARATED at once, or the accessory is unpaired.                     *)
owner_disconnected ==
  /\ Idle
  /\ Handling("PEER_DISCONNECTED")
  /\ ~unpair_pending
  /\ state' \in IF state = "CONNECTED" THEN {"NEARBY", "SEPARATED"} ELSE {state}
  /\ on_air' = payload(state')
  /\ Post(IF state = state' THEN <<>> ELSE <<Ev("STATE_CHANGED", NULL)>>)
  /\ UNCHANGED <<keyVars, unpair_pending, link, pairing, torn, stored, job, eval>>

owner_unpaired ==
  /\ Idle
  /\ Handling("PEER_DISCONNECTED")
  /\ unpair_pending
  /\ state' = "UNPAIRED"
  /\ fmna_keys_service_stop
  /\ Start(fmna_storage_pairing_data_delete, "unpaired", 0)
  /\ UNCHANGED <<workq, events, unpair_pending, link, pairing, torn, stored, on_air>>

unpairing_ends ==
  /\ Ending("unpaired")
  /\ unpair_pending' = FALSE
  /\ on_air' = payload("UNPAIRED")
  /\ Post(<<Ev("STATE_CHANGED", NULL)>>)
  /\ UNCHANGED <<batch, keyVars, state, link, pairing, torn, stored, eval>>

nearby_separated_work_handle ==
  /\ Between /\ Idle
  /\ state = "NEARBY"
  /\ state' = "SEPARATED"
  /\ on_air' = separated_payload
  /\ Post(<<Ev("STATE_CHANGED", NULL)>>)
  /\ UNCHANGED <<batch, keyVars, unpair_pending, link, pairing, torn, stored, job, eval>>

-----------------------------------------------------------------------------
(* Commands. *)

Write(id, arg) ==
  /\ Len(events) < MaxKeyEvents
  /\ Post(<<EvArg(id, 1, arg)>>)
  /\ UNCHANGED <<batch, keyVars, envVars, stored, job, on_air, eval>>

(* A connected owner.  The evaluation index may lie behind the current one. *)
owner_cp_write ==
  /\ state = "CONNECTED" /\ link # "down"
  /\ ~Pending("PEER_SECURITY_CHANGED", 1) /\ ~Pending("OWNER_CONNECTED", 1)
  /\ \E id \in OwnerCommands :
       \E e \in IF id = "CONFIGURE_SEPARATED_STATE" THEN 0..MaxIndex ELSE {0} : Write(id, e)

(* A peer that pairs, in the order of the pairing. *)
pairing_cp_write ==
  /\ state = "UNPAIRED"
  /\ ~Pending("PEER_SECURITY_CHANGED", 1)
  /\ ~Pending("FINALIZE_PAIRING", 1) /\ job.then # "finalized"
  /\ ~Pending("PAIRING_COMPLETE", 1)
  /\ \/ link = "up" /\ pairing < MaxPairings /\ Write("FINALIZE_PAIRING", 0)
     \/ link = "finalized" /\ Write("PAIRING_COMPLETE", 0)

unpair_request_handle ==
  /\ Idle
  /\ Handling("UNPAIR")
  /\ unpair_pending' = TRUE
  /\ Post(<<>>)
  /\ UNCHANGED <<keyVars, state, link, pairing, torn, stored, job, on_air, eval>>

separated_key_latch_request_handle ==
  /\ Idle
  /\ Handling("LATCH_SEPARATED_KEY")
  /\ latched' = psk
  /\ eval' = 0
  /\ Post(<<>>)
  /\ UNCHANGED <<psk, ssk, cnt, scnt, delta, use_secondary_pk, key_timer, envVars, stored,
                 job, on_air>>

(* secondary_key_eval_index_reconfigure(): the index that is evaluated, and *)
(* the offset at which the periods of the separated key end from now on.    *)
eval_index(e) == IF e <= cnt THEN e + P ELSE e

rotation_distance(e) == e - cnt  \* mutant
rotation_offset(e)   == eval_index(e) % P

(* The lower bound of an evaluation index. *)
eval_lower_bound ==
  IF cnt > SECONDARY_KEY_EVAL_INDEX_LOWER_BOUND
  THEN cnt - SECONDARY_KEY_EVAL_INDEX_LOWER_BOUND ELSE 0

(* The time of the next roll, which the timer takes over, may be refused.   *)
separated_state_configure_request_handle ==
  LET e == Head(batch).arg IN
  /\ Idle
  /\ Handling("CONFIGURE_SEPARATED_STATE")
  /\ \/ /\ e \in eval_lower_bound..(cnt + P)
        /\ latched' = IF e <= cnt THEN psk ELSE latched
        /\ delta' = rotation_offset(e)
        /\ eval' = eval_index(e)
        /\ key_timer' = TRUE
     \/ UNCHANGED <<latched, delta, key_timer, eval>>
  /\ Post(<<>>)
  /\ UNCHANGED <<psk, ssk, cnt, scnt, use_secondary_pk, envVars, stored, job, on_air>>

(* fmna_pair.c, pairing_status_generate(): the first items. *)
finalize_pairing_cmd_handle ==
  LET g == pairing + 1 IN
  /\ Idle
  /\ Handling("FINALIZE_PAIRING")
  /\ pairing' = g
  /\ Start(<<<<"SERVER_SHARED_SECRET", Key(g, 0)>>, <<"SN_QUERY_COUNTER", Key(g, 0)>>,
             <<"ICLOUD_ID", Key(g, 0)>>>>, "finalized", 0)
  /\ UNCHANGED <<workq, events, keyVars, state, unpair_pending, link, torn, stored, on_air,
                 eval>>

finalizing_ends ==
  /\ Ending("finalized")
  /\ link' = IF link = "up" THEN "finalized" ELSE link
  /\ UNCHANGED <<queueVars, keyVars, state, unpair_pending, pairing, torn, stored, on_air,
                 eval>>

(* The state changes, the keys start at index 1. *)
pairing_complete_cmd_handle ==
  /\ Idle
  /\ Handling("PAIRING_COMPLETE")
  /\ state' = "CONNECTED"
  /\ Start(service_start_writes(pairing), "started", 0)
  /\ psk' = Key(pairing, 1) /\ ssk' = Key(pairing, 1)
  /\ cnt' = cnt + 1 /\ scnt' = scnt + 1
  /\ Post(<<Ev("STATE_CHANGED", NULL)>>)
  /\ UNCHANGED <<delta, latched, use_secondary_pk, key_timer, unpair_pending, link, pairing,
                 torn, stored, on_air, eval>>

keys_service_timer_start ==
  /\ Ending("started")
  /\ key_timer' = TRUE
  /\ UNCHANGED <<queueVars, psk, ssk, cnt, scnt, delta, latched, use_secondary_pk, envVars,
                 stored, on_air, eval>>

=============================================================================
