----------------------------- MODULE FmnaSerial ------------------------------
(***************************************************************************)
(* fmna_serial_number.c and fmna_nfc.c on top of the keys: the queries of  *)
(* the serial number, by an NFC reader and by a connected owner, and the   *)
(* counter that each of them advances; and the whole of what is stored     *)
(* across fmna_disable(), a factory reset and a loss of power.             *)
(***************************************************************************)
EXTENDS FmnaKeys

CONSTANT MaxQueries       \* Bound: queries answered in one pairing

ASSUME SerialAssumption == MaxQueries \in Nat

VARIABLES
  ready,              \* fmna.c: FMNA_READY
  paired_state,       \* fmna_nfc.c
  increment,          \* sn_counter_update.increment
  retry,              \* sn_counter_update.work delayed by a second
  tag,                \* Counter in the URL of the NFC tag, or what else it serves
  is_lookup_enabled,  \* fmna_serial_number.c, with its timer
  served              \* History: queries answered in this pairing

nfcVars == <<paired_state, increment, retry, tag>>
snVars  == <<ready, nfcVars, is_lookup_enabled, served>>
vars    == <<queueVars, keyVars, envVars, stored, job, on_air, eval, snVars>>

Tag(url, n) == [url |-> url, n |-> n]

SerialWorkItems == WorkItems \cup {"sn"}
KeyEvents ==
  {"PEER_CONNECTED", "PEER_SECURITY_CHANGED", "OWNER_CONNECTED", "PEER_DISCONNECTED",
   "UNPAIR", "LATCH_SEPARATED_KEY", "CONFIGURE_SEPARATED_STATE", "GET_SERIAL_NUMBER",
   "FINALIZE_PAIRING", "PAIRING_COMPLETE", "STATE_CHANGED", "PUBLIC_KEYS_CHANGED",
   "SERIAL_NUMBER_CNT_CHANGED"}
KeyEvent == [id : KeyEvents, conn : Conns, arg : Nat]

TypeOK ==
  /\ KeysTypeOK
  /\ workq \in Seq(SerialWorkItems)
  /\ batch \in Seq(KeyEvent) /\ events \in Seq(KeyEvent)
  /\ ready \in BOOLEAN /\ paired_state \in BOOLEAN
  /\ increment \in Nat /\ retry \in BOOLEAN
  /\ tag \in [url : {"off", "unpaired", "paired"}, n : Nat]
  /\ is_lookup_enabled \in BOOLEAN
  /\ served \in Nat

Init ==
  /\ KeysInit
  /\ ready = FALSE
  /\ paired_state = FALSE /\ increment = 0 /\ retry = FALSE /\ tag = Tag("off", 0)
  /\ is_lookup_enabled = FALSE
  /\ served = 0

-----------------------------------------------------------------------------
(* The tag. *)

counter == stored["SN_QUERY_COUNTER"]

(* fmna_nfc_buffer_setup(): without a counter, or the secret that signs it, *)
(* the emulation stays stopped.                                             *)
fmna_nfc_buffer_setup(paired) ==
  LET signed == counter # None /\ stored["SERVER_SHARED_SECRET"] # None
  IN CASE ~paired            -> Tag("unpaired", 0)
       [] paired /\ signed   -> Tag("paired", counter.n)
       [] paired /\ ~signed  -> Tag("off", 0)

(* nfc_callback(): interrupt context.  That a reader comes between the      *)
(* start of the work item and its look at the increment is "early_read".    *)
nfc_callback ==
  /\ tag.url # "off"
  /\ IF paired_state
     THEN /\ served < MaxQueries
          /\ job.then = "counting" => "early_read" \in KeyRaces
          /\ increment' = increment + 1
          /\ served' = served + 1
          /\ retry' = FALSE
          /\ workq' = Submitted(workq, "sn")
     ELSE UNCHANGED <<increment, served, retry, workq>>
  /\ UNCHANGED <<batch, events, keyVars, envVars, stored, job, on_air, eval, ready,
                 paired_state, tag, is_lookup_enabled>>

(* sn_counter_update_work_handle() starts ... *)
sn_counter_update_work_handle ==
  /\ Idle
  /\ Running("sn")
  /\ PostOn(Tail(workq), <<>>)
  /\ Start(<<>>, "counting", 0)
  /\ UNCHANGED <<keyVars, envVars, stored, on_air, eval, snVars>>

(* ... takes the increment and adds it to the stored counter.  Without one  *)
(* it tries again a second later.                                           *)
sn_counter_update ==
  /\ job.then = "counting"
  /\ IF ~paired_state
     THEN job' = NoJob /\ UNCHANGED retry
     ELSE IF counter = None
          THEN job' = NoJob /\ retry' = TRUE
          ELSE /\ Start(<<<<"SN_QUERY_COUNTER", Key(counter.gen, counter.n + increment)>>>>,
                        "counted", increment)
               /\ UNCHANGED retry
  /\ UNCHANGED <<queueVars, keyVars, envVars, stored, on_air, eval, ready, paired_state,
                 increment, tag, is_lookup_enabled, served>>

sn_counter_cleared ==  \* mutant
  /\ Ending("counted")
  /\ increment' = 0
  /\ Post(<<Ev("SERIAL_NUMBER_CNT_CHANGED", NULL)>>)
  /\ UNCHANGED <<batch, keyVars, envVars, stored, on_air, eval, ready, paired_state, retry,
                 tag, is_lookup_enabled, served>>

(* Reads that came meanwhile are left for another round.                    *)
sn_counter_updated ==
  LET q == IF increment # job.arg THEN Submitted(workq, "sn") ELSE workq IN
  /\ Ending("counted")
  /\ increment' = increment - job.arg
  /\ PostOn(q, <<Ev("SERIAL_NUMBER_CNT_CHANGED", NULL)>>)
  /\ UNCHANGED <<batch, keyVars, envVars, stored, on_air, eval, ready, paired_state, retry,
                 tag, is_lookup_enabled, served>>

(* The second has passed. *)
sn_counter_update_again ==
  /\ retry
  /\ retry' = FALSE
  /\ workq' = Submitted(workq, "sn")
  /\ UNCHANGED <<batch, events, keyVars, envVars, stored, job, on_air, eval, ready,
                 paired_state, increment, tag, is_lookup_enabled, served>>

cnt_changed_unseen ==  \* mutant
  /\ Idle
  /\ Handling("SERIAL_NUMBER_CNT_CHANGED")
  /\ Post(<<>>)
  /\ UNCHANGED <<keyVars, envVars, stored, job, on_air, eval, snVars>>

serial_number_cnt_changed ==
  /\ Idle
  /\ Handling("SERIAL_NUMBER_CNT_CHANGED")
  /\ tag' = IF ready THEN fmna_nfc_buffer_setup(paired_state) ELSE tag
  /\ Post(<<>>)
  /\ UNCHANGED <<keyVars, envVars, stored, job, on_air, eval, ready, paired_state, increment,
                 retry, is_lookup_enabled, served>>

(* The increments of an earlier pairing are dropped. "slow_retry": the work *)
(* that failed in that pairing is still to be tried again.                  *)
state_changed ==
  /\ Idle
  /\ Handling("STATE_CHANGED")
  /\ paired_state' = IF ready THEN is_paired ELSE paired_state
  /\ increment' = IF ~paired_state /\ paired_state' THEN 0 ELSE increment
  /\ served' = IF ~paired_state /\ paired_state' THEN counter.n ELSE served
  /\ retry /\ ~paired_state /\ paired_state' => "slow_retry" \in KeyRaces
  /\ tag' = IF paired_state' # paired_state THEN fmna_nfc_buffer_setup(paired_state') ELSE tag
  /\ Post(<<>>)
  /\ UNCHANGED <<keyVars, envVars, stored, job, on_air, eval, ready, retry,
                 is_lookup_enabled>>

-----------------------------------------------------------------------------
(* The query of an owner. *)

fmna_serial_number_lookup_enable ==
  /\ ready /\ MaxQueries > 0
  /\ is_lookup_enabled' = TRUE
  /\ UNCHANGED <<queueVars, keyVars, envVars, stored, job, on_air, eval, ready, nfcVars,
                 served>>

sn_lookup_timeout_work_handle ==
  /\ Between /\ Idle
  /\ is_lookup_enabled
  /\ is_lookup_enabled' = FALSE
  /\ UNCHANGED <<queueVars, keyVars, envVars, stored, job, on_air, eval, ready, nfcVars,
                 served>>

owner_query ==
  /\ state = "CONNECTED" /\ link # "down"
  /\ ~Pending("OWNER_CONNECTED", 1) /\ ~Pending("PEER_SECURITY_CHANGED", 1)
  /\ served < MaxQueries
  /\ Write("GET_SERIAL_NUMBER", 0)
  /\ UNCHANGED snVars

(* The answer goes out before the counter advances. *)
serial_number_request_handle ==
  /\ Idle
  /\ Handling("GET_SERIAL_NUMBER")
  /\ IF is_paired /\ is_lookup_enabled /\ counter # None
     THEN /\ served' = served + 1
          /\ Start(<<<<"SN_QUERY_COUNTER", Roll(counter)>>>>, "served", 0)
          /\ UNCHANGED <<workq, events>>
     ELSE Post(<<>>) /\ UNCHANGED <<served, job>>
  /\ UNCHANGED <<keyVars, envVars, stored, on_air, eval, ready, nfcVars, is_lookup_enabled>>

serial_number_request_ends ==
  /\ Ending("served")
  /\ Post(<<Ev("SERIAL_NUMBER_CNT_CHANGED", NULL)>>)
  /\ UNCHANGED <<batch, keyVars, envVars, stored, on_air, eval, snVars>>

-----------------------------------------------------------------------------
(* Enabling, disabling, factory reset, power. *)

(* The stored pairing is restored when it is complete; the tag is set up.   *)
fmna_enable ==
  LET paired == fmna_storage_pairing_data_check IN
  /\ Between /\ Idle
  /\ ~ready /\ link = "down"
  /\ ready' = TRUE
  /\ state' = IF paired THEN "SEPARATED" ELSE "UNPAIRED"
  /\ IF paired THEN paired_state_restore ELSE UNCHANGED keyVars
  /\ on_air' = IF paired
               THEN [kind |-> "separated", key |-> restored_secondary, secondary |-> TRUE]
               ELSE [NoPayload EXCEPT !.kind = "unpaired"]
  /\ paired_state' = paired
  /\ tag' = fmna_nfc_buffer_setup(paired)
  /\ served' = counter.n
  /\ Post(<<Ev("STATE_CHANGED", NULL)>>)
  /\ UNCHANGED <<batch, unpair_pending, link, pairing, torn, stored, job, eval, increment,
                 retry, is_lookup_enabled>>

(* The peers are disconnected, the tag goes off.  The call comes from the   *)
(* workqueue, as fmna.h:537 recommends, so no handler is in progress; that  *)
(* events wait meanwhile is "busy_disable".                                 *)
fmna_disable ==
  /\ Between /\ Idle
  /\ ready
  /\ events # <<>> => "busy_disable" \in KeyRaces
  /\ Queued(workq, "keys") => "late_rotation" \in KeyRaces
  /\ ready' = FALSE
  /\ state' = "DISABLED" /\ unpair_pending' = FALSE /\ link' = "down"
  /\ IF state = "UNPAIRED" THEN UNCHANGED <<keyVars, eval>> ELSE fmna_keys_service_stop
  /\ on_air' = NoPayload
  /\ tag' = Tag("off", 0) /\ increment' = 0 /\ retry' = FALSE
  /\ PostOn(Cancelled(workq, "sn"), <<Ev("STATE_CHANGED", NULL)>>)
  /\ UNCHANGED <<batch, pairing, torn, stored, job, paired_state, is_lookup_enabled, served>>

fmna_factory_reset ==
  /\ Between /\ Idle
  /\ ~ready
  /\ Start(fmna_storage_pairing_data_delete, "erased", 0)
  /\ UNCHANGED <<queueVars, keyVars, envVars, stored, on_air, eval, snVars>>

factory_reset_ends ==
  /\ Ending("erased")
  /\ UNCHANGED <<queueVars, keyVars, envVars, stored, on_air, eval, snVars>>

(* What is left is the flash.  The keys in memory stand for those of before *)
(* until the next restart replaces them.                                    *)
power_loss ==
  /\ job.writes # <<>> => torn < MaxTorn
  /\ torn' = IF job.writes # <<>> THEN torn + 1 ELSE torn
  /\ workq' = <<>> /\ batch' = <<>> /\ events' = <<>>
  /\ state' = "DISABLED" /\ unpair_pending' = FALSE /\ link' = "down"
  /\ job' = NoJob
  /\ fmna_keys_service_stop
  /\ on_air' = NoPayload
  /\ ready' = FALSE
  /\ paired_state' = FALSE /\ increment' = 0 /\ retry' = FALSE /\ tag' = Tag("off", 0)
  /\ is_lookup_enabled' = FALSE
  /\ UNCHANGED <<pairing, stored, served>>

-----------------------------------------------------------------------------
event_work == Idle /\ TakeEvents
              /\ UNCHANGED <<keyVars, envVars, stored, job, on_air, eval>>

KeysNext ==
  \/ event_work
  \/ item_store
  \/ key_rotation_timeout_handle
  \/ key_rotation_work_handle
  \/ rotation_ends
  \/ public_keys_changed
  \/ peer_arrives
  \/ peer_leaves
  \/ peer_connected
  \/ peer_security_changed
  \/ owner_connected
  \/ owner_disconnected
  \/ owner_unpaired
  \/ unpairing_ends
  \/ nearby_separated_work_handle
  \/ owner_cp_write
  \/ pairing_cp_write
  \/ unpair_request_handle
  \/ separated_key_latch_request_handle
  \/ separated_state_configure_request_handle
  \/ finalize_pairing_cmd_handle
  \/ finalizing_ends
  \/ pairing_complete_cmd_handle
  \/ keys_service_timer_start

Next ==
  \/ KeysNext /\ UNCHANGED snVars
  \/ owner_query
  \/ nfc_callback
  \/ sn_counter_update_work_handle
  \/ sn_counter_update
  \/ sn_counter_updated
  \/ sn_counter_update_again
  \/ serial_number_cnt_changed
  \/ state_changed
  \/ fmna_serial_number_lookup_enable
  \/ sn_lookup_timeout_work_handle
  \/ serial_number_request_handle
  \/ serial_number_request_ends
  \/ fmna_enable
  \/ fmna_disable
  \/ fmna_factory_reset
  \/ factory_reset_ends
  \/ power_loss

Spec == Init /\ [][Next]_vars

-----------------------------------------------------------------------------
(* The key at an index of a pairing is the key the owner's device computes  *)
(* for that index: the rotation of fmna_keys.c, the period of the secondary *)
(* key, what is stored and what is restored agree on it.                    *)
KeysInStep ==
  is_paired /\ torn = 0 =>
    /\ psk.n = cnt /\ ssk.n = scnt
    /\ scnt = SECONDARY_KEY_INDEX_FROM_PRIMARY(cnt)

(* A restart continues where the keys are: what is in the flash, rolled to  *)
(* the stored index, is the state of the running key service.               *)
StoredKeysCurrent ==
  is_paired /\ torn = 0 /\ Idle =>
    /\ restored_primary = cnt
    /\ restored_psk = psk
    /\ restored_secondary = ssk

(* No key of a pairing returns, across restarts and losses of power; a key  *)
(* that has been on air is not used again.                                  *)
KeysNeverReturn ==
  [][torn' = 0 /\ psk'.gen = psk.gen => psk'.n >= psk.n /\ ssk'.n >= ssk.n]_vars

(* A pairing that is restored is one pairing: no item of another one is     *)
(* among the eight, although deleting and storing them takes many writes.   *)
OnePairing == <<stored["MASTER_PUBLIC_KEY"].gen, stored["PRIMARY_SK"].gen,
                stored["SECONDARY_SK"].gen, stored["PRIMARY_KEY_INDEX"].gen,
                stored["CURRENT_KEYS_INDEX_DIFF"].gen, stored["SERVER_SHARED_SECRET"].gen,
                stored["SN_QUERY_COUNTER"].gen, stored["ICLOUD_ID"].gen>>

OnePairingRestored ==
  is_paired /\ Idle => \A i, j \in DOMAIN OnePairing : OnePairing[i] = OnePairing[j]

(* The separated key becomes the secondary key with the evaluation index    *)
(* the owner has asked for, and not later, whatever was latched and however *)
(* the index lies to the secondary key's own period.                        *)
EvaluationKept == eval # 0 /\ cnt >= eval => use_secondary_pk /\ latched = None

(* In SEPARATED the key on air is the separated key, but for the secondary  *)
(* key that has been rolled before the end of the separated key period: the *)
(* previous one stays on air up to there.                                   *)
SeparatedKeyOnAir ==
  state = "SEPARATED" /\ Idle /\ NothingQueued =>
    \/ on_air = separated_payload
    \/ /\ latched = None /\ use_secondary_pk /\ cnt % P < delta
       /\ on_air = [separated_payload EXCEPT !.key.n = @ - 1]

(* Every query that was answered is in the counter or waits to be added to  *)
(* it, however reads, work item, owner queries and restarts interleave.     *)
QueriesCounted ==
  is_paired /\ paired_state /\ job.writes = <<>> /\ job.then # "counted" =>
    counter.n + increment = served

(* Once nothing waits, the tag serves the next counter of the pairing.      *)
TagCurrent ==
  ready /\ Idle /\ NothingQueued =>
    tag = IF is_paired THEN Tag("paired", counter.n) ELSE Tag("unpaired", 0)

-----------------------------------------------------------------------------
(* What the code asserts and an interleaving breaks.                        *)

(* "Secondary Key is not synced properly with Primary Key": at a rotation   *)
(* the secondary key is at the expected index or one behind.                *)
SecondarySynced ==
  Idle /\ Between /\ workq # <<>> /\ Head(workq) = "keys" =>
    SECONDARY_KEY_INDEX_FROM_PRIMARY(cnt + 1) - scnt \in {0, 1}

(* "fmna serial number increment must be greater than zero".                *)
IncrementPositive ==
  job.then = "counting" /\ paired_state /\ counter # None => increment > 0

=============================================================================
