---- MODULE FmnaSerialProofs ----
(***************************************************************************)
(* Proofs about the keys, their storage and the serial number counter.     *)
(* The order in which events are handled is what keeps a pairing together: *)
(* OrderInv relates the queues to the states.  EvalInv follows the index   *)
(* of the evaluation, KeysInv the keys in memory and in the flash.         *)
(***************************************************************************)
EXTENDS FmnaSerial, FmnaEventsProofs

-----------------------------------------------------------------------------
(* Types. *)

LEMMA KeyConstants ==
  /\ P \in Nat /\ U \in Nat /\ 2 <= U /\ U <= P
  /\ SECONDARY_KEY_EVAL_INDEX_LOWER_BOUND \in Nat
  /\ SECONDARY_KEY_EVAL_INDEX_LOWER_BOUND < P
<1>1. /\ PRIMARY_KEYS_PER_SECONDARY_KEY \in Nat
      /\ STORAGE_UPDATE_PERIOD \in 2..PRIMARY_KEYS_PER_SECONDARY_KEY
      /\ SECONDARY_KEY_EVAL_INDEX_LOWER_BOUND \in 0..(PRIMARY_KEYS_PER_SECONDARY_KEY - 1)
  BY KeysAssumption, Zenon
<1>. QED  BY <1>1 DEF P, U

LEMMA ItemsProperties ==
  /\ Len(Items) = 8 /\ DOMAIN Items = 1..8
  /\ ItemIds = {"MASTER_PUBLIC_KEY", "PRIMARY_SK", "SECONDARY_SK", "PRIMARY_KEY_INDEX",
                "CURRENT_KEYS_INDEX_DIFF", "SERVER_SHARED_SECRET", "SN_QUERY_COUNTER",
                "ICLOUD_ID"}
<1>1. Len(Items) = 8 /\ DOMAIN Items = 1..8
  BY DEF Items
<1>2. 1..8 = {1, 2, 3, 4, 5, 6, 7, 8}
  OBVIOUS
<1>. QED  BY <1>1, <1>2 DEF ItemIds, Items

Writes == Seq(ItemIds \X Keys)

LEMMA KeyType ==
  ASSUME NEW g \in Nat, NEW n \in Nat
  PROVE  Key(g, n) \in Keys /\ Key(g, n).gen = g /\ Key(g, n).n = n
BY DEF Key, Keys

LEMMA NoneType == None \in Keys /\ None.gen = 0
BY KeyType DEF None

LEMMA RollType ==
  ASSUME NEW k \in Keys
  PROVE  Roll(k) \in Keys /\ Roll(k).gen = k.gen /\ Roll(k).n = k.n + 1
BY DEF Roll, Keys

LEMMA OneWrite ==
  ASSUME NEW i \in ItemIds, NEW k \in Keys
  PROVE  <<<<i, k>>>> \in Writes
BY DEF Writes

LEMMA UpdateType ==
  ASSUME NEW p \in Keys, NEW s \in Keys, NEW index \in Nat
  PROVE  /\ rotating_key_storage_update(p, s, index) \in Writes
         /\ rotation_writes(p, s, index) \in Writes
<1>1. p.gen \in Nat /\ index % U \in Nat
  BY KeyConstants DEF Keys
<1>2. Key(p.gen, index) \in Keys /\ Key(p.gen, 0) \in Keys /\ Key(p.gen, index % U) \in Keys
  BY <1>1, KeyType
<1>3. {"PRIMARY_SK", "SECONDARY_SK", "PRIMARY_KEY_INDEX", "CURRENT_KEYS_INDEX_DIFF"} \subseteq ItemIds
  BY ItemsProperties
<1>4. rotating_key_storage_update(p, s, index) \in Writes
  BY <1>2, <1>3 DEF rotating_key_storage_update, Writes
<1>. QED  BY <1>2, <1>3, <1>4, OneWrite DEF rotation_writes

LEMMA DeleteType ==
  fmna_storage_pairing_data_delete \in Writes
<1>1. \A i \in 1..8 : <<Items[i], None>> \in ItemIds \X Keys
  BY ItemsProperties, NoneType DEF ItemIds
<1>. QED  BY <1>1, ItemsProperties DEF fmna_storage_pairing_data_delete, Writes

LEMMA StartWritesType ==
  ASSUME NEW g \in Nat, cnt \in Nat
  PROVE  service_start_writes(g) \in Writes
<1>1. /\ Key(g, 0) \in Keys /\ Key(g, cnt + 1) \in Keys /\ Key(g, 1) \in Keys
  BY KeyType
<1>2. {"MASTER_PUBLIC_KEY", "CURRENT_KEYS_INDEX_DIFF", "SECONDARY_SK"} \subseteq ItemIds
  BY ItemsProperties
<1>3. <<<<"MASTER_PUBLIC_KEY", Key(g, 0)>>>> \in Writes
  BY <1>1, <1>2, OneWrite
<1>4. rotating_key_storage_update(Key(g, 0), Key(g, 0), cnt) \in Writes
  BY <1>1, UpdateType
<1>5. <<<<"CURRENT_KEYS_INDEX_DIFF", Key(g, cnt + 1)>>, <<"SECONDARY_SK", Key(g, 1)>>>> \in Writes
  BY <1>1, <1>2 DEF Writes
<1>. QED  BY <1>3, <1>4, <1>5, ConcatProperties DEF service_start_writes, Writes

JobType == [writes : Writes, then : Jobs, arg : Nat]

LEMMA JobStarted ==
  ASSUME NEW ws \in Writes, NEW then \in Jobs, NEW arg \in Nat, Start(ws, then, arg)
  PROVE  /\ job' \in JobType
         /\ job'.writes = ws /\ job'.then = then /\ job'.arg = arg
BY DEF Start, JobType

LEMMA NoJobType == NoJob \in JobType /\ NoJob.writes = <<>> /\ NoJob.then = "none"
<1>1. <<>> \in Writes
  BY DEF Writes
<1>. QED  BY <1>1 DEF NoJob, JobType, Jobs

(* What an item of the flash is written with. *)
LEMMA ItemStored ==
  ASSUME job \in JobType, stored \in [ItemIds -> Keys], item_store
  PROVE  /\ stored' \in [ItemIds -> Keys] /\ job' \in JobType
         /\ job'.then = job.then /\ job'.arg = job.arg
         /\ job'.writes = Tail(job.writes) /\ job.writes # <<>> /\ job.writes \in Writes
         /\ Head(job.writes)[1] \in ItemIds /\ Head(job.writes)[2] \in Keys
<1>1. job \in JobType /\ job.writes \in Writes /\ job.writes # <<>>
  BY DEF item_store, JobType
<1>2. Head(job.writes) \in ItemIds \X Keys /\ Tail(job.writes) \in Writes
  BY <1>1, HeadTailProperties DEF Writes
<1>3. job' = [job EXCEPT !.writes = Tail(job.writes)]
  BY DEF item_store
<1>4. Head(job.writes)[1] \in ItemIds /\ Head(job.writes)[2] \in Keys
  BY <1>2
<1>5. job' \in JobType /\ job'.then = job.then /\ job'.arg = job.arg
      /\ job'.writes = Tail(job.writes)
  BY <1>1, <1>2, <1>3 DEF JobType
<1>6. stored' \in [ItemIds -> Keys]
  BY <1>4 DEF item_store
<1>. QED  BY <1>1, <1>4, <1>5, <1>6

-----------------------------------------------------------------------------
(* What a step does to the queues: it takes k events and posts evs, and     *)
(* puts no rotation into the workqueue.                                     *)

QueuesTyped ==
  workq \in Seq(SerialWorkItems) /\ batch \in Seq(KeyEvent) /\ events \in Seq(KeyEvent)

QueueStep(k, evs) ==
  /\ Flow(k, evs)
  /\ QueuesTyped'
  /\ Queued(workq', "keys") => Queued(workq, "keys")

LEMMA SubmittedIn ==
  ASSUME NEW S, NEW q \in Seq(S), NEW item \in S
  PROVE  /\ Submitted(q, item) \in Seq(S)
         /\ \A w : Queued(Submitted(q, item), w) => Queued(q, w) \/ w = item
<1>1. CASE Queued(q, item)
  BY <1>1 DEF Submitted
<1>2. CASE ~Queued(q, item)
  <2>1. Submitted(q, item) = Append(q, item)
    BY <1>2 DEF Submitted
  <2>2. /\ Append(q, item) \in Seq(S)
        /\ Len(Append(q, item)) = Len(q) + 1
        /\ \A i \in 1..Len(q) : Append(q, item)[i] = q[i]
        /\ Append(q, item)[Len(q) + 1] = item
    BY AppendProperties
  <2>3. ASSUME NEW w, Queued(Append(q, item), w) PROVE Queued(q, w) \/ w = item
    <3>1. PICK i \in 1..Len(q) + 1 : Append(q, item)[i] = w
      BY <2>2, <2>3 DEF Queued
    <3>2. Len(q) \in Nat
      BY LenProperties
    <3>. QED  BY <2>2, <3>1, <3>2 DEF Queued
  <2>. QED  BY <2>1, <2>2, <2>3
<1>. QED  BY <1>1, <1>2

LEMMA TailIn ==
  ASSUME NEW S, NEW q \in Seq(S), q # <<>>
  PROVE  /\ Tail(q) \in Seq(S) /\ Head(q) \in S
         /\ \A w : Queued(Tail(q), w) => Queued(q, w)
         /\ Queued(q, Head(q))
<1>1. /\ Tail(q) \in Seq(S) /\ Head(q) \in S /\ Len(Tail(q)) = Len(q) - 1
      /\ \A i \in 1..Len(Tail(q)) : Tail(q)[i] = q[i + 1]
  BY HeadTailProperties
<1>2. Len(q) \in Nat \ {0} /\ Head(q) = q[1]
  BY EmptySeq
<1>3. \A i \in 1..Len(Tail(q)) : i + 1 \in 1..Len(q)
  BY <1>1, <1>2
<1>4. 1 \in 1..Len(q)
  BY <1>2
<1>. QED  BY <1>1, <1>2, <1>3, <1>4 DEF Queued

LEMMA CancelledIn ==
  ASSUME NEW S, NEW q \in Seq(S), NEW item
  PROVE  /\ Cancelled(q, item) \in Seq(S)
         /\ \A w : Queued(Cancelled(q, item), w) => Queued(q, w)
<1>1. CASE ~Queued(q, item)
  BY <1>1 DEF Cancelled
<1>2. CASE Queued(q, item)
  <2>. DEFINE i == CHOOSE i \in 1..Len(q) : q[i] = item
              a == SubSeq(q, 1, i - 1)
              b == SubSeq(q, i + 1, Len(q))
  <2>1. i \in 1..Len(q) /\ Len(q) \in Nat
    BY <1>2, LenProperties DEF Queued
  <2>2. Cancelled(q, item) = a \o b
    BY <1>2 DEF Cancelled
  <2>. HIDE DEF i
  <2>3. /\ a \in Seq(S) /\ Len(a) = i - 1
        /\ \A j \in 1..(i - 1) : a[j] = q[j]
    <3>1. 1 \in 1..Len(q) + 1 /\ i - 1 \in 1 - 1..Len(q) /\ (i - 1) - 1 + 1 = i - 1
      BY <2>1
    <3>2. \A j \in 1..(i - 1) : 1 + j - 1 = j
      OBVIOUS
    <3>3. \A j \in 1..(i - 1) : j \in 1..Len(q)
      BY <2>1
    <3>. QED  BY <2>1, <3>1, <3>2, <3>3, SubSeqProperties
  <2>4. /\ b \in Seq(S) /\ Len(b) = Len(q) - i
        /\ \A j \in 1..(Len(q) - i) : b[j] = q[i + j]
    <3>1. i + 1 \in 1..Len(q) + 1 /\ Len(q) \in (i + 1) - 1..Len(q)
          /\ Len(q) - (i + 1) + 1 = Len(q) - i
      BY <2>1
    <3>2. \A j \in 1..(Len(q) - i) : (i + 1) + j - 1 = i + j
      BY <2>1
    <3>3. \A j \in 1..(Len(q) - i) : i + j \in 1..Len(q)
      BY <2>1
    <3>. QED  BY <2>1, <3>1, <3>2, <3>3, SubSeqProperties
  <2>. HIDE DEF a, b
  <2>5. /\ a \o b \in Seq(S) /\ Len(a \o b) = Len(a) + Len(b)
        /\ \A j \in 1..Len(a) + Len(b) :
             (a \o b)[j] = IF j <= Len(a) THEN a[j] ELSE b[j - Len(a)]
    BY <2>3, <2>4, ConcatProperties
  <2>6. ASSUME NEW w, Queued(a \o b, w) PROVE Queued(q, w)
    <3>1. PICK j \in 1..Len(a) + Len(b) : (a \o b)[j] = w
      BY <2>5, <2>6 DEF Queued
    <3>2. CASE j <= Len(a)
      <4>1. j \in 1..(i - 1) /\ j \in 1..Len(q)
        BY <2>1, <2>3, <3>2
      <4>. QED  BY <2>3, <2>5, <3>1, <3>2, <4>1 DEF Queued
    <3>3. CASE ~(j <= Len(a))
      <4>1. j - Len(a) \in 1..(Len(q) - i) /\ i + (j - Len(a)) \in 1..Len(q)
        BY <2>1, <2>3, <2>4, <3>3
      <4>. QED  BY <2>4, <2>5, <3>1, <3>3, <4>1 DEF Queued
    <3>. QED  BY <3>2, <3>3
  <2>. QED  BY <2>2, <2>5, <2>6
<1>. QED  BY <1>1, <1>2

LEMMA EventIn ==
  ASSUME NEW id \in KeyEvents, NEW c \in {NULL, 1}, NEW a \in Nat
  PROVE  /\ EvArg(id, c, a) \in KeyEvent /\ <<EvArg(id, c, a)>> \in Seq(KeyEvent)
         /\ EvArg(id, c, a).id = id /\ EvArg(id, c, a).conn = c
         /\ Ev(id, c) = EvArg(id, c, 0)
<1>1. c \in Conns
  BY ConnAssumption DEF Conns, Slots
<1>. QED  BY <1>1 DEF EvArg, Ev, KeyEvent

LEMMA StateEventIn ==
  ASSUME NEW id \in KeyEvents
  PROVE  /\ <<Ev(id, NULL)>> \in Seq(KeyEvent) /\ <<Ev(id, 1)>> \in Seq(KeyEvent)
         /\ <<>> \in Seq(KeyEvent)
         /\ Ev(id, NULL) \in KeyEvent /\ Ev(id, 1) \in KeyEvent
BY EventIn

LEMMA Posting ==
  ASSUME QueuesTyped, NEW q \in Seq(SerialWorkItems), Queued(q, "keys") => Queued(workq, "keys"),
         NEW evs \in Seq(KeyEvent), PostOn(q, evs), batch' = batch
  PROVE  QueueStep(0, evs)
<1>1. EventsIn(KeyEvent)
  BY DEF QueuesTyped, EventsIn
<1>2. Flow(0, evs)
  BY <1>1, SeqFlowPosted DEF PostOn
<1>3. events' \in Seq(KeyEvent)
  BY ConcatProperties DEF QueuesTyped, PostOn
<1>4. "events" \in SerialWorkItems
  BY DEF SerialWorkItems, WorkItems
<1>5. /\ Submitted(q, "events") \in Seq(SerialWorkItems)
      /\ \A w : Queued(Submitted(q, "events"), w) => Queued(q, w) \/ w = "events"
  BY <1>4, SubmittedIn
<1>6. workq' \in Seq(SerialWorkItems) /\ (Queued(workq', "keys") => Queued(q, "keys"))
  BY <1>5 DEF PostOn
<1>. QED  BY <1>2, <1>3, <1>6 DEF QueueStep, QueuesTyped

LEMMA Handled ==
  ASSUME QueuesTyped, NEW id, Handling(id), NEW evs \in Seq(KeyEvent),
         Post(evs) \/ (evs = <<>> /\ UNCHANGED <<workq, events>>)
  PROVE  /\ QueueStep(1, evs) /\ 1 \in 1..Len(Backlog) /\ Backlog[1] = Head(batch)
         /\ Head(batch) \in KeyEvent /\ Head(batch).id = id
<1>1. EventsIn(KeyEvent)
  BY DEF QueuesTyped, EventsIn
<1>2. events' = events \o evs
  BY ConcatEmptySeq DEF Post, PostOn, QueuesTyped
<1>3. Flow(1, evs) /\ 1 \in 1..Len(Backlog) /\ Backlog[1] = Head(batch)
  BY <1>1, <1>2, SeqFlowHandled
<1>4. events' \in Seq(KeyEvent)
  BY <1>2, ConcatProperties DEF QueuesTyped
<1>5. batch' \in Seq(KeyEvent) /\ Head(batch) \in KeyEvent
  BY HeadTailProperties DEF Handling, QueuesTyped
<1>6. "events" \in SerialWorkItems
  BY DEF SerialWorkItems, WorkItems
<1>7. /\ Submitted(workq, "events") \in Seq(SerialWorkItems)
      /\ \A w : Queued(Submitted(workq, "events"), w) => Queued(workq, w) \/ w = "events"
  BY <1>6, SubmittedIn DEF QueuesTyped
<1>8. workq' \in Seq(SerialWorkItems) /\ (Queued(workq', "keys") => Queued(workq, "keys"))
  BY <1>7 DEF Post, PostOn, QueuesTyped
<1>. QED  BY <1>3, <1>4, <1>5, <1>8 DEF QueueStep, QueuesTyped, Handling

LEMMA Kept ==
  ASSUME QueuesTyped, UNCHANGED queueVars
  PROVE  QueueStep(0, <<>>)
<1>1. EventsIn(KeyEvent)
  BY DEF QueuesTyped, EventsIn
<1>2. Backlog' = Backlog
  BY DEF Backlog, queueVars
<1>. QED  BY <1>1, <1>2, SeqFlowKept DEF QueueStep, QueuesTyped, queueVars

LEMMA Taken ==
  ASSUME QueuesTyped, TakeEvents
  PROVE  QueueStep(0, <<>>)
<1>1. EventsIn(KeyEvent)
  BY DEF QueuesTyped, EventsIn
<1>2. /\ Tail(workq) \in Seq(SerialWorkItems)
      /\ \A w : Queued(Tail(workq), w) => Queued(workq, w)
  BY TailIn DEF QueuesTyped, TakeEvents
<1>. QED  BY <1>1, <1>2, SeqFlowTaken DEF QueueStep, QueuesTyped, TakeEvents

LEMMA Ran ==
  ASSUME QueuesTyped, NEW w, Running(w), PostOn(Tail(workq), <<>>)
  PROVE  QueueStep(0, <<>>) /\ Queued(workq, w)
<1>1. /\ Tail(workq) \in Seq(SerialWorkItems)
      /\ \A v : Queued(Tail(workq), v) => Queued(workq, v)
      /\ Queued(workq, w)
  BY TailIn DEF QueuesTyped, Running
<1>2. <<>> \in Seq(KeyEvent) /\ batch' = batch
  BY DEF Running
<1>. DEFINE q == Tail(workq)
<1>3. q \in Seq(SerialWorkItems) /\ (Queued(q, "keys") => Queued(workq, "keys"))
      /\ PostOn(q, <<>>)
  BY <1>1
<1>. HIDE DEF q
<1>4. QueueStep(0, <<>>)
  BY <1>2, <1>3, Posting
<1>. QED  BY <1>1, <1>4

LEMMA Queueing ==
  ASSUME QueuesTyped, NEW item \in SerialWorkItems, workq' = Submitted(workq, item),
         UNCHANGED <<batch, events>>
  PROVE  /\ Flow(0, <<>>) /\ QueuesTyped'
         /\ \A w : Queued(workq', w) => Queued(workq, w) \/ w = item
<1>1. EventsIn(KeyEvent)
  BY DEF QueuesTyped, EventsIn
<1>2. Backlog' = Backlog
  BY DEF Backlog
<1>. QED  BY <1>1, <1>2, SeqFlowKept, SubmittedIn DEF QueuesTyped

-----------------------------------------------------------------------------
(* The variables without the queues.  What the work item of the counter has *)
(* added is still in the increment.                                         *)

Payloads == [kind : {"off", "unpaired", "nearby", "separated"}, key : Keys, secondary : BOOLEAN]
Tags     == [url : {"off", "unpaired", "paired"}, n : Nat]
States   == {"DISABLED", "UNPAIRED", "CONNECTED", "NEARBY", "SEPARATED"}

RestOK ==
  /\ state \in States /\ unpair_pending \in BOOLEAN /\ link \in {"down", "up", "finalized"}
  /\ stored \in [ItemIds -> Keys] /\ job \in JobType
  /\ psk \in Keys /\ ssk \in Keys /\ latched \in Keys
  /\ cnt \in Nat /\ scnt \in Nat /\ delta \in Nat
  /\ use_secondary_pk \in BOOLEAN /\ key_timer \in BOOLEAN
  /\ on_air \in Payloads
  /\ pairing \in Nat /\ torn \in Nat /\ eval \in Nat
  /\ ready \in BOOLEAN /\ paired_state \in BOOLEAN
  /\ increment \in Nat /\ retry \in BOOLEAN /\ tag \in Tags
  /\ is_lookup_enabled \in BOOLEAN /\ served \in Nat
  /\ job.then = "counted" => job.arg <= increment

TypeInv == QueuesTyped /\ RestOK

LEMMA TypeInvTypes == TypeInv => TypeOK
<1>. SUFFICES ASSUME TypeInv PROVE TypeOK
  OBVIOUS
<1>1. KeysTypeOK
  BY DEF TypeInv, RestOK, KeysTypeOK, JobType, Writes, Payloads, States
<1>. QED  BY <1>1 DEF TypeInv, QueuesTyped, RestOK, TypeOK, Tags

LEMMA KeyPayloads ==
  ASSUME RestOK
  PROVE  /\ \A st \in States : payload(st) \in Payloads
         /\ separated_payload \in Payloads
         /\ NoPayload \in Payloads
         /\ [NoPayload EXCEPT !.kind = "unpaired"] \in Payloads
<1>1. None \in Keys /\ psk \in Keys /\ ssk \in Keys /\ latched \in Keys
      /\ use_secondary_pk \in BOOLEAN
  BY NoneType DEF RestOK
<1>2. fmna_keys_separated_key_get \in [key : Keys, secondary : BOOLEAN]
  BY <1>1 DEF fmna_keys_separated_key_get
<1>3. separated_payload \in Payloads
  BY <1>2 DEF separated_payload, Payloads
<1>4. NoPayload \in Payloads
  BY <1>1 DEF NoPayload, Payloads
<1>5. [NoPayload EXCEPT !.kind = "unpaired"] \in Payloads
  BY <1>4 DEF Payloads
<1>6. ASSUME NEW st \in States PROVE payload(st) \in Payloads
  <2>1. [kind |-> "nearby", key |-> psk, secondary |-> FALSE] \in Payloads
    BY <1>1 DEF Payloads
  <2>. QED  BY <1>3, <1>4, <1>5, <1>6, <2>1 DEF payload, States
<1>. QED  BY <1>3, <1>4, <1>5, <1>6

(* The steps that leave the job alone, one after the other. *)
LEMMA RestArrives ==
  ASSUME TypeInv, peer_arrives, UNCHANGED snVars
  PROVE  RestOK'
BY KeyPayloads DEF TypeInv, RestOK, peer_arrives, snVars, nfcVars, keyVars

LEMMA RestOwner ==
  ASSUME TypeInv, UNCHANGED snVars,
         \/ peer_connected \/ peer_security_changed \/ owner_connected \/ owner_disconnected
         \/ nearby_separated_work_handle \/ public_keys_changed
  PROVE  RestOK'
<1>1. CASE peer_connected
  BY <1>1, KeyPayloads DEF TypeInv, RestOK, States, snVars, nfcVars, keyVars, envVars, peer_connected
<1>2. CASE peer_security_changed
  <2>1. /\ use_secondary_pk' \in BOOLEAN /\ eval' \in Nat
        /\ UNCHANGED <<psk, ssk, cnt, scnt, delta, latched, key_timer, envVars, stored, job,
                       on_air>>
    <3>1. use_secondary_pk \in BOOLEAN /\ eval \in Nat /\ 0 \in Nat /\ FALSE \in BOOLEAN
      BY DEF TypeInv, RestOK
    <3>. QED  BY <1>2, <3>1, Zenon DEF peer_security_changed
  <2>. QED  BY <2>1 DEF TypeInv, RestOK, States, snVars, nfcVars, envVars
<1>3. CASE owner_connected
  BY <1>3, KeyPayloads DEF TypeInv, RestOK, States, snVars, nfcVars, keyVars, envVars, owner_connected
<1>4. CASE owner_disconnected
  BY <1>4, KeyPayloads DEF TypeInv, RestOK, States, snVars, nfcVars, keyVars, envVars,
     owner_disconnected
<1>5. CASE nearby_separated_work_handle
  BY <1>5, KeyPayloads DEF TypeInv, RestOK, States, snVars, nfcVars, keyVars, envVars,
     nearby_separated_work_handle
<1>6. CASE public_keys_changed
  BY <1>6, KeyPayloads DEF TypeInv, RestOK, States, snVars, nfcVars, keyVars, envVars,
     public_keys_changed
<1>. QED  BY <1>1, <1>2, <1>3, <1>4, <1>5, <1>6

LEMMA RestCommands ==
  ASSUME TypeInv, UNCHANGED snVars,
         \/ unpair_request_handle \/ separated_key_latch_request_handle
         \/ separated_state_configure_request_handle
         \/ peer_leaves \/ owner_cp_write \/ pairing_cp_write
  PROVE  RestOK'
<1>1. CASE unpair_request_handle
  BY <1>1 DEF TypeInv, RestOK, States, snVars, nfcVars, keyVars, unpair_request_handle
<1>2. CASE separated_key_latch_request_handle
  BY <1>2 DEF TypeInv, RestOK, States, snVars, nfcVars, envVars,
     separated_key_latch_request_handle
<1>3. CASE separated_state_configure_request_handle
  <2>. DEFINE e == Head(batch).arg
  <2>1. e \in Nat
    <3>1. Head(batch) \in KeyEvent
      BY <1>3, HeadTailProperties
      DEF separated_state_configure_request_handle, Handling, TypeInv, QueuesTyped
    <3>. QED  BY <3>1 DEF KeyEvent
  <2>. HIDE DEF e
  <2>2. cnt \in Nat
    BY DEF TypeInv, RestOK
  <2>3. eval_index(e) \in Nat /\ rotation_offset(e) \in Nat
    BY <2>1, <2>2, KeyConstants DEF eval_index, rotation_offset
  <2>4. /\ latched' \in Keys /\ delta' \in Nat /\ eval' \in Nat /\ key_timer' \in BOOLEAN
        /\ UNCHANGED <<psk, ssk, cnt, scnt, use_secondary_pk, envVars, stored, job, on_air>>
    <3>1. /\ latched \in Keys /\ psk \in Keys /\ delta \in Nat /\ eval \in Nat
          /\ key_timer \in BOOLEAN /\ TRUE \in BOOLEAN
      BY DEF TypeInv, RestOK
    <3>. QED  BY <1>3, <2>3, <3>1, Zenon DEF separated_state_configure_request_handle, e
  <2>. QED
    BY <2>3, <2>4 DEF TypeInv, RestOK, States, snVars, nfcVars, envVars
<1>4. CASE peer_leaves
  BY <1>4 DEF TypeInv, RestOK, States, snVars, nfcVars, keyVars, peer_leaves
<1>5. CASE owner_cp_write \/ pairing_cp_write
  <2>1. UNCHANGED <<keyVars, envVars, stored, job, on_air, eval>>
    BY <1>5, Zenon DEF owner_cp_write, pairing_cp_write, Write
  <2>. QED  BY <2>1 DEF TypeInv, RestOK, States, snVars, nfcVars, keyVars, envVars
<1>. QED  BY <1>1, <1>2, <1>3, <1>4, <1>5

(* Jobs. *)
LEMMA RestJobs ==
  ASSUME TypeInv, UNCHANGED snVars,
         \/ item_store \/ rotation_ends \/ unpairing_ends \/ finalizing_ends
         \/ keys_service_timer_start \/ key_rotation_timeout_handle \/ event_work
  PROVE  RestOK'
<1>1. CASE item_store
  BY <1>1, ItemStored
  DEF TypeInv, RestOK, States, snVars, nfcVars, keyVars, envVars, item_store
<1>2. CASE rotation_ends
  BY <1>2, NoJobType
  DEF TypeInv, RestOK, States, snVars, nfcVars, keyVars, envVars, rotation_ends, Ending
<1>3. CASE unpairing_ends
  BY <1>3, NoJobType, KeyPayloads
  DEF TypeInv, RestOK, States, snVars, nfcVars, keyVars, unpairing_ends, Ending
<1>4. CASE finalizing_ends
  BY <1>4, NoJobType
  DEF TypeInv, RestOK, States, snVars, nfcVars, keyVars, finalizing_ends, Ending
<1>5. CASE keys_service_timer_start
  BY <1>5, NoJobType
  DEF TypeInv, RestOK, States, snVars, nfcVars, envVars, keys_service_timer_start, Ending
<1>6. CASE key_rotation_timeout_handle \/ event_work
  BY <1>6
  DEF TypeInv, RestOK, States, snVars, nfcVars, keyVars, envVars,
      key_rotation_timeout_handle, event_work
<1>. QED  BY <1>1, <1>2, <1>3, <1>4, <1>5, <1>6

LEMMA RestStarts ==
  ASSUME TypeInv, UNCHANGED snVars,
         \/ key_rotation_work_handle \/ owner_unpaired \/ finalize_pairing_cmd_handle
         \/ pairing_complete_cmd_handle
  PROVE  RestOK'
<1>0. /\ psk \in Keys /\ ssk \in Keys /\ latched \in Keys
      /\ cnt \in Nat /\ scnt \in Nat /\ pairing \in Nat
      /\ Roll(psk) \in Keys /\ Roll(ssk) \in Keys /\ None \in Keys
  BY RollType, NoneType DEF TypeInv, RestOK
<1>1. CASE key_rotation_work_handle
  <2>. DEFINE second == IF secondary_key_is_outdated(cnt + 1) THEN Roll(ssk) ELSE ssk
              ws == rotation_writes(Roll(psk), second, cnt + 1)
              a == IF separated_key_changed((cnt + 1) % P = delta) THEN 1 ELSE 0
  <2>1. second \in Keys /\ ws \in Writes /\ a \in Nat
    BY <1>0, UpdateType
  <2>2. /\ Start(ws, "rotated", a)
        /\ cnt' = cnt + 1 /\ psk' = Roll(psk) /\ ssk' = second
        /\ scnt' \in {scnt, scnt + 1} /\ latched' \in {latched, None}
        /\ use_secondary_pk' \in BOOLEAN
        /\ UNCHANGED <<delta, key_timer, envVars, stored, on_air, eval>>
    BY <1>1 DEF key_rotation_work_handle, TypeInv, RestOK
  <2>. HIDE DEF second, ws, a
  <2>3. job' \in JobType /\ job'.then = "rotated"
    BY <2>1, <2>2, JobStarted DEF Jobs
  <2>. QED
    BY <1>0, <2>1, <2>2, <2>3
    DEF TypeInv, RestOK, States, snVars, nfcVars, envVars
<1>2. CASE owner_unpaired
  <2>1. job' \in JobType /\ job'.then = "unpaired"
    BY <1>2, DeleteType, JobStarted DEF owner_unpaired, Jobs
  <2>. QED
    BY <1>0, <1>2, <2>1
    DEF TypeInv, RestOK, States, snVars, nfcVars, owner_unpaired, fmna_keys_service_stop
<1>3. CASE finalize_pairing_cmd_handle
  <2>. DEFINE g == pairing + 1
              ws == <<<<"SERVER_SHARED_SECRET", Key(g, 0)>>, <<"SN_QUERY_COUNTER", Key(g, 0)>>,
                      <<"ICLOUD_ID", Key(g, 0)>>>>
  <2>1. Key(g, 0) \in Keys
    BY <1>0, KeyType
  <2>2. ws \in Writes
    BY <2>1, ItemsProperties DEF Writes
  <2>3. job' \in JobType /\ job'.then = "finalized"
    BY <1>3, <2>2, JobStarted DEF finalize_pairing_cmd_handle, Jobs
  <2>. QED
    BY <1>0, <1>3, <2>3
    DEF TypeInv, RestOK, States, snVars, nfcVars, keyVars, finalize_pairing_cmd_handle
<1>4. CASE pairing_complete_cmd_handle
  <2>1. Key(pairing, 1) \in Keys /\ service_start_writes(pairing) \in Writes
    BY <1>0, KeyType, StartWritesType
  <2>2. job' \in JobType /\ job'.then = "started"
    BY <1>4, <2>1, JobStarted DEF pairing_complete_cmd_handle, Jobs
  <2>. QED
    BY <1>0, <1>4, <2>1, <2>2
    DEF TypeInv, RestOK, States, snVars, nfcVars, pairing_complete_cmd_handle
<1>. QED  BY <1>1, <1>2, <1>3, <1>4

-----------------------------------------------------------------------------
(* What waits in the queues.                                                *)

WaitingIds  == {Backlog[i].id : i \in 1..Len(Backlog)}
RotationDue == Queued(workq, "keys")

(* What a peer writes over its link, what pairs, what only a paired         *)
(* accessory takes, what the stack posts by itself.                         *)
LinkWrites ==
  {"PEER_CONNECTED", "PEER_SECURITY_CHANGED", "UNPAIR", "LATCH_SEPARATED_KEY",
   "CONFIGURE_SEPARATED_STATE", "GET_SERIAL_NUMBER", "FINALIZE_PAIRING", "PAIRING_COMPLETE"}
PairingCommands == {"FINALIZE_PAIRING", "PAIRING_COMPLETE"}
OwnerIds ==
  {"OWNER_CONNECTED", "UNPAIR", "LATCH_SEPARATED_KEY", "CONFIGURE_SEPARATED_STATE"}
PeerIds  == LinkWrites \cup {"PEER_DISCONNECTED", "OWNER_CONNECTED"}
OwnIds   == {"STATE_CHANGED", "PUBLIC_KEYS_CHANGED", "SERIAL_NUMBER_CNT_CHANGED"}

(* After the end of the link comes nothing that was written over it, and    *)
(* one command of a pairing waits at a time.                                *)
PeersOrdered ==
  \A i \in 1..Len(Backlog) :
    /\ Backlog[i].id \in PeerIds => Backlog[i].conn = 1
    /\ \A j \in 1..Len(Backlog) : i < j =>
         /\ Backlog[i].id = "PEER_DISCONNECTED" =>
              Backlog[j].id \notin LinkWrites \cup {"PEER_DISCONNECTED"}
         /\ Backlog[i].id \in PairingCommands => Backlog[j].id \notin PairingCommands

LEMMA IdsSplit ==
  /\ KeyEvents = PeerIds \cup OwnIds
  /\ PeerIds \cap OwnIds = {}
  /\ OwnerIds \subseteq PeerIds /\ PairingCommands \subseteq LinkWrites
  /\ LinkWrites \subseteq PeerIds
BY DEF KeyEvents, PeerIds, OwnIds, OwnerIds, PairingCommands, LinkWrites

LEMMA BacklogTyped ==
  ASSUME QueuesTyped
  PROVE  /\ Backlog \in Seq(KeyEvent) /\ Len(Backlog) \in Nat
         /\ \A i \in 1..Len(Backlog) : Backlog[i] \in KeyEvent /\ Backlog[i].id \in KeyEvents
         /\ WaitingIds \subseteq KeyEvents
<1>1. EventsIn(KeyEvent)
  BY DEF QueuesTyped, EventsIn
<1>2. Backlog \in Seq(KeyEvent) /\ Len(Backlog) \in Nat
  BY <1>1, BacklogSeq
<1>3. \A i \in 1..Len(Backlog) : Backlog[i] \in KeyEvent
  BY <1>2, ElementOfSeq
<1>4. \A i \in 1..Len(Backlog) : Backlog[i].id \in KeyEvents
  BY <1>3 DEF KeyEvent
<1>. QED  BY <1>2, <1>3, <1>4 DEF WaitingIds

LEMMA WaitingAs ==
  ASSUME NEW i \in 1..Len(Backlog)
  PROVE  Backlog[i].id \in WaitingIds
BY DEF WaitingIds

(* Where an event that waits after a step has waited before it.             *)
LEMMA FlowSplit ==
  ASSUME QueuesTyped, NEW k \in {0, 1}, NEW evs \in Seq(KeyEvent), QueueStep(k, evs),
         NEW i \in 1..Len(Backlog')
  PROVE  \/ i + k \in 1..Len(Backlog) /\ Backlog'[i] = Backlog[i + k]
         \/ /\ i - (Len(Backlog) - k) \in 1..Len(evs)
            /\ Backlog'[i] = evs[i - (Len(Backlog) - k)]
<1>1. Len(Backlog) \in Nat /\ Len(evs) \in Nat
  BY BacklogTyped, LenProperties
<1>2. /\ k <= Len(Backlog)
      /\ Len(Backlog') = Len(Backlog) - k + Len(evs)
      /\ \A j \in 1..Len(Backlog) - k : Backlog'[j] = Backlog[j + k]
      /\ \A j \in 1..Len(evs) : Backlog'[Len(Backlog) - k + j] = evs[j]
  BY DEF QueueStep, Flow
<1>3. i \in Nat /\ i >= 1 /\ i <= Len(Backlog) - k + Len(evs)
  BY <1>1, <1>2
<1>4. CASE i <= Len(Backlog) - k
  BY <1>1, <1>2, <1>3, <1>4
<1>5. CASE ~(i <= Len(Backlog) - k)
  <2>. DEFINE j == i - (Len(Backlog) - k)
  <2>1. j \in 1..Len(evs) /\ Len(Backlog) - k + j = i
    BY <1>1, <1>2, <1>3, <1>5
  <2>. QED  BY <1>2, <2>1
<1>. QED  BY <1>4, <1>5

IdsOf(evs) == {evs[i].id : i \in 1..Len(evs)}

LEMMA IdsOfFew ==
  ASSUME NEW e, NEW f
  PROVE  IdsOf(<<>>) = {} /\ IdsOf(<<e>>) = {e.id} /\ IdsOf(<<e, f>>) = {e.id, f.id}
BY DEF IdsOf

LEMMA IdsAfter ==
  ASSUME QueuesTyped, NEW k \in {0, 1}, NEW evs \in Seq(KeyEvent), QueueStep(k, evs)
  PROVE  /\ WaitingIds' \subseteq WaitingIds \cup IdsOf(evs)
         /\ IdsOf(evs) \subseteq WaitingIds'
<1>1. WaitingIds' = {Backlog'[i].id : i \in 1..Len(Backlog')}
  BY DEF WaitingIds
<1>2. ASSUME NEW i \in 1..Len(Backlog') PROVE Backlog'[i].id \in WaitingIds \cup IdsOf(evs)
  BY FlowSplit, WaitingAs DEF IdsOf
<1>3. ASSUME NEW j \in 1..Len(evs) PROVE evs[j].id \in WaitingIds'
  <2>1. Len(Backlog) \in Nat /\ Len(evs) \in Nat
    BY BacklogTyped, LenProperties
  <2>2. /\ k <= Len(Backlog)
        /\ Len(Backlog') = Len(Backlog) - k + Len(evs)
        /\ Backlog'[Len(Backlog) - k + j] = evs[j]
    BY DEF QueueStep, Flow
  <2>3. Len(Backlog) - k + j \in 1..Len(Backlog')
    BY <2>1, <2>2
  <2>. QED  BY <1>1, <2>2, <2>3
<1>4. WaitingIds' \subseteq WaitingIds \cup IdsOf(evs)
  BY <1>1, <1>2
<1>. QED  BY <1>3, <1>4 DEF IdsOf

LEMMA IdsKept ==
  ASSUME QueuesTyped, NEW evs \in Seq(KeyEvent), QueueStep(0, evs)
  PROVE  WaitingIds \subseteq WaitingIds'
<1>1. WaitingIds' = {Backlog'[i].id : i \in 1..Len(Backlog')}
  BY DEF WaitingIds
<1>2. Len(Backlog) \in Nat /\ Len(evs) \in Nat
  BY BacklogTyped, LenProperties
<1>3. /\ Len(Backlog') = Len(Backlog) + Len(evs)
      /\ \A j \in 1..Len(Backlog) : Backlog'[j] = Backlog[j]
  BY <1>2 DEF QueueStep, Flow
<1>. QED  BY <1>1, <1>2, <1>3 DEF WaitingIds

LEMMA IdsRemain ==
  ASSUME QueuesTyped, NEW evs \in Seq(KeyEvent), QueueStep(1, evs)
  PROVE  \A x \in WaitingIds : x = Backlog[1].id \/ x \in WaitingIds'
<1>1. WaitingIds' = {Backlog'[i].id : i \in 1..Len(Backlog')}
  BY DEF WaitingIds
<1>2. Len(Backlog) \in Nat /\ Len(evs) \in Nat
  BY BacklogTyped, LenProperties
<1>3. /\ 1 <= Len(Backlog)
      /\ Len(Backlog') = Len(Backlog) - 1 + Len(evs)
      /\ \A j \in 1..Len(Backlog) - 1 : Backlog'[j] = Backlog[j + 1]
  BY DEF QueueStep, Flow
<1>4. ASSUME NEW i \in 1..Len(Backlog), i # 1 PROVE Backlog[i].id \in WaitingIds'
  <2>1. i - 1 \in 1..Len(Backlog) - 1 /\ i - 1 \in 1..Len(Backlog') /\ (i - 1) + 1 = i
    BY <1>2, <1>3, <1>4
  <2>. QED  BY <1>1, <1>3, <2>1
<1>. QED  BY <1>4 DEF WaitingIds

(* What may be posted: by a link that has not ended, one command of a       *)
(* pairing at a time.                                                       *)
MayPost(evs) ==
  \A i \in 1..Len(evs) :
    /\ evs[i].id \in PeerIds => evs[i].conn = 1
    /\ evs[i].id \in LinkWrites \cup {"PEER_DISCONNECTED"} => "PEER_DISCONNECTED" \notin WaitingIds
    /\ evs[i].id = "PEER_DISCONNECTED" => Len(evs) = 1
    /\ evs[i].id \in PairingCommands => Len(evs) = 1 /\ WaitingIds \cap PairingCommands = {}

LEMMA OrderKept ==
  ASSUME QueuesTyped, PeersOrdered, NEW k \in {0, 1}, NEW evs \in Seq(KeyEvent),
         QueueStep(k, evs), MayPost(evs)
  PROVE  PeersOrdered'
<1>1. Len(Backlog) \in Nat /\ Len(evs) \in Nat /\ Len(Backlog') \in Nat
  <2>1. QueuesTyped'
    BY DEF QueueStep
  <2>2. EventsIn(KeyEvent)'
    BY <2>1 DEF QueuesTyped, EventsIn
  <2>3. Backlog' \in Seq(KeyEvent)
    BY <2>1, ConcatProperties DEF Backlog, QueuesTyped
  <2>. QED  BY <2>3, BacklogTyped, LenProperties
<1>2. ASSUME NEW i \in 1..Len(Backlog'), Backlog'[i].id \in PeerIds
      PROVE  Backlog'[i].conn = 1
  <2>1. CASE i + k \in 1..Len(Backlog) /\ Backlog'[i] = Backlog[i + k]
    BY <1>2, <2>1 DEF PeersOrdered
  <2>2. CASE /\ i - (Len(Backlog) - k) \in 1..Len(evs)
             /\ Backlog'[i] = evs[i - (Len(Backlog) - k)]
    BY <1>2, <2>2 DEF MayPost
  <2>. QED  BY <2>1, <2>2, FlowSplit
<1>3. ASSUME NEW i \in 1..Len(Backlog'), NEW j \in 1..Len(Backlog'), i < j
      PROVE  /\ Backlog'[i].id = "PEER_DISCONNECTED" =>
                  Backlog'[j].id \notin LinkWrites \cup {"PEER_DISCONNECTED"}
             /\ Backlog'[i].id \in PairingCommands => Backlog'[j].id \notin PairingCommands
  <2>. DEFINE ii == i - (Len(Backlog) - k)
              jj == j - (Len(Backlog) - k)
  <2>1. CASE j + k \in 1..Len(Backlog) /\ Backlog'[j] = Backlog[j + k]
    <3>1. i + k \in 1..Len(Backlog) /\ i + k < j + k /\ ~(ii \in 1..Len(evs))
      BY <1>1, <1>3, <2>1
    <3>2. Backlog'[i] = Backlog[i + k]
      BY <3>1, FlowSplit
    <3>. QED  BY <2>1, <3>1, <3>2 DEF PeersOrdered
  <2>2. CASE jj \in 1..Len(evs) /\ Backlog'[j] = evs[jj]
    <3>1. CASE i + k \in 1..Len(Backlog) /\ Backlog'[i] = Backlog[i + k]
      <4>1. Backlog'[i].id \in WaitingIds
        BY <3>1, WaitingAs
      <4>. QED  BY <2>2, <4>1 DEF MayPost
    <3>2. CASE ii \in 1..Len(evs) /\ Backlog'[i] = evs[ii]
      <4>1. Len(evs) # 1
        BY <1>1, <1>3, <2>2, <3>2
      <4>. QED  BY <2>2, <3>2, <4>1 DEF MayPost
    <3>. QED  BY <3>1, <3>2, FlowSplit
  <2>. QED  BY <2>1, <2>2, FlowSplit
<1>. QED  BY <1>2, <1>3 DEF PeersOrdered

(* What waits after the end of a link, and after a command of a pairing.    *)
LEMMA OrderTaken ==
  ASSUME QueuesTyped, PeersOrdered, NEW evs \in Seq(KeyEvent), QueueStep(1, evs),
         1 \in 1..Len(Backlog), NEW id, Backlog[1].id = id
  PROVE  /\ id \in WaitingIds
         /\ id = "PEER_DISCONNECTED" =>
              \A x \in LinkWrites \cup {"PEER_DISCONNECTED"} :
                x \in WaitingIds' => x \in IdsOf(evs)
         /\ id \in PairingCommands =>
              \A x \in PairingCommands : x \in WaitingIds' => x \in IdsOf(evs)
<1>1. id \in WaitingIds
  BY WaitingAs
<1>2. ASSUME NEW x \in WaitingIds', x \notin IdsOf(evs)
      PROVE  \E j \in 1..Len(Backlog) : 1 < j /\ Backlog[j].id = x
  <2>1. PICK i \in 1..Len(Backlog') : Backlog'[i].id = x
    BY DEF WaitingIds
  <2>2. i + 1 \in 1..Len(Backlog) /\ Backlog'[i] = Backlog[i + 1]
    BY <1>2, <2>1, FlowSplit DEF IdsOf
  <2>3. 1 < i + 1
    BY <2>2
  <2>. QED  BY <2>1, <2>2, <2>3
<1>3. ASSUME NEW x \in WaitingIds', x \notin IdsOf(evs)
      PROVE  /\ id = "PEER_DISCONNECTED" => x \notin LinkWrites \cup {"PEER_DISCONNECTED"}
             /\ id \in PairingCommands => x \notin PairingCommands
  <2>1. PICK j \in 1..Len(Backlog) : 1 < j /\ Backlog[j].id = x
    BY <1>2, <1>3
  <2>. QED  BY <2>1 DEF PeersOrdered
<1>. QED  BY <1>1, <1>3

LEMMA PendingIs ==
  ASSUME QueuesTyped, PeersOrdered, NEW id \in PeerIds
  PROVE  Pending(id, 1) <=> id \in WaitingIds
<1>1. EventsIn(KeyEvent)
  BY DEF QueuesTyped, EventsIn
<1>2. /\ Len(Backlog) = Len(batch) + Len(events)
      /\ Len(Backlog) \in Nat /\ Len(batch) \in Nat /\ Len(events) \in Nat
      /\ \A i \in 1..Len(batch) : Backlog[i] = batch[i]
      /\ \A i \in 1..Len(events) : Backlog[Len(batch) + i] = events[i]
      /\ \A i \in 1..Len(Backlog) :
           i \in 1..Len(batch) \/ i - Len(batch) \in 1..Len(events)
  BY <1>1, BacklogSeq
<1>3. ASSUME Pending(id, 1) PROVE id \in WaitingIds
  <2>1. CASE \E i \in 1..Len(batch) : batch[i].id = id /\ batch[i].conn = 1
    <3>1. PICK i \in 1..Len(batch) : batch[i].id = id
      BY <2>1
    <3>2. i \in 1..Len(Backlog)
      BY <1>2
    <3>. QED  BY <1>2, <3>1, <3>2, WaitingAs
  <2>2. CASE \E i \in 1..Len(events) : events[i].id = id /\ events[i].conn = 1
    <3>1. PICK i \in 1..Len(events) : events[i].id = id
      BY <2>2
    <3>2. Len(batch) + i \in 1..Len(Backlog)
      BY <1>2
    <3>. QED  BY <1>2, <3>1, <3>2, WaitingAs
  <2>. QED  BY <1>3, <2>1, <2>2 DEF Pending
<1>4. ASSUME id \in WaitingIds PROVE Pending(id, 1)
  <2>1. PICK i \in 1..Len(Backlog) : Backlog[i].id = id
    BY <1>4 DEF WaitingIds
  <2>2. Backlog[i].conn = 1
    BY <2>1 DEF PeersOrdered
  <2>3. CASE i \in 1..Len(batch)
    BY <1>2, <2>1, <2>2, <2>3 DEF Pending
  <2>4. CASE i - Len(batch) \in 1..Len(events)
    <3>1. Len(batch) + (i - Len(batch)) = i
      BY <1>2
    <3>2. events[i - Len(batch)] = Backlog[i]
      BY <1>2, <2>4, <3>1
    <3>. QED  BY <2>1, <2>2, <2>4, <3>2 DEF Pending
  <2>. QED  BY <1>2, <2>3, <2>4
<1>. QED  BY <1>3, <1>4

LEMMA CounterTyped ==
  ASSUME RestOK
  PROVE  /\ counter \in Keys /\ counter.n \in Nat /\ counter.gen \in Nat
         /\ \A i \in ItemIds : stored[i] \in Keys
         /\ \A p \in BOOLEAN : fmna_nfc_buffer_setup(p) \in Tags
<1>1. \A i \in ItemIds : stored[i] \in Keys
  BY DEF RestOK
<1>2. counter \in Keys
  BY <1>1, ItemsProperties DEF counter
<1>3. counter.n \in Nat /\ counter.gen \in Nat
  BY <1>2 DEF Keys
<1>4. Tag("unpaired", 0) \in Tags /\ Tag("off", 0) \in Tags /\ Tag("paired", counter.n) \in Tags
  BY <1>3 DEF Tag, Tags
<1>. QED  BY <1>1, <1>2, <1>3, <1>4 DEF fmna_nfc_buffer_setup

LEMMA RestReads ==
  ASSUME TypeInv,
         \/ nfc_callback \/ sn_counter_update_again \/ sn_counter_update_work_handle
         \/ sn_counter_updated \/ sn_counter_update
  PROVE  RestOK'
<1>. /\ RestOK /\ increment \in Nat /\ served \in Nat /\ retry \in BOOLEAN
     /\ TRUE \in BOOLEAN /\ FALSE \in BOOLEAN /\ job \in JobType /\ job.arg \in Nat
  BY DEF TypeInv, RestOK, JobType
<1>1. CASE nfc_callback
  <2>1. /\ increment' \in Nat /\ served' \in Nat /\ retry' \in BOOLEAN /\ increment' >= increment
        /\ UNCHANGED <<keyVars, envVars, stored, job, on_air, eval, ready,
                 paired_state, tag, is_lookup_enabled>>
    <3>1. CASE paired_state
      <4>1. /\ increment' = increment + 1 /\ served' = served + 1 /\ retry' = FALSE
            /\ UNCHANGED <<keyVars, envVars, stored, job, on_air, eval, ready,
                     paired_state, tag, is_lookup_enabled>>
        BY <1>1, <3>1, Zenon DEF nfc_callback
      <4>2. increment + 1 \in Nat /\ served + 1 \in Nat /\ increment + 1 >= increment
        OBVIOUS
      <4>. QED  BY <4>1, <4>2, Zenon
    <3>2. CASE ~paired_state
      <4>1. increment >= increment
        OBVIOUS
      <4>. QED  BY <1>1, <3>2, <4>1, Zenon DEF nfc_callback
    <3>. QED  BY <3>1, <3>2
  <2>. QED  BY <2>1 DEF RestOK, keyVars, envVars
<1>2. CASE sn_counter_update_again
  BY <1>2 DEF sn_counter_update_again, RestOK, keyVars, envVars
<1>3. CASE sn_counter_update_work_handle
  <2>1. <<>> \in Writes
    BY DEF Writes
  <2>2. job' \in JobType /\ job'.then = "counting"
    BY <1>3, <2>1, JobStarted DEF sn_counter_update_work_handle, Jobs
  <2>. QED  BY <1>3, <2>2 DEF sn_counter_update_work_handle, RestOK, keyVars, envVars, snVars, nfcVars
<1>4. CASE sn_counter_updated
  <2>1. job.then = "counted" /\ job' = NoJob /\ increment' = increment - job.arg
    BY <1>4 DEF sn_counter_updated, Ending
  <2>2. job.arg <= increment
    BY <2>1 DEF RestOK
  <2>3. increment' \in Nat
    BY <2>1, <2>2
  <2>. QED
    BY <1>4, <2>1, <2>3, NoJobType DEF sn_counter_updated, RestOK, keyVars, envVars
<1>5. CASE sn_counter_update
  <2>1. /\ retry' \in BOOLEAN /\ job' \in JobType
        /\ job'.then = "counted" => job'.arg = increment
        /\ UNCHANGED <<queueVars, keyVars, envVars, stored, on_air, eval, ready, paired_state,
                 increment, tag, is_lookup_enabled, served>>
    <3>1. CASE ~paired_state \/ counter = None
      BY <1>5, <3>1, NoJobType, Zenon DEF sn_counter_update
    <3>2. CASE ~(~paired_state \/ counter = None)
      <4>. DEFINE k == Key(counter.gen, counter.n + increment)
                  ws == <<<<"SN_QUERY_COUNTER", k>>>>
      <4>1. k \in Keys /\ "SN_QUERY_COUNTER" \in ItemIds
        BY CounterTyped, KeyType, ItemsProperties
      <4>2. ws \in Writes
        BY <4>1, OneWrite
      <4>. HIDE DEF k
      <4>3. Start(ws, "counted", increment) /\ UNCHANGED retry
        BY <1>5, <3>2 DEF sn_counter_update, k
      <4>4. job' \in JobType /\ job'.arg = increment
        BY <4>2, <4>3, JobStarted DEF Jobs
      <4>. QED  BY <1>5, <4>3, <4>4, Zenon DEF sn_counter_update
    <3>. QED  BY <3>1, <3>2
  <2>. QED  BY <2>1 DEF RestOK, keyVars, envVars
<1>. QED  BY <1>1, <1>2, <1>3, <1>4, <1>5

LEMMA RestQueries ==
  ASSUME TypeInv,
         \/ serial_number_cnt_changed \/ state_changed \/ fmna_serial_number_lookup_enable
         \/ sn_lookup_timeout_work_handle \/ serial_number_request_handle
         \/ serial_number_request_ends \/ owner_query
  PROVE  RestOK'
<1>. /\ RestOK /\ increment \in Nat /\ served \in Nat /\ retry \in BOOLEAN /\ ready \in BOOLEAN
     /\ TRUE \in BOOLEAN /\ FALSE \in BOOLEAN /\ job \in JobType /\ job.arg \in Nat
     /\ paired_state \in BOOLEAN /\ is_paired \in BOOLEAN /\ tag \in Tags
     /\ \A p \in BOOLEAN : fmna_nfc_buffer_setup(p) \in Tags
  BY CounterTyped DEF TypeInv, RestOK, JobType, is_paired
<1>1. CASE serial_number_cnt_changed
  <2>1. /\ tag' \in Tags
        /\ UNCHANGED <<keyVars, envVars, stored, job, on_air, eval, ready, paired_state, increment,
                 retry, is_lookup_enabled, served>>
    BY <1>1, Zenon DEF serial_number_cnt_changed
  <2>. QED  BY <2>1 DEF RestOK, keyVars, envVars
<1>2. CASE state_changed
  <2>1. paired_state' \in BOOLEAN
    BY <1>2, Zenon DEF state_changed
  <2>2. tag' \in Tags /\ Idle
    BY <1>2, <2>1, Zenon DEF state_changed
  <2>3. increment' \in Nat /\ served' \in Nat
    BY <1>2, CounterTyped DEF state_changed
  <2>4. UNCHANGED <<keyVars, envVars, stored, job, on_air, eval, ready, retry, is_lookup_enabled>>
    BY <1>2, Zenon DEF state_changed
  <2>5. job'.then # "counted"
    BY <2>2, <2>4, NoJobType DEF Idle
  <2>. QED  BY <2>1, <2>2, <2>3, <2>4, <2>5 DEF RestOK, keyVars, envVars
<1>3. CASE fmna_serial_number_lookup_enable
  BY <1>3 DEF fmna_serial_number_lookup_enable, RestOK, keyVars, envVars, nfcVars
<1>4. CASE sn_lookup_timeout_work_handle
  BY <1>4 DEF sn_lookup_timeout_work_handle, RestOK, keyVars, envVars, nfcVars
<1>5. CASE serial_number_request_handle
  <2>1. /\ served' \in Nat /\ job' \in JobType /\ (job'.then = "counted" => job' = job)
        /\ UNCHANGED <<keyVars, envVars, stored, on_air, eval, ready, nfcVars, is_lookup_enabled>>
    <3>1. CASE is_paired /\ is_lookup_enabled /\ counter # None
      <4>. DEFINE ws == <<<<"SN_QUERY_COUNTER", Roll(counter)>>>>
      <4>1. "SN_QUERY_COUNTER" \in ItemIds /\ Roll(counter) \in Keys
        BY CounterTyped, RollType, ItemsProperties
      <4>2. ws \in Writes
        BY <4>1, OneWrite
      <4>3. Start(ws, "served", 0) /\ served' = served + 1
        BY <1>5, <3>1 DEF serial_number_request_handle
      <4>4. job' \in JobType /\ job'.then = "served"
        BY <4>2, <4>3, JobStarted DEF Jobs
      <4>5. served' \in Nat
        BY <4>3
      <4>. QED  BY <1>5, <4>4, <4>5, Zenon DEF serial_number_request_handle
    <3>2. CASE ~(is_paired /\ is_lookup_enabled /\ counter # None)
      BY <1>5, <3>2, Zenon DEF serial_number_request_handle
    <3>. QED  BY <3>1, <3>2
  <2>. QED  BY <2>1 DEF RestOK, keyVars, envVars, nfcVars
<1>6. CASE serial_number_request_ends
  BY <1>6, NoJobType DEF serial_number_request_ends, Ending, RestOK, keyVars, envVars, snVars, nfcVars
<1>7. CASE owner_query
  BY <1>7 DEF owner_query, Write, RestOK, keyVars, envVars, snVars, nfcVars
<1>. QED  BY <1>1, <1>2, <1>3, <1>4, <1>5, <1>6, <1>7

LEMMA RestoredType ==
  ASSUME RestOK
  PROVE  /\ restored_primary \in Nat /\ restored_psk \in Keys
         /\ SECONDARY_KEY_INDEX_FROM_PRIMARY(restored_primary) \in Nat
         /\ restored_secondary \in Keys
         /\ restored_psk.gen = stored["PRIMARY_SK"].gen
         /\ restored_psk.n = stored["PRIMARY_SK"].n + stored["CURRENT_KEYS_INDEX_DIFF"].n
         /\ restored_secondary.gen = stored["SECONDARY_SK"].gen
         /\ restored_secondary.n =
              stored["SECONDARY_SK"].n + (restored_primary \div P)
                - (stored["PRIMARY_KEY_INDEX"].n \div P)
<1>. DEFINE a == stored["PRIMARY_KEY_INDEX"].n
            d == stored["CURRENT_KEYS_INDEX_DIFF"].n
            s == stored["SECONDARY_SK"]
            r == restored_primary
<1>1. /\ a \in Nat /\ d \in Nat /\ s \in Keys /\ stored["PRIMARY_SK"] \in Keys
  <2>1. \A i \in ItemIds : stored[i] \in Keys
    BY CounterTyped
  <2>2. /\ "PRIMARY_KEY_INDEX" \in ItemIds /\ "CURRENT_KEYS_INDEX_DIFF" \in ItemIds
        /\ "SECONDARY_SK" \in ItemIds /\ "PRIMARY_SK" \in ItemIds
    BY ItemsProperties
  <2>. QED  BY <2>1, <2>2 DEF Keys
<1>2. r = a + d
  BY DEF restored_primary
<1>. HIDE DEF r
<1>3. /\ P \in Nat /\ P >= 2
  BY KeyConstants
<1>4. r \in Nat /\ r >= a
  BY <1>1, <1>2
<1>5. r \div P \in Nat /\ a \div P \in Nat /\ r \div P >= a \div P
  BY <1>1, <1>3, <1>4
<1>6. restored_psk \in Keys /\ restored_psk.gen = stored["PRIMARY_SK"].gen
      /\ restored_psk.n = stored["PRIMARY_SK"].n + d
  BY <1>1 DEF restored_psk, Keys
<1>7. restored_secondary = [s EXCEPT !.n = s.n + (r \div P) - (a \div P)]
  BY DEF restored_secondary, r
<1>8. s.n + (r \div P) - (a \div P) \in Nat
  <2>1. s.n \in Nat
    BY <1>1 DEF Keys
  <2>. QED  BY <1>5, <2>1
<1>9. restored_secondary \in Keys /\ restored_secondary.gen = s.gen
      /\ restored_secondary.n = s.n + (r \div P) - (a \div P)
  BY <1>1, <1>7, <1>8 DEF Keys
<1>10. SECONDARY_KEY_INDEX_FROM_PRIMARY(r) \in Nat
  BY <1>5 DEF SECONDARY_KEY_INDEX_FROM_PRIMARY
<1>. QED  BY <1>4, <1>6, <1>9, <1>10 DEF r

LEMMA RestPower ==
  ASSUME TypeInv,
         \/ fmna_enable \/ fmna_disable \/ fmna_factory_reset \/ factory_reset_ends \/ power_loss
  PROVE  RestOK'
<1>. /\ RestOK /\ increment \in Nat /\ served \in Nat /\ retry \in BOOLEAN /\ ready \in BOOLEAN
     /\ TRUE \in BOOLEAN /\ FALSE \in BOOLEAN /\ job \in JobType /\ job.arg \in Nat
     /\ \A p \in BOOLEAN : fmna_nfc_buffer_setup(p) \in Tags
     /\ 0 \in Nat /\ counter.n \in Nat /\ None \in Keys
  BY CounterTyped, NoneType DEF TypeInv, RestOK, JobType
<1>1. CASE fmna_enable
  <2>. DEFINE paired == fmna_storage_pairing_data_check
  <2>1. paired \in BOOLEAN
    BY DEF fmna_storage_pairing_data_check
  <2>2. /\ cnt' \in Nat /\ psk' \in Keys /\ ssk' \in Keys /\ scnt' \in Nat
        /\ use_secondary_pk' \in BOOLEAN /\ key_timer' \in BOOLEAN /\ UNCHANGED <<delta, latched>>
    <3>1. /\ cnt \in Nat /\ psk \in Keys /\ ssk \in Keys /\ scnt \in Nat
          /\ use_secondary_pk \in BOOLEAN /\ key_timer \in BOOLEAN
      BY DEF RestOK
    <3>2. CASE paired
      BY <1>1, <3>2, RestoredType, Zenon DEF fmna_enable, paired_state_restore
    <3>3. CASE ~paired
      BY <1>1, <3>1, <3>3, Zenon DEF fmna_enable, keyVars
    <3>. QED  BY <3>2, <3>3
  <2>3. on_air' \in Payloads
    <3>1. CASE paired
      <4>1. on_air' = [kind |-> "separated", key |-> restored_secondary, secondary |-> TRUE]
        BY <1>1, <3>1 DEF fmna_enable
      <4>. QED  BY <4>1, RestoredType DEF Payloads
    <3>2. CASE ~paired
      <4>1. on_air' = [NoPayload EXCEPT !.kind = "unpaired"]
        BY <1>1, <3>2 DEF fmna_enable
      <4>. QED  BY <4>1, KeyPayloads
    <3>. QED  BY <3>1, <3>2
  <2>4. state' \in States
    BY <1>1 DEF fmna_enable, States
  <2>5. /\ paired_state' \in BOOLEAN /\ tag' \in Tags /\ ready' \in BOOLEAN /\ served' \in Nat
        /\ UNCHANGED <<batch, unpair_pending, link, pairing, torn, stored, job, eval, increment,
                 retry, is_lookup_enabled>>
    BY <1>1, <2>1, Zenon DEF fmna_enable
  <2>. QED  BY <2>2, <2>3, <2>4, <2>5 DEF RestOK
<1>2. CASE fmna_disable
  <2>1. /\ cnt' \in Nat /\ psk' \in Keys /\ ssk' \in Keys /\ scnt' \in Nat /\ delta' \in Nat
        /\ latched' \in Keys /\ eval' \in Nat
        /\ use_secondary_pk' \in BOOLEAN /\ key_timer' \in BOOLEAN
    <3>1. /\ cnt \in Nat /\ psk \in Keys /\ ssk \in Keys /\ scnt \in Nat /\ delta \in Nat
          /\ latched \in Keys /\ eval \in Nat
          /\ use_secondary_pk \in BOOLEAN /\ key_timer \in BOOLEAN
      BY DEF RestOK
    <3>2. CASE state = "UNPAIRED"
      BY <1>2, <3>1, <3>2, Zenon DEF fmna_disable, keyVars
    <3>3. CASE state # "UNPAIRED"
      BY <1>2, <3>1, <3>3, Zenon DEF fmna_disable, fmna_keys_service_stop
    <3>. QED  BY <3>2, <3>3
  <2>2. /\ state' = "DISABLED" /\ unpair_pending' = FALSE /\ link' = "down" /\ ready' = FALSE
        /\ on_air' = NoPayload /\ tag' = Tag("off", 0) /\ increment' = 0 /\ retry' = FALSE
        /\ UNCHANGED <<batch, pairing, torn, stored, job, paired_state, is_lookup_enabled, served>>
        /\ Idle
    BY <1>2, Zenon DEF fmna_disable
  <2>3. NoPayload \in Payloads /\ Tag("off", 0) \in Tags /\ job.then = "none"
    BY <2>2, KeyPayloads, NoJobType DEF Tag, Tags, Idle
  <2>. QED  BY <2>1, <2>2, <2>3 DEF RestOK, States
<1>3. CASE fmna_factory_reset
  <2>1. job' \in JobType /\ job'.then = "erased"
    BY <1>3, DeleteType, JobStarted DEF fmna_factory_reset, Jobs
  <2>. QED  BY <1>3, <2>1 DEF fmna_factory_reset, RestOK, keyVars, envVars, snVars, nfcVars
<1>4. CASE factory_reset_ends
  BY <1>4, NoJobType DEF factory_reset_ends, Ending, RestOK, keyVars, envVars, snVars, nfcVars
<1>5. CASE power_loss
  <2>1. /\ NoPayload \in Payloads /\ Tag("off", 0) \in Tags
        /\ NoJob \in JobType /\ NoJob.then = "none"
    BY KeyPayloads, NoJobType DEF Tag, Tags
  <2>2. torn' \in Nat
    BY <1>5 DEF power_loss, RestOK
  <2>. QED  BY <1>5, <2>1, <2>2 DEF power_loss, fmna_keys_service_stop, RestOK, States
<1>. QED  BY <1>1, <1>2, <1>3, <1>4, <1>5

-----------------------------------------------------------------------------
(* The order of events, states and jobs.                                    *)

Waits(id) == id \in WaitingIds
Leaving   == unpair_pending \/ "UNPAIR" \in WaitingIds

ReadyOrder == ready <=> state # "DISABLED"

LinkOrder ==
  /\ state = "DISABLED" => WaitingIds \cap PeerIds = {} /\ link = "down" /\ ~unpair_pending
  /\ "PEER_DISCONNECTED" \in WaitingIds => link = "down"
  /\ \A id \in OwnerIds : id \in WaitingIds => is_paired
  /\ \A id \in PairingCommands : id \in WaitingIds => state = "UNPAIRED"
  /\ "FINALIZE_PAIRING" \in WaitingIds => link # "finalized"

LeaveOrder ==
  /\ is_paired /\ Leaving =>
       /\ "PEER_SECURITY_CHANGED" \notin WaitingIds /\ "OWNER_CONNECTED" \notin WaitingIds
       /\ link # "down" \/ "PEER_DISCONNECTED" \in WaitingIds
  /\ state = "UNPAIRED" /\ unpair_pending => job.then = "unpaired"
  /\ RotationDue /\ "PEER_DISCONNECTED" \in WaitingIds => ~Leaving

JobOrder ==
  /\ job.then \in {"started", "rotated"} => is_paired
  /\ job.then \in {"finalized", "unpaired"} => state = "UNPAIRED"
  /\ job.then = "erased" => state = "DISABLED"
  /\ job.then = "finalized" => WaitingIds \cap PairingCommands = {}
  /\ ~is_paired => ~key_timer /\ ~RotationDue
  /\ ~is_paired => /\ cnt = 0 /\ scnt = 0 /\ delta = 0 /\ eval = 0
                   /\ latched = None /\ ~use_secondary_pk

OrderInv == TypeInv /\ ReadyOrder /\ PeersOrdered /\ LinkOrder /\ LeaveOrder /\ JobOrder

InTime == "late_rotation" \notin KeyRaces /\ "busy_disable" \notin KeyRaces

OtherJobs == {"none", "counting", "counted", "served"}

(* The command that completes a pairing is written over a link that has     *)
(* been finalized.                                                          *)
Commanded ==
  "PAIRING_COMPLETE" \in WaitingIds' =>
    "PAIRING_COMPLETE" \in WaitingIds \/ (link = "finalized" /\ state = "UNPAIRED")

LEMMA ReadyKept ==
  ASSUME ReadyOrder, UNCHANGED ready, state' = state \/ "DISABLED" \notin {state, state'}
  PROVE  ReadyOrder'
<1>1. ready <=> state # "DISABLED"
  BY DEF ReadyOrder
<1>2. ready' <=> state' # "DISABLED"
  BY <1>1
<1>. QED  BY <1>2 DEF ReadyOrder

(* A step that handles no end of a link, posts nothing of the peer, and     *)
(* leaves states and link alone.                                            *)
LEMMA OwnStep ==
  ASSUME OrderInv, TypeInv', NEW k \in {0, 1}, NEW evs \in Seq(KeyEvent), QueueStep(k, evs),
         k = 0 \/ Backlog[1].id # "PEER_DISCONNECTED",
         IdsOf(evs) \subseteq OwnIds,
         UNCHANGED <<state, unpair_pending, link, ready>>,
         job'.then \in {job.then} \cup OtherJobs \/ (job'.then = "rotated" /\ is_paired),
         job.then = "unpaired" => job'.then = "unpaired",
         is_paired \/ UNCHANGED <<cnt, scnt, delta, eval, latched, use_secondary_pk, key_timer>>
  PROVE  OrderInv' /\ Commanded
<1>1. MayPost(evs)
  <2>1. \A i \in 1..Len(evs) : evs[i].id \in OwnIds
    BY DEF IdsOf
  <2>. QED  BY <2>1, IdsSplit DEF MayPost, OwnIds, LinkWrites, PeerIds, PairingCommands
<1>2. PeersOrdered' /\ QueuesTyped
  BY <1>1, OrderKept DEF OrderInv, TypeInv
<1>3. /\ \A id \in PeerIds : id \in WaitingIds' => id \in WaitingIds
      /\ RotationDue' => RotationDue
      /\ "PEER_DISCONNECTED" \in WaitingIds => "PEER_DISCONNECTED" \in WaitingIds'
  <2>1. WaitingIds' \subseteq WaitingIds \cup OwnIds
    BY <1>2, IdsAfter
  <2>2. RotationDue' => RotationDue
    BY DEF QueueStep, RotationDue
  <2>3. "PEER_DISCONNECTED" \in WaitingIds => "PEER_DISCONNECTED" \in WaitingIds'
    BY <1>2, IdsKept, IdsRemain
  <2>. QED  BY <2>1, <2>2, <2>3, IdsSplit
<1>4. is_paired' = is_paired
  BY DEF is_paired
<1>5. LinkOrder'
  <2>1. LinkOrder /\ OwnerIds \subseteq PeerIds /\ PairingCommands \subseteq PeerIds
        /\ "PEER_DISCONNECTED" \in PeerIds /\ "FINALIZE_PAIRING" \in PeerIds
    BY IdsSplit DEF OrderInv, PeerIds, LinkWrites
  <2>2. WaitingIds \cap PeerIds = {} => WaitingIds' \cap PeerIds = {}
    BY <1>3
  <2>. QED  BY <1>3, <1>4, <2>1, <2>2 DEF LinkOrder
<1>6. LeaveOrder'
  BY <1>3, <1>4 DEF OrderInv, LeaveOrder, Leaving, PeerIds, LinkWrites
<1>7. JobOrder'
  BY <1>3, <1>4, IdsSplit DEF OrderInv, JobOrder, OtherJobs, PairingCommands, PeerIds, LinkWrites
<1>8. ReadyOrder'
  BY ReadyKept DEF OrderInv
<1>9. Commanded
  BY <1>3 DEF Commanded, PeerIds, LinkWrites
<1>. QED  BY <1>2, <1>5, <1>6, <1>7, <1>8, <1>9 DEF OrderInv

LEMMA TypeStep ==
  ASSUME OrderInv, NEW k \in {0, 1}, NEW evs \in Seq(KeyEvent), QueueStep(k, evs), RestOK'
  PROVE  TypeInv'
BY DEF QueueStep, TypeInv

LEMMA PostEmpty ==
  /\ <<>> \in Seq(KeyEvent) /\ IdsOf(<<>>) = {} /\ IdsOf(<<>>) \subseteq OwnIds
  /\ \A id \in OwnIds : /\ <<Ev(id, NULL)>> \in Seq(KeyEvent) /\ IdsOf(<<Ev(id, NULL)>>) = {id}
                        /\ IdsOf(<<Ev(id, NULL)>>) \subseteq OwnIds
<1>1. IdsOf(<<>>) = {}
  BY IdsOfFew
<1>2. ASSUME NEW id \in OwnIds
      PROVE  <<Ev(id, NULL)>> \in Seq(KeyEvent) /\ IdsOf(<<Ev(id, NULL)>>) = {id}
  <2>1. id \in KeyEvents
    BY <1>2, IdsSplit
  <2>2. Ev(id, NULL).id = id
    BY <2>1, EventIn DEF Ev, EvArg
  <2>. QED  BY <2>1, <2>2, StateEventIn, IdsOfFew
<1>. QED  BY <1>1, <1>2, StateEventIn

(* A handler of an event that no peer posts, or that is nothing to states   *)
(* and link; what it may post is an event of its own.                       *)
LEMMA OwnHandler ==
  ASSUME OrderInv, RestOK', NEW id, id # "PEER_DISCONNECTED", Handling(id),
         Post(<<>>) \/ UNCHANGED <<workq, events>>,
         UNCHANGED <<state, unpair_pending, link, ready>>, Idle,
         job'.then \in OtherJobs,
         is_paired \/ UNCHANGED <<cnt, scnt, delta, eval, latched, use_secondary_pk, key_timer>>
  PROVE  OrderInv' /\ Commanded
<1>1. QueueStep(1, <<>>) /\ Backlog[1] = Head(batch) /\ Head(batch).id = id
  BY Handled, PostEmpty DEF OrderInv, TypeInv
<1>2. TypeInv'
  BY <1>1, TypeStep, PostEmpty
<1>3. job.then = "none"
  BY NoJobType DEF Idle
<1>. QED  BY <1>1, <1>2, <1>3, PostEmpty, OwnStep

(* Any other step that posts nothing or an event of the stack itself. *)
LEMMA OwnPosting ==
  ASSUME OrderInv, RestOK', NEW evs \in Seq(KeyEvent), QueueStep(0, evs),
         IdsOf(evs) \subseteq OwnIds,
         UNCHANGED <<state, unpair_pending, link, ready>>,
         job'.then \in {job.then} \cup OtherJobs \/ (job'.then = "rotated" /\ is_paired),
         job.then = "unpaired" => job'.then = "unpaired",
         is_paired \/ UNCHANGED <<cnt, scnt, delta, eval, latched, use_secondary_pk, key_timer>>
  PROVE  OrderInv' /\ Commanded
<1>1. TypeInv'
  BY TypeStep
<1>. QED  BY <1>1, OwnStep

LEMMA OrderHandlers ==
  ASSUME OrderInv, UNCHANGED snVars,
         \/ public_keys_changed \/ peer_connected \/ separated_key_latch_request_handle
         \/ separated_state_configure_request_handle
  PROVE  OrderInv' /\ Commanded
<1>. TypeInv /\ "none" \in OtherJobs /\ (Idle => job.then = "none")
  BY NoJobType DEF OrderInv, OtherJobs, Idle
<1>1. CASE public_keys_changed
  <2>1. RestOK'
    BY <1>1, RestOwner
  <2>. QED
    BY <1>1, <2>1, OwnHandler DEF public_keys_changed, keyVars, envVars, snVars
<1>2. CASE peer_connected
  <2>1. RestOK'
    BY <1>2, RestOwner
  <2>. QED
    BY <1>2, <2>1, OwnHandler DEF peer_connected, keyVars, envVars, snVars
<1>3. CASE separated_key_latch_request_handle
  <2>1. RestOK'
    BY <1>3, RestCommands
  <2>2. is_paired
    <3>1. "LATCH_SEPARATED_KEY" \in WaitingIds
      BY <1>3, Handled, PostEmpty, WaitingAs
      DEF separated_key_latch_request_handle, OrderInv, TypeInv
    <3>. QED  BY <3>1 DEF OrderInv, LinkOrder, OwnerIds
  <2>. QED
    BY <1>3, <2>1, <2>2, OwnHandler DEF separated_key_latch_request_handle, envVars, snVars
<1>4. CASE separated_state_configure_request_handle
  <2>1. RestOK'
    BY <1>4, RestCommands
  <2>2. /\ Handling("CONFIGURE_SEPARATED_STATE") /\ Post(<<>>) /\ Idle
        /\ UNCHANGED <<envVars, job>>
    BY <1>4, Zenon DEF separated_state_configure_request_handle
  <2>3. is_paired
    <3>1. "CONFIGURE_SEPARATED_STATE" \in WaitingIds
      BY <2>2, Handled, PostEmpty, WaitingAs DEF OrderInv, TypeInv
    <3>. QED  BY <3>1 DEF OrderInv, LinkOrder, OwnerIds
  <2>. QED
    BY <2>1, <2>2, <2>3, OwnHandler DEF envVars, snVars
<1>. QED  BY <1>1, <1>2, <1>3, <1>4

LEMMA OrderFacts ==
  ASSUME OrderInv
  PROVE  /\ TypeInv /\ QueuesTyped /\ RestOK /\ PeersOrdered
         /\ Idle => job.then = "none"
         /\ \A x \in Jobs : Ending(x) => job.then = x /\ job' = NoJob /\ job'.then = "none"
         /\ "none" \in OtherJobs
BY NoJobType DEF OrderInv, TypeInv, Idle, Ending, OtherJobs

LEMMA OrderJobs ==
  ASSUME OrderInv, UNCHANGED snVars,
         \/ event_work \/ item_store \/ key_rotation_work_handle \/ rotation_ends
         \/ keys_service_timer_start
  PROVE  OrderInv' /\ Commanded
<1>. QueuesTyped /\ RestOK /\ TypeInv /\ "none" \in OtherJobs /\ <<>> \in Seq(KeyEvent)
     /\ IdsOf(<<>>) \subseteq OwnIds
  BY OrderFacts, PostEmpty
<1>1. CASE event_work
  <2>1. RestOK'
    BY <1>1, RestJobs
  <2>2. QueueStep(0, <<>>)
    BY <1>1, Taken DEF event_work
  <2>. QED  BY <1>1, <2>1, <2>2, OwnPosting DEF event_work, keyVars, envVars, snVars
<1>2. CASE item_store
  <2>1. RestOK'
    BY <1>2, RestJobs
  <2>2. QueueStep(0, <<>>)
    BY <1>2, Kept DEF item_store
  <2>3. job'.then = job.then
    BY <1>2, ItemStored DEF RestOK
  <2>. QED  BY <1>2, <2>1, <2>2, <2>3, OwnPosting DEF item_store, keyVars, envVars, snVars
<1>3. CASE key_rotation_work_handle
  <2>1. RestOK'
    BY <1>3, RestStarts
  <2>2. QueueStep(0, <<>>) /\ Queued(workq, "keys") /\ Idle
    BY <1>3, Ran DEF key_rotation_work_handle
  <2>3. is_paired
    BY <2>2 DEF OrderInv, JobOrder, RotationDue
  <2>4. job'.then = "rotated" /\ UNCHANGED envVars
    BY <1>3 DEF key_rotation_work_handle, Start
  <2>5. job.then = "none"
    BY <2>2, OrderFacts
  <2>. QED  BY <2>1, <2>2, <2>3, <2>4, <2>5, OwnPosting DEF envVars, snVars
<1>4. CASE rotation_ends
  <2>1. RestOK'
    BY <1>4, RestJobs
  <2>. DEFINE e == EvArg("PUBLIC_KEYS_CHANGED", NULL, job.arg)
  <2>2. <<e>> \in Seq(KeyEvent) /\ IdsOf(<<e>>) \subseteq OwnIds
    <3>1. job.arg \in Nat
      BY DEF RestOK, JobType
    <3>2. <<e>> \in Seq(KeyEvent) /\ e.id = "PUBLIC_KEYS_CHANGED"
      BY <3>1, EventIn DEF KeyEvents
    <3>. HIDE DEF e
    <3>3. IdsOf(<<e>>) = {e.id}
      BY IdsOfFew
    <3>. QED  BY <3>2, <3>3 DEF OwnIds
  <2>3. QueueStep(0, <<e>>)
    BY <1>4, <2>2, Posting DEF rotation_ends, Post, QueuesTyped
  <2>4. job.then = "rotated" /\ job'.then = "none"
    BY <1>4, NoJobType DEF rotation_ends, Ending
  <2>5. UNCHANGED <<keyVars, envVars, eval>>
    BY <1>4 DEF rotation_ends
  <2>. HIDE DEF e
  <2>. QED
    BY <2>1, <2>2, <2>3, <2>4, <2>5, OwnPosting DEF keyVars, envVars, snVars
<1>5. CASE keys_service_timer_start
  <2>1. RestOK'
    BY <1>5, RestJobs
  <2>2. QueueStep(0, <<>>)
    BY <1>5, Kept DEF keys_service_timer_start
  <2>3. job.then = "started" /\ job'.then = "none"
    BY <1>5, NoJobType DEF keys_service_timer_start, Ending
  <2>4. is_paired
    BY <2>3 DEF OrderInv, JobOrder
  <2>5. UNCHANGED envVars
    BY <1>5 DEF keys_service_timer_start
  <2>. QED
    BY <2>1, <2>2, <2>3, <2>4, <2>5, OwnPosting DEF envVars, snVars
<1>. QED  BY <1>1, <1>2, <1>3, <1>4, <1>5

LEMMA OrderReads ==
  ASSUME OrderInv,
         \/ nfc_callback \/ sn_counter_update_again \/ sn_counter_update_work_handle
         \/ sn_counter_updated \/ sn_counter_update
  PROVE  OrderInv' /\ Commanded
<1>. QueuesTyped /\ RestOK /\ TypeInv /\ "none" \in OtherJobs /\ <<>> \in Seq(KeyEvent)
     /\ IdsOf(<<>>) \subseteq OwnIds /\ "sn" \in SerialWorkItems
  BY OrderFacts, PostEmpty DEF SerialWorkItems
<1>0. RestOK'
  BY RestReads
<1>1. CASE nfc_callback
  <2>1. QueueStep(0, <<>>) /\ UNCHANGED <<keyVars, envVars, job, eval, ready>>
    <3>1. CASE paired_state
      <4>1. workq' = Submitted(workq, "sn")
            /\ UNCHANGED <<batch, events, keyVars, envVars, job, eval, ready>>
        BY <1>1, <3>1, Zenon DEF nfc_callback
      <4>. QED  BY <4>1, Queueing DEF QueueStep
    <3>2. CASE ~paired_state
      <4>1. UNCHANGED <<workq, batch, events, keyVars, envVars, job, eval, ready>>
        BY <1>1, <3>2, Zenon DEF nfc_callback
      <4>. QED  BY <4>1, Kept DEF queueVars
    <3>. QED  BY <3>1, <3>2
  <2>. QED  BY <1>0, <2>1, OwnPosting DEF keyVars, envVars
<1>2. CASE sn_counter_update_again
  <2>1. QueueStep(0, <<>>)
    BY <1>2, Queueing DEF sn_counter_update_again, QueueStep
  <2>. QED  BY <1>0, <1>2, <2>1, OwnPosting DEF sn_counter_update_again, keyVars, envVars
<1>3. CASE sn_counter_update_work_handle
  <2>1. QueueStep(0, <<>>) /\ Idle
    BY <1>3, Ran DEF sn_counter_update_work_handle
  <2>2. job'.then = "counting" /\ job.then = "none"
    BY <1>3, <2>1, OrderFacts DEF sn_counter_update_work_handle, Start
  <2>3. UNCHANGED <<keyVars, envVars, eval, snVars>>
    BY <1>3 DEF sn_counter_update_work_handle
  <2>. QED  BY <1>0, <2>1, <2>2, <2>3, OwnPosting DEF OtherJobs, keyVars, envVars, snVars
<1>4. CASE sn_counter_updated
  <2>. DEFINE q == IF increment # job.arg THEN Submitted(workq, "sn") ELSE workq
              evs == <<Ev("SERIAL_NUMBER_CNT_CHANGED", NULL)>>
  <2>1. q \in Seq(SerialWorkItems) /\ (Queued(q, "keys") => Queued(workq, "keys"))
    BY SubmittedIn DEF QueuesTyped
  <2>2. evs \in Seq(KeyEvent) /\ IdsOf(evs) \subseteq OwnIds
    BY PostEmpty DEF OwnIds
  <2>3. PostOn(q, evs) /\ Ending("counted")
        /\ UNCHANGED <<batch, keyVars, envVars, eval, ready>>
    BY <1>4, Zenon DEF sn_counter_updated
  <2>. HIDE DEF q, evs
  <2>4. QueueStep(0, evs)
    BY <2>1, <2>2, <2>3, Posting
  <2>5. job.then = "counted" /\ job'.then = "none"
    BY <2>3, NoJobType DEF Ending
  <2>. QED  BY <1>0, <2>2, <2>3, <2>4, <2>5, OwnPosting DEF keyVars, envVars
<1>5. CASE sn_counter_update
  <2>1. job.then = "counting" /\ job'.then \in {"none", "counted"}
        /\ UNCHANGED <<queueVars, keyVars, envVars, eval, ready>>
    <3>1. job.then = "counting" /\ UNCHANGED <<queueVars, keyVars, envVars, eval, ready>>
      BY <1>5, Zenon DEF sn_counter_update
    <3>2. CASE ~paired_state \/ counter = None
      BY <1>5, <3>1, <3>2, NoJobType DEF sn_counter_update
    <3>3. CASE ~(~paired_state \/ counter = None)
      BY <1>5, <3>1, <3>3 DEF sn_counter_update, Start
    <3>. QED  BY <3>1, <3>2, <3>3
  <2>2. QueueStep(0, <<>>)
    BY <2>1, Kept
  <2>. QED  BY <1>0, <2>1, <2>2, OwnPosting DEF OtherJobs, keyVars, envVars
<1>. QED  BY <1>1, <1>2, <1>3, <1>4, <1>5

LEMMA OrderQueries ==
  ASSUME OrderInv,
         \/ serial_number_cnt_changed \/ state_changed \/ fmna_serial_number_lookup_enable
         \/ sn_lookup_timeout_work_handle \/ serial_number_request_handle
         \/ serial_number_request_ends
  PROVE  OrderInv' /\ Commanded
<1>. QueuesTyped /\ RestOK /\ TypeInv /\ "none" \in OtherJobs /\ <<>> \in Seq(KeyEvent)
     /\ IdsOf(<<>>) \subseteq OwnIds
  BY OrderFacts, PostEmpty
<1>0. RestOK'
  BY RestQueries
<1>1. CASE serial_number_cnt_changed
  <2>1. /\ Idle /\ Handling("SERIAL_NUMBER_CNT_CHANGED") /\ Post(<<>>)
        /\ UNCHANGED <<keyVars, envVars, job, eval, ready>>
    BY <1>1, Zenon DEF serial_number_cnt_changed
  <2>. QED  BY <1>0, <2>1, OrderFacts, OwnHandler DEF keyVars, envVars
<1>2. CASE state_changed
  <2>1. /\ Idle /\ Handling("STATE_CHANGED") /\ Post(<<>>)
        /\ UNCHANGED <<keyVars, envVars, job, eval, ready>>
    BY <1>2, Zenon DEF state_changed
  <2>. QED  BY <1>0, <2>1, OrderFacts, OwnHandler DEF keyVars, envVars
<1>3. CASE fmna_serial_number_lookup_enable
  <2>1. UNCHANGED <<queueVars, keyVars, envVars, job, eval, ready>>
    BY <1>3, Zenon DEF fmna_serial_number_lookup_enable
  <2>. QED  BY <1>0, <2>1, Kept, OwnPosting DEF keyVars, envVars
<1>4. CASE sn_lookup_timeout_work_handle
  <2>1. UNCHANGED <<queueVars, keyVars, envVars, job, eval, ready>>
    BY <1>4, Zenon DEF sn_lookup_timeout_work_handle
  <2>. QED  BY <1>0, <2>1, Kept, OwnPosting DEF keyVars, envVars
<1>5. CASE serial_number_request_handle
  <2>1. /\ Idle /\ Handling("GET_SERIAL_NUMBER")
        /\ UNCHANGED <<keyVars, envVars, eval, ready>>
        /\ Post(<<>>) \/ UNCHANGED <<workq, events>>
    BY <1>5, Zenon DEF serial_number_request_handle
  <2>2. job'.then \in OtherJobs
    <3>1. CASE is_paired /\ is_lookup_enabled /\ counter # None
      BY <1>5, <3>1 DEF serial_number_request_handle, Start, OtherJobs
    <3>2. CASE ~(is_paired /\ is_lookup_enabled /\ counter # None)
      BY <1>5, <2>1, <3>2, OrderFacts DEF serial_number_request_handle
    <3>. QED  BY <3>1, <3>2
  <2>. QED  BY <1>0, <2>1, <2>2, OwnHandler DEF keyVars, envVars
<1>6. CASE serial_number_request_ends
  <2>. DEFINE evs == <<Ev("SERIAL_NUMBER_CNT_CHANGED", NULL)>>
  <2>1. evs \in Seq(KeyEvent) /\ IdsOf(evs) \subseteq OwnIds
    BY PostEmpty DEF OwnIds
  <2>2. PostOn(workq, evs) /\ Ending("served")
        /\ UNCHANGED <<batch, keyVars, envVars, eval, snVars>>
    BY <1>6, Zenon DEF serial_number_request_ends, Post
  <2>. HIDE DEF evs
  <2>3. QueueStep(0, evs)
    BY <2>1, <2>2, Posting DEF QueuesTyped
  <2>4. job.then = "served" /\ job'.then = "none"
    BY <2>2, NoJobType DEF Ending
  <2>. QED  BY <1>0, <2>1, <2>2, <2>3, <2>4, OwnPosting DEF keyVars, envVars, snVars
<1>. QED  BY <1>1, <1>2, <1>3, <1>4, <1>5, <1>6

LEMMA PeerEvent ==
  ASSUME NEW id \in PeerIds, NEW a \in Nat
  PROVE  /\ EvArg(id, 1, a) \in KeyEvent /\ EvArg(id, 1, a).id = id /\ EvArg(id, 1, a).conn = 1
         /\ <<EvArg(id, 1, a)>> \in Seq(KeyEvent) /\ IdsOf(<<EvArg(id, 1, a)>>) = {id}
         /\ Ev(id, 1) = EvArg(id, 1, 0)
<1>1. id \in KeyEvents
  BY IdsSplit
<1>2. /\ EvArg(id, 1, a) \in KeyEvent /\ EvArg(id, 1, a).id = id /\ EvArg(id, 1, a).conn = 1
      /\ <<EvArg(id, 1, a)>> \in Seq(KeyEvent) /\ Ev(id, 1) = EvArg(id, 1, 0)
  BY <1>1, EventIn
<1>. DEFINE e == EvArg(id, 1, a)
<1>3. e.id = id
  BY <1>2
<1>. HIDE DEF e
<1>4. IdsOf(<<e>>) = {e.id}
  BY IdsOfFew
<1>. QED  BY <1>2, <1>3, <1>4 DEF e

LEMMA PeerPosts ==
  ASSUME OrderInv, NEW k \in {0, 1}, NEW id \in PeerIds, NEW a \in Nat,
         QueueStep(k, <<EvArg(id, 1, a)>>),
         id \in LinkWrites \cup {"PEER_DISCONNECTED"} => "PEER_DISCONNECTED" \notin WaitingIds,
         id \in PairingCommands => WaitingIds \cap PairingCommands = {}
  PROVE  PeersOrdered' /\ WaitingIds' \subseteq WaitingIds \cup {id} /\ id \in WaitingIds'
<1>. DEFINE e == EvArg(id, 1, a)
<1>1. e \in KeyEvent /\ e.id = id /\ e.conn = 1 /\ <<e>> \in Seq(KeyEvent) /\ IdsOf(<<e>>) = {id}
      /\ QueueStep(k, <<e>>)
  BY PeerEvent
<1>. HIDE DEF e
<1>2. MayPost(<<e>>)
  <2>1. Len(<<e>>) = 1 /\ \A i \in 1..Len(<<e>>) : <<e>>[i] = e
    OBVIOUS
  <2>. QED  BY <1>1, <2>1 DEF MayPost
<1>3. QueuesTyped /\ PeersOrdered
  BY OrderFacts
<1>4. PeersOrdered'
  BY <1>1, <1>2, <1>3, OrderKept
<1>5. WaitingIds' \subseteq WaitingIds \cup {id} /\ {id} \subseteq WaitingIds'
  BY <1>1, <1>3, IdsAfter
<1>. QED  BY <1>4, <1>5

LEMMA OwnPosts ==
  ASSUME OrderInv, NEW k \in {0, 1}, NEW evs \in Seq(KeyEvent), QueueStep(k, evs),
         IdsOf(evs) \subseteq OwnIds
  PROVE  /\ PeersOrdered' /\ WaitingIds' \subseteq WaitingIds \cup IdsOf(evs)
         /\ \A id \in PeerIds : id \in WaitingIds' => id \in WaitingIds
         /\ RotationDue' => RotationDue
<1>1. MayPost(evs)
  <2>1. \A i \in 1..Len(evs) : evs[i].id \in OwnIds
    BY DEF IdsOf
  <2>. QED  BY <2>1, IdsSplit DEF MayPost, OwnIds, LinkWrites, PeerIds, PairingCommands
<1>2. PeersOrdered' /\ WaitingIds' \subseteq WaitingIds \cup IdsOf(evs)
  BY <1>1, OrderFacts, OrderKept, IdsAfter
<1>. QED  BY <1>2, IdsSplit DEF QueueStep, RotationDue

LEMMA PairedStates ==
  ASSUME OrderInv
  PROVE  /\ is_paired <=> state \in {"CONNECTED", "NEARBY", "SEPARATED"}
         /\ ~is_paired <=> state \in {"DISABLED", "UNPAIRED"}
         /\ link # "down" => state # "DISABLED"
BY DEF OrderInv, TypeInv, RestOK, States, is_paired, LinkOrder

LEMMA OrderArrives ==
  ASSUME OrderInv, peer_arrives, UNCHANGED snVars
  PROVE  OrderInv' /\ Commanded
<1>. DEFINE c == EvArg("PEER_CONNECTED", 1, 0)
            s == EvArg("PEER_SECURITY_CHANGED", 1, 0)
            evs == <<c, s>>
<1>1. /\ c \in KeyEvent /\ s \in KeyEvent /\ c.conn = 1 /\ s.conn = 1
      /\ c.id = "PEER_CONNECTED" /\ s.id = "PEER_SECURITY_CHANGED"
      /\ Ev("PEER_CONNECTED", 1) = c /\ Ev("PEER_SECURITY_CHANGED", 1) = s
  BY PeerEvent DEF PeerIds, LinkWrites
<1>2. /\ state # "DISABLED" /\ link = "down" /\ ~Pending("PEER_DISCONNECTED", 1) /\ link' = "up"
      /\ UNCHANGED <<batch, keyVars, state, unpair_pending, job, eval>>
      /\ PostOn(workq, evs)
  BY <1>1 DEF peer_arrives, Post
<1>. HIDE DEF c, s
<1>3. /\ evs \in Seq(KeyEvent) /\ Len(evs) = 2 /\ IdsOf(evs) = {"PEER_CONNECTED", "PEER_SECURITY_CHANGED"}
      /\ \A i \in 1..Len(evs) : evs[i] \in {c, s}
  <2>1. IdsOf(evs) = {c.id, s.id}
    BY IdsOfFew
  <2>2. evs \in Seq(KeyEvent) /\ Len(evs) = 2
    BY <1>1
  <2>3. \A i \in 1..Len(evs) : evs[i] \in {c, s}
    OBVIOUS
  <2>. QED  BY <1>1, <2>1, <2>2, <2>3
<1>. HIDE DEF evs
<1>4. QueueStep(0, evs)
  BY <1>2, <1>3, OrderFacts, Posting DEF QueuesTyped
<1>5. "PEER_DISCONNECTED" \notin WaitingIds
  BY <1>2, OrderFacts, PendingIs DEF PeerIds
<1>6. MayPost(evs)
  BY <1>1, <1>3, <1>5 DEF MayPost, PairingCommands
<1>7. /\ PeersOrdered' /\ WaitingIds \subseteq WaitingIds'
      /\ WaitingIds' \subseteq WaitingIds \cup {"PEER_CONNECTED", "PEER_SECURITY_CHANGED"}
      /\ RotationDue' => RotationDue
  BY <1>3, <1>4, <1>6, OrderFacts, OrderKept, IdsAfter, IdsKept DEF QueueStep, RotationDue
<1>8. is_paired' = is_paired /\ ~(is_paired /\ Leaving)
  BY <1>2, <1>5 DEF is_paired, OrderInv, LeaveOrder
<1>9. RestOK'
  BY OrderFacts, RestArrives
<1>10. TypeInv' /\ ReadyOrder'
  BY <1>2, <1>3, <1>4, <1>9, TypeStep, ReadyKept DEF snVars, OrderInv
<1>11. LinkOrder'
  BY <1>2, <1>5, <1>7, <1>8 DEF OrderInv, LinkOrder, OwnerIds, PairingCommands
<1>12. LeaveOrder'
  BY <1>2, <1>5, <1>7, <1>8 DEF OrderInv, LeaveOrder, Leaving
<1>13. JobOrder'
  BY <1>2, <1>7, <1>8 DEF OrderInv, JobOrder, PairingCommands, keyVars
<1>14. Commanded
  BY <1>7 DEF Commanded
<1>. QED  BY <1>7, <1>10, <1>11, <1>12, <1>13, <1>14 DEF OrderInv

LEMMA OrderLeaves ==
  ASSUME OrderInv, InTime, peer_leaves, UNCHANGED snVars
  PROVE  OrderInv' /\ Commanded
<1>1. /\ link # "down" /\ link' = "down"
      /\ Queued(workq, "keys") /\ (unpair_pending \/ Pending("UNPAIR", 1))
               => "late_rotation" \in KeyRaces
      /\ UNCHANGED <<batch, keyVars, state, unpair_pending, job, eval>>
      /\ PostOn(workq, <<Ev("PEER_DISCONNECTED", 1)>>)
  BY DEF peer_leaves, Post
<1>. DEFINE e == EvArg("PEER_DISCONNECTED", 1, 0)
<1>2. <<e>> \in Seq(KeyEvent) /\ PostOn(workq, <<e>>)
  BY <1>1, PeerEvent DEF PeerIds
<1>3. QueueStep(0, <<e>>)
  BY <1>1, <1>2, OrderFacts, Posting DEF QueuesTyped
<1>4. "PEER_DISCONNECTED" \notin WaitingIds
  BY <1>1 DEF OrderInv, LinkOrder
<1>5. PeersOrdered' /\ WaitingIds' \subseteq WaitingIds \cup {"PEER_DISCONNECTED"}
      /\ "PEER_DISCONNECTED" \in WaitingIds'
  BY <1>3, <1>4, PeerPosts DEF PeerIds, PairingCommands
<1>6. is_paired' = is_paired /\ (RotationDue' => RotationDue)
  BY <1>1, <1>3 DEF is_paired, QueueStep, RotationDue
<1>7. RotationDue => ~Leaving
  BY <1>1, OrderFacts, PendingIs DEF InTime, RotationDue, Leaving, PeerIds, LinkWrites
<1>8. RestOK'
  BY OrderFacts, RestCommands
<1>9. TypeInv' /\ ReadyOrder'
  BY <1>1, <1>2, <1>3, <1>8, TypeStep, ReadyKept DEF snVars, OrderInv
<1>10. LinkOrder'
  BY <1>1, <1>5, <1>6, PairedStates DEF OrderInv, LinkOrder, OwnerIds, PairingCommands
<1>11. LeaveOrder'
  BY <1>1, <1>5, <1>6, <1>7 DEF OrderInv, LeaveOrder, Leaving
<1>12. JobOrder'
  BY <1>1, <1>5, <1>6 DEF OrderInv, JobOrder, PairingCommands, keyVars
<1>13. Commanded
  BY <1>5 DEF Commanded
<1>. QED  BY <1>5, <1>9, <1>10, <1>11, <1>12, <1>13 DEF OrderInv

LEMMA OrderSecured ==
  ASSUME OrderInv, peer_security_changed, UNCHANGED snVars
  PROVE  OrderInv' /\ Commanded
<1>1. RestOK'
  BY OrderFacts, RestOwner
<1>. DEFINE e == EvArg("OWNER_CONNECTED", 1, 0)
            evs == IF is_paired THEN <<e>> ELSE <<>>
<1>2. /\ Idle /\ Handling("PEER_SECURITY_CHANGED")
      /\ UNCHANGED <<cnt, scnt, delta, latched, key_timer, envVars, job>>
      /\ is_paired \/ UNCHANGED <<use_secondary_pk, eval>>
      /\ Post(evs)
  <2>1. Ev("OWNER_CONNECTED", 1) = e
    BY PeerEvent DEF PeerIds
  <2>2. /\ Idle /\ Handling("PEER_SECURITY_CHANGED")
        /\ UNCHANGED <<psk, ssk, cnt, scnt, delta, latched, key_timer, envVars, stored, job, on_air>>
    BY Zenon DEF peer_security_changed
  <2>3. CASE is_paired
    BY <2>1, <2>2, <2>3, Zenon DEF peer_security_changed
  <2>4. CASE ~is_paired
    BY <2>2, <2>4, Zenon DEF peer_security_changed
  <2>. QED  BY <2>2, <2>3, <2>4
<1>3. CASE ~is_paired
  BY <1>1, <1>2, <1>3, OwnHandler, OrderFacts DEF envVars, snVars
<1>4. CASE is_paired
  <2>1. <<e>> \in Seq(KeyEvent) /\ Post(<<e>>)
    BY <1>2, <1>4, PeerEvent DEF PeerIds
  <2>2. QueueStep(1, <<e>>) /\ 1 \in 1..Len(Backlog) /\ Backlog[1].id = "PEER_SECURITY_CHANGED"
    BY <1>2, <2>1, Handled, OrderFacts
  <2>3. PeersOrdered' /\ WaitingIds' \subseteq WaitingIds \cup {"OWNER_CONNECTED"}
    BY <2>2, PeerPosts DEF PeerIds, LinkWrites, PairingCommands
  <2>4. "PEER_SECURITY_CHANGED" \in WaitingIds
    BY <2>2, WaitingAs
  <2>5. ~Leaving
    BY <1>4, <2>4 DEF OrderInv, LeaveOrder
  <2>6. is_paired' = is_paired /\ (RotationDue' => RotationDue)
        /\ UNCHANGED <<state, link, unpair_pending, job>>
    BY <1>2, <2>2 DEF is_paired, QueueStep, RotationDue, envVars
  <2>7. TypeInv' /\ ReadyOrder'
    BY <1>1, <2>1, <2>2, <2>6, TypeStep, ReadyKept DEF snVars, OrderInv
  <2>8. LinkOrder'
    BY <1>4, <2>3, <2>6, PairedStates DEF OrderInv, LinkOrder, OwnerIds, PairingCommands
  <2>9. LeaveOrder'
    BY <1>4, <2>3, <2>5, <2>6, PairedStates DEF OrderInv, LeaveOrder, Leaving
  <2>10. JobOrder'
    BY <1>2, <1>4, <2>3, <2>6 DEF OrderInv, JobOrder, PairingCommands
  <2>11. Commanded
    BY <2>3 DEF Commanded
  <2>. QED  BY <2>3, <2>7, <2>8, <2>9, <2>10, <2>11 DEF OrderInv
<1>. QED  BY <1>3, <1>4

LEMMA StateEvent ==
  /\ <<Ev("STATE_CHANGED", NULL)>> \in Seq(KeyEvent)
  /\ IdsOf(<<Ev("STATE_CHANGED", NULL)>>) \subseteq OwnIds
BY PostEmpty DEF OwnIds

LEMMA OrderOwner ==
  ASSUME OrderInv, owner_connected, UNCHANGED snVars
  PROVE  OrderInv' /\ Commanded
<1>1. RestOK'
  BY OrderFacts, RestOwner
<1>. DEFINE evs == IF state = "CONNECTED" THEN <<>> ELSE <<Ev("STATE_CHANGED", NULL)>>
<1>2. /\ Idle /\ Handling("OWNER_CONNECTED") /\ state' = "CONNECTED" /\ Post(evs)
      /\ UNCHANGED <<keyVars, unpair_pending, link, job, eval>>
  BY DEF owner_connected
<1>3. evs \in Seq(KeyEvent) /\ IdsOf(evs) \subseteq OwnIds
  BY StateEvent, PostEmpty
<1>. HIDE DEF evs
<1>4. QueueStep(1, evs) /\ 1 \in 1..Len(Backlog) /\ Backlog[1].id = "OWNER_CONNECTED"
  BY <1>2, <1>3, Handled, OrderFacts
<1>5. /\ PeersOrdered' /\ \A id \in PeerIds : id \in WaitingIds' => id \in WaitingIds
      /\ RotationDue' => RotationDue
  BY <1>3, <1>4, OwnPosts
<1>6. "OWNER_CONNECTED" \in WaitingIds
  BY <1>4, WaitingAs
<1>7. is_paired /\ is_paired' /\ ~Leaving
  BY <1>2, <1>6 DEF OrderInv, LeaveOrder, LinkOrder, OwnerIds, is_paired
<1>8. TypeInv' /\ ReadyOrder'
  BY <1>1, <1>2, <1>3, <1>4, <1>7, TypeStep, ReadyKept, PairedStates DEF snVars, OrderInv
<1>9. LinkOrder'
  BY <1>2, <1>5, <1>7, PairedStates
  DEF OrderInv, LinkOrder, OwnerIds, PairingCommands, PeerIds, LinkWrites
<1>10. LeaveOrder'
  BY <1>2, <1>5, <1>7, PairedStates DEF OrderInv, LeaveOrder, Leaving, PeerIds, LinkWrites
<1>11. JobOrder'
  BY <1>2, <1>5, <1>7, OrderFacts DEF OrderInv, JobOrder, PairingCommands
<1>12. Commanded
  BY <1>5 DEF Commanded, PeerIds, LinkWrites
<1>. QED  BY <1>5, <1>8, <1>9, <1>10, <1>11, <1>12 DEF OrderInv

LEMMA OrderNearby ==
  ASSUME OrderInv, nearby_separated_work_handle, UNCHANGED snVars
  PROVE  OrderInv' /\ Commanded
<1>1. RestOK'
  BY OrderFacts, RestOwner
<1>. DEFINE evs == <<Ev("STATE_CHANGED", NULL)>>
<1>2. /\ Idle /\ state = "NEARBY" /\ state' = "SEPARATED" /\ PostOn(workq, evs)
      /\ UNCHANGED <<batch, keyVars, unpair_pending, link, job, eval>>
  BY DEF nearby_separated_work_handle, Post
<1>3. evs \in Seq(KeyEvent) /\ IdsOf(evs) \subseteq OwnIds
  BY StateEvent
<1>. HIDE DEF evs
<1>4. QueueStep(0, evs)
  BY <1>2, <1>3, Posting, OrderFacts DEF QueuesTyped
<1>5. /\ PeersOrdered' /\ \A id \in PeerIds : id \in WaitingIds' => id \in WaitingIds
      /\ RotationDue' => RotationDue
  BY <1>3, <1>4, OwnPosts
<1>6. "PEER_DISCONNECTED" \in WaitingIds => "PEER_DISCONNECTED" \in WaitingIds'
  BY <1>3, <1>4, IdsKept, OrderFacts
<1>7. is_paired /\ is_paired'
  BY <1>2 DEF is_paired
<1>8. TypeInv' /\ ReadyOrder'
  BY <1>1, <1>2, <1>3, <1>4, <1>7, TypeStep, ReadyKept, PairedStates DEF snVars, OrderInv
<1>9. LinkOrder'
  BY <1>2, <1>5, <1>7, PairedStates
  DEF OrderInv, LinkOrder, OwnerIds, PairingCommands, PeerIds, LinkWrites
<1>10. LeaveOrder'
  BY <1>2, <1>5, <1>6, <1>7, PairedStates DEF OrderInv, LeaveOrder, Leaving, PeerIds, LinkWrites
<1>11. JobOrder'
  BY <1>2, <1>5, <1>7, OrderFacts DEF OrderInv, JobOrder, PairingCommands
<1>12. Commanded
  BY <1>5 DEF Commanded, PeerIds, LinkWrites
<1>. QED  BY <1>5, <1>8, <1>9, <1>10, <1>11, <1>12 DEF OrderInv

LEMMA OrderDisconnected ==
  ASSUME OrderInv, owner_disconnected, UNCHANGED snVars
  PROVE  OrderInv' /\ Commanded
<1>1. RestOK'
  BY OrderFacts, RestOwner
<1>. DEFINE evs == IF state = state' THEN <<>> ELSE <<Ev("STATE_CHANGED", NULL)>>
<1>2. /\ Idle /\ Handling("PEER_DISCONNECTED") /\ ~unpair_pending /\ Post(evs)
      /\ state' \in IF state = "CONNECTED" THEN {"NEARBY", "SEPARATED"} ELSE {state}
      /\ UNCHANGED <<keyVars, unpair_pending, link, job, eval>>
  BY DEF owner_disconnected
<1>3. evs \in Seq(KeyEvent) /\ IdsOf(evs) \subseteq OwnIds
  BY StateEvent, PostEmpty
<1>. HIDE DEF evs
<1>4. QueueStep(1, evs) /\ 1 \in 1..Len(Backlog) /\ Backlog[1].id = "PEER_DISCONNECTED"
  BY <1>2, <1>3, Handled, OrderFacts
<1>5. /\ PeersOrdered' /\ \A id \in PeerIds : id \in WaitingIds' => id \in WaitingIds
      /\ RotationDue' => RotationDue
  BY <1>3, <1>4, OwnPosts
<1>6. "PEER_DISCONNECTED" \in WaitingIds /\ "UNPAIR" \notin WaitingIds'
      /\ "PEER_DISCONNECTED" \notin WaitingIds'
  <2>1. IdsOf(evs) \cap PeerIds = {}
    BY <1>3, IdsSplit
  <2>. QED  BY <1>3, <1>4, <2>1, OrderTaken, OrderFacts DEF LinkWrites, PeerIds
<1>7. is_paired' = is_paired /\ (state' = state \/ is_paired)
  BY <1>2 DEF is_paired
<1>8. TypeInv' /\ ReadyOrder'
  BY <1>1, <1>2, <1>3, <1>4, <1>7, TypeStep, ReadyKept, PairedStates DEF snVars, OrderInv
<1>9. LinkOrder'
  BY <1>2, <1>5, <1>6, <1>7, PairedStates
  DEF OrderInv, LinkOrder, OwnerIds, PairingCommands, PeerIds, LinkWrites
<1>10. LeaveOrder'
  BY <1>2, <1>5, <1>6, <1>7, PairedStates DEF OrderInv, LeaveOrder, Leaving, PeerIds, LinkWrites
<1>11. JobOrder'
  BY <1>2, <1>5, <1>7, OrderFacts DEF OrderInv, JobOrder, PairingCommands, keyVars
<1>12. Commanded
  BY <1>5 DEF Commanded, PeerIds, LinkWrites
<1>. QED  BY <1>5, <1>8, <1>9, <1>10, <1>11, <1>12 DEF OrderInv

LEMMA OrderUnpaired ==
  ASSUME OrderInv, owner_unpaired, UNCHANGED snVars
  PROVE  OrderInv' /\ Commanded /\ is_paired
<1>1. RestOK'
  BY OrderFacts, RestStarts
<1>2. /\ Idle /\ Handling("PEER_DISCONNECTED") /\ unpair_pending /\ state' = "UNPAIRED"
      /\ fmna_keys_service_stop /\ job'.then = "unpaired"
      /\ UNCHANGED <<workq, events, unpair_pending, link>>
  BY DEF owner_unpaired, Start
<1>3. /\ QueueStep(1, <<>>) /\ 1 \in 1..Len(Backlog) /\ Backlog[1].id = "PEER_DISCONNECTED"
      /\ <<>> \in Seq(KeyEvent) /\ IdsOf(<<>>) \subseteq OwnIds /\ IdsOf(<<>>) = {}
  BY <1>2, Handled, OrderFacts, PostEmpty
<1>4. /\ PeersOrdered' /\ \A id \in PeerIds : id \in WaitingIds' => id \in WaitingIds
      /\ RotationDue' => RotationDue
  BY <1>3, OwnPosts
<1>5. "PEER_DISCONNECTED" \in WaitingIds
      /\ \A x \in LinkWrites \cup {"PEER_DISCONNECTED"} : x \notin WaitingIds'
  BY <1>3, OrderTaken, OrderFacts
<1>6. is_paired
  BY <1>2, PairedStates, OrderFacts DEF OrderInv, LinkOrder, LeaveOrder
<1>7. "OWNER_CONNECTED" \notin WaitingIds /\ ~RotationDue /\ link = "down"
  BY <1>2, <1>5, <1>6 DEF OrderInv, LeaveOrder, LinkOrder, Leaving
<1>8. state # "DISABLED" /\ ~is_paired'
  BY <1>2, <1>6, PairedStates DEF is_paired
<1>9. TypeInv' /\ ReadyOrder'
  BY <1>1, <1>2, <1>3, <1>8, TypeStep, ReadyKept, PairedStates DEF snVars, OrderInv
<1>10. LinkOrder'
  BY <1>2, <1>4, <1>5, <1>7, <1>8
  DEF LinkOrder, OwnerIds, PairingCommands, PeerIds, LinkWrites
<1>11. LeaveOrder'
  BY <1>2, <1>4, <1>7, <1>8 DEF LeaveOrder
<1>12. JobOrder'
  BY <1>2, <1>4, <1>5, <1>7, <1>8 DEF JobOrder, fmna_keys_service_stop
<1>13. Commanded
  BY <1>4 DEF Commanded, PeerIds, LinkWrites
<1>. QED  BY <1>4, <1>6, <1>9, <1>10, <1>11, <1>12, <1>13 DEF OrderInv

LEMMA OrderUnpairingEnds ==
  ASSUME OrderInv, unpairing_ends, UNCHANGED snVars
  PROVE  OrderInv' /\ Commanded
<1>1. RestOK'
  BY OrderFacts, RestJobs
<1>. DEFINE evs == <<Ev("STATE_CHANGED", NULL)>>
<1>2. /\ job.then = "unpaired" /\ job'.then = "none" /\ ~unpair_pending' /\ PostOn(workq, evs)
      /\ UNCHANGED <<batch, keyVars, state, link, eval>>
  BY NoJobType DEF unpairing_ends, Post, Ending
<1>3. evs \in Seq(KeyEvent) /\ IdsOf(evs) \subseteq OwnIds
  BY StateEvent
<1>. HIDE DEF evs
<1>4. QueueStep(0, evs)
  BY <1>2, <1>3, Posting, OrderFacts DEF QueuesTyped
<1>5. /\ PeersOrdered' /\ \A id \in PeerIds : id \in WaitingIds' => id \in WaitingIds
      /\ RotationDue' => RotationDue
  BY <1>3, <1>4, OwnPosts
<1>6. state = "UNPAIRED" /\ ~is_paired /\ ~is_paired'
  BY <1>2 DEF is_paired, OrderInv, JobOrder
<1>7. TypeInv' /\ ReadyOrder'
  BY <1>1, <1>2, <1>3, <1>4, TypeStep, ReadyKept DEF snVars, OrderInv
<1>8. LinkOrder'
  BY <1>2, <1>5, <1>6 DEF OrderInv, LinkOrder, OwnerIds, PairingCommands, PeerIds, LinkWrites
<1>9. LeaveOrder'
  BY <1>2, <1>5, <1>6 DEF OrderInv, LeaveOrder, JobOrder
<1>10. JobOrder'
  BY <1>2, <1>5, <1>6 DEF OrderInv, JobOrder, keyVars
<1>11. Commanded
  BY <1>5 DEF Commanded, PeerIds, LinkWrites
<1>. QED  BY <1>5, <1>7, <1>8, <1>9, <1>10, <1>11 DEF OrderInv

LEMMA OrderUnpair ==
  ASSUME OrderInv, unpair_request_handle, UNCHANGED snVars
  PROVE  OrderInv' /\ Commanded
<1>1. RestOK'
  BY OrderFacts, RestCommands
<1>2. /\ Idle /\ Handling("UNPAIR") /\ unpair_pending' = TRUE /\ Post(<<>>)
      /\ UNCHANGED <<keyVars, state, link, job, eval>>
  BY DEF unpair_request_handle
<1>3. /\ QueueStep(1, <<>>) /\ 1 \in 1..Len(Backlog) /\ Backlog[1].id = "UNPAIR"
      /\ <<>> \in Seq(KeyEvent) /\ IdsOf(<<>>) \subseteq OwnIds
  BY <1>2, Handled, OrderFacts, PostEmpty
<1>4. /\ PeersOrdered' /\ \A id \in PeerIds : id \in WaitingIds' => id \in WaitingIds
      /\ RotationDue' => RotationDue
  BY <1>3, OwnPosts
<1>5. "UNPAIR" \in WaitingIds
      /\ ("PEER_DISCONNECTED" \in WaitingIds => "PEER_DISCONNECTED" \in WaitingIds')
  BY <1>3, WaitingAs, IdsRemain, OrderFacts
<1>6. is_paired /\ is_paired' /\ Leaving
  BY <1>2, <1>5 DEF OrderInv, LinkOrder, OwnerIds, Leaving, is_paired
<1>7. TypeInv' /\ ReadyOrder'
  BY <1>1, <1>2, <1>3, TypeStep, ReadyKept DEF snVars, OrderInv
<1>8. LinkOrder'
  BY <1>2, <1>4, <1>6, PairedStates
  DEF OrderInv, LinkOrder, OwnerIds, PairingCommands, PeerIds, LinkWrites
<1>9. LeaveOrder'
  BY <1>2, <1>4, <1>5, <1>6, PairedStates
  DEF OrderInv, LeaveOrder, PeerIds, LinkWrites
<1>10. JobOrder'
  BY <1>2, <1>4, <1>6, OrderFacts DEF OrderInv, JobOrder, PairingCommands
<1>11. Commanded
  BY <1>4 DEF Commanded, PeerIds, LinkWrites
<1>. QED  BY <1>4, <1>7, <1>8, <1>9, <1>10, <1>11 DEF OrderInv

(* A peer writes while its link is up. *)
LEMMA Written ==
  ASSUME OrderInv, NEW id \in LinkWrites, NEW a \in Nat, Write(id, a), link # "down",
         id \in PairingCommands => WaitingIds \cap PairingCommands = {}
  PROVE  /\ QueueStep(0, <<EvArg(id, 1, a)>>) /\ <<EvArg(id, 1, a)>> \in Seq(KeyEvent)
         /\ PeersOrdered' /\ WaitingIds' \subseteq WaitingIds \cup {id}
         /\ RotationDue' => RotationDue
         /\ "PEER_DISCONNECTED" \notin WaitingIds /\ state # "DISABLED"
         /\ UNCHANGED <<keyVars, envVars, stored, job, on_air, eval>>
<1>1. id \in PeerIds /\ <<EvArg(id, 1, a)>> \in Seq(KeyEvent)
  BY PeerEvent DEF PeerIds
<1>2. PostOn(workq, <<EvArg(id, 1, a)>>) /\ UNCHANGED <<batch, keyVars, envVars, stored, job, on_air, eval>>
  BY DEF Write, Post
<1>3. QueueStep(0, <<EvArg(id, 1, a)>>)
  BY <1>1, <1>2, Posting, OrderFacts DEF QueuesTyped
<1>4. "PEER_DISCONNECTED" \notin WaitingIds
  BY DEF OrderInv, LinkOrder
<1>5. PeersOrdered' /\ WaitingIds' \subseteq WaitingIds \cup {id}
  BY <1>1, <1>3, <1>4, PeerPosts
<1>6. RotationDue' => RotationDue
  BY <1>3 DEF QueueStep, RotationDue
<1>. QED  BY <1>1, <1>2, <1>3, <1>4, <1>5, <1>6, PairedStates

LEMMA RestWrites ==
  ASSUME OrderInv, NEW id, NEW a, Write(id, a), UNCHANGED snVars
  PROVE  RestOK' /\ is_paired' = is_paired /\ ReadyOrder'
<1>1. UNCHANGED <<keyVars, envVars, stored, job, on_air, eval>>
  BY Zenon DEF Write
<1>2. RestOK
  BY OrderFacts
<1>3. RestOK'
  BY <1>1, <1>2 DEF RestOK, States, snVars, nfcVars, keyVars, envVars
<1>4. is_paired' = is_paired /\ ReadyOrder'
  BY <1>1, ReadyKept DEF envVars, is_paired, snVars, OrderInv
<1>. QED  BY <1>3, <1>4

LEMMA OrderOwnerWrites ==
  ASSUME OrderInv, owner_cp_write \/ owner_query, UNCHANGED snVars
  PROVE  OrderInv' /\ Commanded
<1>1. /\ state = "CONNECTED" /\ link # "down"
      /\ ~Pending("PEER_SECURITY_CHANGED", 1) /\ ~Pending("OWNER_CONNECTED", 1)
      /\ \E id \in {"UNPAIR", "LATCH_SEPARATED_KEY", "CONFIGURE_SEPARATED_STATE",
                    "GET_SERIAL_NUMBER"}, a \in Nat : Write(id, a)
  <2>1. CASE owner_cp_write
    <3>1. PICK id \in OwnerCommands :
            \E e \in IF id = "CONFIGURE_SEPARATED_STATE" THEN 0..MaxIndex ELSE {0} : Write(id, e)
      BY <2>1, Zenon DEF owner_cp_write
    <3>2. PICK e \in IF id = "CONFIGURE_SEPARATED_STATE" THEN 0..MaxIndex ELSE {0} : Write(id, e)
      BY <3>1
    <3>3. OwnerCommands \subseteq {"UNPAIR", "LATCH_SEPARATED_KEY", "CONFIGURE_SEPARATED_STATE"}
          /\ MaxIndex \in Nat
      BY KeysAssumption, Zenon
    <3>4. id \in {"UNPAIR", "LATCH_SEPARATED_KEY", "CONFIGURE_SEPARATED_STATE"} /\ e \in Nat
      BY <3>3
    <3>. QED  BY <2>1, <3>2, <3>4 DEF owner_cp_write
  <2>2. CASE owner_query
    BY <2>2 DEF owner_query
  <2>. QED  BY <2>1, <2>2
<1>2. PICK id \in {"UNPAIR", "LATCH_SEPARATED_KEY", "CONFIGURE_SEPARATED_STATE",
                   "GET_SERIAL_NUMBER"}, a \in Nat : Write(id, a)
  BY <1>1
<1>3. id \in LinkWrites /\ id \notin PairingCommands
  BY <1>2 DEF LinkWrites, PairingCommands
<1>4. /\ QueueStep(0, <<EvArg(id, 1, a)>>) /\ <<EvArg(id, 1, a)>> \in Seq(KeyEvent)
      /\ PeersOrdered' /\ WaitingIds' \subseteq WaitingIds \cup {id}
      /\ RotationDue' => RotationDue
      /\ "PEER_DISCONNECTED" \notin WaitingIds /\ state # "DISABLED"
      /\ UNCHANGED <<keyVars, envVars, stored, job, on_air, eval>>
  BY <1>1, <1>2, <1>3, Written
<1>5. /\ "PEER_SECURITY_CHANGED" \notin WaitingIds /\ "OWNER_CONNECTED" \notin WaitingIds
      /\ is_paired
  BY <1>1, PendingIs, OrderFacts DEF PeerIds, LinkWrites, is_paired
<1>6. TypeInv' /\ is_paired' = is_paired /\ ReadyOrder'
  BY <1>2, <1>4, RestWrites, TypeStep
<1>7. LinkOrder'
  BY <1>2, <1>3, <1>4, <1>5, <1>6
  DEF envVars, OrderInv, LinkOrder, OwnerIds, PairingCommands, PeerIds, LinkWrites
<1>8. LeaveOrder'
  BY <1>1, <1>2, <1>4, <1>5, <1>6 DEF envVars, OrderInv, LeaveOrder, Leaving
<1>9. JobOrder'
  BY <1>3, <1>4, <1>5, <1>6 DEF envVars, OrderInv, JobOrder
<1>10. Commanded
  BY <1>3, <1>4 DEF Commanded, PairingCommands
<1>. QED  BY <1>4, <1>6, <1>7, <1>8, <1>9, <1>10 DEF OrderInv

LEMMA OrderPairingWrites ==
  ASSUME OrderInv, pairing_cp_write, UNCHANGED snVars
  PROVE  OrderInv' /\ Commanded
<1>1. /\ state = "UNPAIRED" /\ job.then # "finalized"
      /\ ~Pending("FINALIZE_PAIRING", 1) /\ ~Pending("PAIRING_COMPLETE", 1)
      /\ \/ link = "up" /\ Write("FINALIZE_PAIRING", 0)
         \/ link = "finalized" /\ Write("PAIRING_COMPLETE", 0)
  BY Zenon DEF pairing_cp_write
<1>2. PICK id \in PairingCommands : /\ Write(id, 0)
                                    /\ link # "down"
                                    /\ id = "FINALIZE_PAIRING" => link = "up"
                                    /\ id = "PAIRING_COMPLETE" => link = "finalized"
  BY <1>1 DEF PairingCommands
<1>3. id \in LinkWrites /\ id \in {"FINALIZE_PAIRING", "PAIRING_COMPLETE"}
  BY <1>2 DEF LinkWrites, PairingCommands
<1>4. WaitingIds \cap PairingCommands = {}
  BY <1>1, PendingIs, OrderFacts DEF PeerIds, LinkWrites, PairingCommands
<1>5. /\ QueueStep(0, <<EvArg(id, 1, 0)>>) /\ <<EvArg(id, 1, 0)>> \in Seq(KeyEvent)
      /\ PeersOrdered' /\ WaitingIds' \subseteq WaitingIds \cup {id}
      /\ RotationDue' => RotationDue
      /\ "PEER_DISCONNECTED" \notin WaitingIds /\ state # "DISABLED"
      /\ UNCHANGED <<keyVars, envVars, stored, job, on_air, eval>>
  BY <1>2, <1>3, <1>4, Written
<1>6. TypeInv' /\ is_paired' = is_paired /\ ReadyOrder' /\ ~is_paired
  BY <1>1, <1>2, <1>5, RestWrites, TypeStep DEF is_paired
<1>7. LinkOrder'
  BY <1>1, <1>2, <1>3, <1>5, <1>6
  DEF envVars, OrderInv, LinkOrder, OwnerIds, PairingCommands, PeerIds, LinkWrites
<1>8. LeaveOrder'
  BY <1>1, <1>3, <1>5, <1>6 DEF envVars, OrderInv, LeaveOrder, Leaving
<1>9. JobOrder'
  BY <1>1, <1>3, <1>5, <1>6 DEF envVars, OrderInv, JobOrder, keyVars
<1>10. Commanded
  BY <1>1, <1>2, <1>5 DEF Commanded
<1>. QED  BY <1>5, <1>6, <1>7, <1>8, <1>9, <1>10 DEF OrderInv

LEMMA OrderFinalize ==
  ASSUME OrderInv, finalize_pairing_cmd_handle, UNCHANGED snVars
  PROVE  OrderInv' /\ Commanded /\ state = "UNPAIRED"
<1>1. RestOK'
  BY OrderFacts, RestStarts
<1>2. /\ Idle /\ Handling("FINALIZE_PAIRING") /\ job'.then = "finalized"
      /\ UNCHANGED <<workq, events, keyVars, state, unpair_pending, link, eval>>
  BY DEF finalize_pairing_cmd_handle, Start
<1>3. /\ QueueStep(1, <<>>) /\ 1 \in 1..Len(Backlog) /\ Backlog[1].id = "FINALIZE_PAIRING"
      /\ <<>> \in Seq(KeyEvent) /\ IdsOf(<<>>) \subseteq OwnIds /\ IdsOf(<<>>) = {}
  BY <1>2, Handled, OrderFacts, PostEmpty
<1>4. /\ PeersOrdered' /\ \A id \in PeerIds : id \in WaitingIds' => id \in WaitingIds
      /\ RotationDue' => RotationDue
  BY <1>3, OwnPosts
<1>5. "FINALIZE_PAIRING" \in WaitingIds /\ WaitingIds' \cap PairingCommands = {}
  BY <1>3, OrderTaken, OrderFacts DEF PairingCommands
<1>6. state = "UNPAIRED" /\ ~is_paired /\ ~is_paired' /\ ~unpair_pending
  BY <1>2, <1>5, OrderFacts DEF OrderInv, LinkOrder, LeaveOrder, PairingCommands, is_paired
<1>7. TypeInv' /\ ReadyOrder'
  BY <1>1, <1>2, <1>3, TypeStep, ReadyKept DEF snVars, OrderInv
<1>8. LinkOrder'
  BY <1>2, <1>4, <1>5, <1>6
  DEF OrderInv, LinkOrder, OwnerIds, PairingCommands, PeerIds, LinkWrites
<1>9. LeaveOrder'
  BY <1>2, <1>4, <1>6 DEF OrderInv, LeaveOrder, JobOrder
<1>10. JobOrder'
  BY <1>2, <1>4, <1>5, <1>6 DEF OrderInv, JobOrder, keyVars
<1>11. Commanded
  BY <1>4 DEF Commanded, PeerIds, LinkWrites
<1>. QED  BY <1>4, <1>6, <1>7, <1>8, <1>9, <1>10, <1>11 DEF OrderInv

LEMMA OrderFinalizingEnds ==
  ASSUME OrderInv, finalizing_ends, UNCHANGED snVars
  PROVE  OrderInv' /\ Commanded
<1>1. RestOK'
  BY OrderFacts, RestJobs
<1>2. /\ job.then = "finalized" /\ job'.then = "none"
      /\ link' = IF link = "up" THEN "finalized" ELSE link
      /\ UNCHANGED <<queueVars, keyVars, state, unpair_pending, eval>>
  BY NoJobType DEF finalizing_ends, Ending
<1>3. /\ QueueStep(0, <<>>) /\ <<>> \in Seq(KeyEvent) /\ IdsOf(<<>>) \subseteq OwnIds
  BY <1>2, Kept, OrderFacts, PostEmpty
<1>4. /\ PeersOrdered' /\ \A id \in PeerIds : id \in WaitingIds' => id \in WaitingIds
      /\ RotationDue' => RotationDue
  BY <1>3, OwnPosts
<1>5. state = "UNPAIRED" /\ ~is_paired /\ ~is_paired' /\ ~unpair_pending
      /\ WaitingIds \cap PairingCommands = {}
  BY <1>2 DEF OrderInv, JobOrder, LeaveOrder, is_paired
<1>6. TypeInv' /\ ReadyOrder'
  BY <1>1, <1>2, <1>3, TypeStep, ReadyKept DEF snVars, OrderInv
<1>7. LinkOrder'
  BY <1>2, <1>4, <1>5
  DEF OrderInv, LinkOrder, OwnerIds, PairingCommands, PeerIds, LinkWrites
<1>8. LeaveOrder'
  BY <1>2, <1>4, <1>5 DEF OrderInv, LeaveOrder, JobOrder
<1>9. JobOrder'
  BY <1>2, <1>4, <1>5 DEF OrderInv, JobOrder, keyVars
<1>10. Commanded
  BY <1>4 DEF Commanded, PeerIds, LinkWrites
<1>. QED  BY <1>4, <1>6, <1>7, <1>8, <1>9, <1>10 DEF OrderInv

LEMMA OrderComplete ==
  ASSUME OrderInv, pairing_complete_cmd_handle, UNCHANGED snVars
  PROVE  OrderInv' /\ Commanded /\ state = "UNPAIRED"
<1>1. RestOK'
  BY OrderFacts, RestStarts
<1>. DEFINE evs == <<Ev("STATE_CHANGED", NULL)>>
<1>2. /\ Idle /\ Handling("PAIRING_COMPLETE") /\ job'.then = "started" /\ state' = "CONNECTED"
      /\ Post(evs) /\ UNCHANGED <<unpair_pending, link>>
  BY DEF pairing_complete_cmd_handle, Start
<1>3. evs \in Seq(KeyEvent) /\ IdsOf(evs) \subseteq OwnIds
  BY StateEvent
<1>. HIDE DEF evs
<1>4. QueueStep(1, evs) /\ 1 \in 1..Len(Backlog) /\ Backlog[1].id = "PAIRING_COMPLETE"
  BY <1>2, <1>3, Handled, OrderFacts
<1>5. /\ PeersOrdered' /\ \A id \in PeerIds : id \in WaitingIds' => id \in WaitingIds
      /\ RotationDue' => RotationDue
  BY <1>3, <1>4, OwnPosts
<1>6. "PAIRING_COMPLETE" \in WaitingIds /\ WaitingIds' \cap PairingCommands = {}
  <2>1. IdsOf(evs) \cap PairingCommands = {}
    BY <1>3, IdsSplit
  <2>. QED  BY <1>3, <1>4, <2>1, OrderTaken, OrderFacts DEF PairingCommands
<1>7. state = "UNPAIRED" /\ ~is_paired /\ is_paired' /\ ~unpair_pending
  BY <1>2, <1>6, OrderFacts DEF OrderInv, LinkOrder, LeaveOrder, PairingCommands, is_paired
<1>8. \A id \in OwnerIds : id \notin WaitingIds'
  BY <1>5, <1>7, IdsSplit DEF OrderInv, LinkOrder
<1>9. TypeInv' /\ ReadyOrder'
  BY <1>1, <1>2, <1>3, <1>4, <1>7, TypeStep, ReadyKept DEF snVars, OrderInv
<1>10. LinkOrder'
  BY <1>2, <1>5, <1>6, <1>7, <1>8
  DEF OrderInv, LinkOrder, PairingCommands, PeerIds, LinkWrites
<1>11. LeaveOrder'
  BY <1>2, <1>5, <1>7, <1>8 DEF LeaveOrder, Leaving, OwnerIds
<1>12. JobOrder'
  BY <1>2, <1>7 DEF JobOrder
<1>13. Commanded
  BY <1>5 DEF Commanded, PeerIds, LinkWrites
<1>. QED  BY <1>5, <1>7, <1>9, <1>10, <1>11, <1>12, <1>13 DEF OrderInv

LEMMA OrderTimeout ==
  ASSUME OrderInv, InTime, key_rotation_timeout_handle, UNCHANGED snVars
  PROVE  OrderInv' /\ Commanded
<1>1. RestOK'
  BY OrderFacts, RestJobs
<1>2. /\ key_timer /\ ~stop_expected /\ workq' = Submitted(workq, "keys")
      /\ UNCHANGED <<batch, events, keyVars, envVars, stored, job, on_air, eval>>
  BY DEF key_rotation_timeout_handle, InTime
<1>3. "keys" \in SerialWorkItems
  BY DEF SerialWorkItems, WorkItems
<1>4. QueuesTyped' /\ Backlog' = Backlog /\ WaitingIds' = WaitingIds
  BY <1>2, <1>3, Queueing, OrderFacts DEF Backlog, WaitingIds
<1>5. is_paired
  BY <1>2 DEF OrderInv, JobOrder
<1>6. "PEER_DISCONNECTED" \in WaitingIds => ~Leaving
  BY <1>2, PendingIs, OrderFacts DEF stop_expected, Leaving, PeerIds, LinkWrites
<1>7. PeersOrdered'
  BY <1>4, OrderFacts DEF PeersOrdered
<1>8. is_paired' = is_paired
  BY <1>2 DEF is_paired, envVars
<1>9. TypeInv' /\ ReadyOrder'
  BY <1>1, <1>2, <1>4, ReadyKept DEF TypeInv, snVars, envVars, OrderInv
<1>10. LinkOrder'
  BY <1>2, <1>4, <1>8 DEF OrderInv, LinkOrder, envVars
<1>11. LeaveOrder'
  BY <1>2, <1>4, <1>6, <1>8 DEF OrderInv, LeaveOrder, Leaving, envVars
<1>12. JobOrder'
  BY <1>2, <1>4, <1>5, <1>8 DEF OrderInv, JobOrder, envVars
<1>13. Commanded
  BY <1>4 DEF Commanded
<1>. QED  BY <1>7, <1>9, <1>10, <1>11, <1>12, <1>13 DEF OrderInv

LEMMA EmptyBacklog ==
  ASSUME batch = <<>>, events = <<>>
  PROVE  Backlog = <<>> /\ WaitingIds = {} /\ PeersOrdered
<1>1. Backlog = <<>> /\ Len(Backlog) = 0
  BY DEF Backlog
<1>. QED  BY <1>1 DEF WaitingIds, PeersOrdered

LEMMA OrderEnabled ==
  ASSUME OrderInv, fmna_enable
  PROVE  OrderInv' /\ Commanded
<1>1. RestOK'
  BY OrderFacts, RestPower
<1>. DEFINE evs == <<Ev("STATE_CHANGED", NULL)>>
            paired == fmna_storage_pairing_data_check
<1>2. /\ Idle /\ ~ready /\ link = "down" /\ ready' = TRUE
      /\ state' = IF paired THEN "SEPARATED" ELSE "UNPAIRED"
      /\ paired \/ UNCHANGED keyVars
      /\ PostOn(workq, evs) /\ UNCHANGED <<batch, unpair_pending, link, job, eval>>
  BY Zenon DEF fmna_enable, Post
<1>3. evs \in Seq(KeyEvent) /\ IdsOf(evs) \subseteq OwnIds
  BY StateEvent
<1>. HIDE DEF evs, paired
<1>4. QueueStep(0, evs)
  BY <1>2, <1>3, Posting, OrderFacts DEF QueuesTyped
<1>5. /\ PeersOrdered' /\ \A id \in PeerIds : id \in WaitingIds' => id \in WaitingIds
      /\ RotationDue' => RotationDue
  BY <1>3, <1>4, OwnPosts
<1>6. state = "DISABLED" /\ ~is_paired /\ WaitingIds \cap PeerIds = {} /\ ~unpair_pending
  BY <1>2 DEF OrderInv, ReadyOrder, LinkOrder, is_paired
<1>7. \A id \in PeerIds : id \notin WaitingIds'
  BY <1>5, <1>6
<1>8. state' # "DISABLED" /\ (is_paired' <=> state' = "SEPARATED")
  BY <1>2 DEF is_paired
<1>9. TypeInv'
  BY <1>1, <1>3, <1>4, TypeStep
<1>10. ReadyOrder'
  BY <1>2, <1>8, Zenon DEF ReadyOrder
<1>11. LinkOrder'
  BY <1>2, <1>7, <1>8 DEF LinkOrder, OwnerIds, PairingCommands, PeerIds, LinkWrites
<1>12. LeaveOrder'
  BY <1>2, <1>6, <1>7, <1>8 DEF LeaveOrder, Leaving, PeerIds, LinkWrites
<1>13. JobOrder'
  <2>1. job'.then = "none"
    BY <1>2, OrderFacts
  <2>2. ~is_paired' => UNCHANGED keyVars
    BY <1>2, <1>8
  <2>. QED  BY <1>2, <1>5, <1>6, <2>1, <2>2 DEF OrderInv, JobOrder, keyVars
<1>14. Commanded
  BY <1>5 DEF Commanded, PeerIds, LinkWrites
<1>. QED  BY <1>5, <1>9, <1>10, <1>11, <1>12, <1>13, <1>14 DEF OrderInv

LEMMA OrderDisabled ==
  ASSUME OrderInv, InTime, fmna_disable
  PROVE  OrderInv' /\ Commanded
<1>1. RestOK'
  BY OrderFacts, RestPower
<1>. DEFINE evs == <<Ev("STATE_CHANGED", NULL)>>
            q   == Cancelled(workq, "sn")
<1>2. /\ batch = <<>> /\ events = <<>> /\ Idle /\ ready /\ ~Queued(workq, "keys")
      /\ ready' = FALSE /\ state' = "DISABLED" /\ unpair_pending' = FALSE /\ link' = "down"
      /\ PostOn(q, evs) /\ UNCHANGED <<batch, job>>
  BY Zenon DEF fmna_disable, Between, InTime
<1>3. IF state = "UNPAIRED" THEN UNCHANGED <<keyVars, eval>> ELSE fmna_keys_service_stop
  BY Zenon DEF fmna_disable
<1>4. evs \in Seq(KeyEvent) /\ IdsOf(evs) \subseteq OwnIds
  BY StateEvent
<1>5. q \in Seq(SerialWorkItems) /\ (Queued(q, "keys") => Queued(workq, "keys"))
  BY CancelledIn, OrderFacts DEF QueuesTyped
<1>. HIDE DEF evs, q
<1>6. QueueStep(0, evs)
  BY <1>2, <1>4, <1>5, Posting, OrderFacts
<1>7. /\ PeersOrdered' /\ \A id \in PeerIds : id \in WaitingIds' => id \in WaitingIds
      /\ RotationDue' => RotationDue
  BY <1>4, <1>6, OwnPosts
<1>8. /\ \A id \in PeerIds : id \notin WaitingIds'
      /\ ~RotationDue'
  BY <1>2, <1>7, EmptyBacklog DEF RotationDue
<1>9. state # "DISABLED" /\ ~is_paired'
  BY <1>2 DEF OrderInv, ReadyOrder, is_paired
<1>10. TypeInv'
  BY <1>1, <1>4, <1>6, TypeStep
<1>11. ReadyOrder'
  BY <1>2, Zenon DEF ReadyOrder
<1>12. LinkOrder'
  BY <1>2, <1>8, IdsSplit DEF LinkOrder
<1>13. LeaveOrder'
  BY <1>2, <1>8, <1>9 DEF LeaveOrder
<1>14. JobOrder'
  <2>1. job'.then = "none"
    BY <1>2, OrderFacts
  <2>2. ~key_timer' /\ cnt' = 0 /\ scnt' = 0 /\ delta' = 0 /\ eval' = 0 /\ latched' = None
        /\ ~use_secondary_pk'
    <3>1. CASE state = "UNPAIRED"
      BY <1>3, <3>1 DEF OrderInv, JobOrder, is_paired, keyVars
    <3>2. CASE state # "UNPAIRED"
      BY <1>3, <3>2 DEF fmna_keys_service_stop
    <3>. QED  BY <3>1, <3>2
  <2>. QED  BY <1>8, <2>1, <2>2 DEF JobOrder
<1>15. Commanded
  BY <1>7 DEF Commanded, PeerIds, LinkWrites
<1>. QED  BY <1>7, <1>10, <1>11, <1>12, <1>13, <1>14, <1>15 DEF OrderInv

LEMMA OrderErased ==
  ASSUME OrderInv, fmna_factory_reset \/ factory_reset_ends
  PROVE  OrderInv' /\ Commanded
<1>1. RestOK'
  BY OrderFacts, RestPower
<1>2. /\ UNCHANGED <<queueVars, keyVars, envVars, stored, on_air, eval, snVars>>
      /\ job.then \in {"none", "erased"} /\ job'.then \in {"none", "erased"}
      /\ state = "DISABLED"
  <2>1. CASE fmna_factory_reset
    BY <2>1, OrderFacts DEF fmna_factory_reset, Start, OrderInv, ReadyOrder
  <2>2. CASE factory_reset_ends
    <3>1. job.then = "erased" /\ job'.then = "none"
      BY <2>2, NoJobType DEF factory_reset_ends, Ending
    <3>. QED  BY <2>2, <3>1 DEF factory_reset_ends, OrderInv, JobOrder
  <2>. QED  BY <2>1, <2>2
<1>3. QueueStep(0, <<>>) /\ <<>> \in Seq(KeyEvent) /\ Backlog' = Backlog
      /\ WaitingIds' = WaitingIds /\ RotationDue' = RotationDue
  BY <1>2, Kept, OrderFacts, PostEmpty DEF queueVars, Backlog, WaitingIds, RotationDue
<1>4. PeersOrdered'
  BY <1>3, OrderFacts DEF PeersOrdered
<1>5. is_paired' = is_paired
  BY <1>2 DEF is_paired, envVars
<1>6. TypeInv' /\ ReadyOrder'
  BY <1>1, <1>2, <1>3, TypeStep, ReadyKept DEF snVars, envVars, OrderInv
<1>7. LinkOrder'
  BY <1>2, <1>3, <1>5 DEF OrderInv, LinkOrder, envVars
<1>8. LeaveOrder'
  BY <1>2, <1>3, <1>5 DEF OrderInv, LeaveOrder, Leaving, envVars
<1>9. JobOrder'
  BY <1>2, <1>3, <1>5 DEF OrderInv, JobOrder, envVars, keyVars
<1>10. Commanded
  BY <1>3 DEF Commanded
<1>. QED  BY <1>4, <1>6, <1>7, <1>8, <1>9, <1>10 DEF OrderInv

LEMMA NothingOrdered ==
  ASSUME TypeInv, ~ready, workq = <<>>, batch = <<>>, events = <<>>,
         state = "DISABLED", ~unpair_pending, link = "down", job = NoJob,
         ~key_timer, cnt = 0, scnt = 0, delta = 0, eval = 0, latched = None, ~use_secondary_pk
  PROVE  OrderInv
<1>1. WaitingIds = {} /\ PeersOrdered
  BY EmptyBacklog
<1>2. ~RotationDue
  BY DEF RotationDue, Queued
<1>3. ReadyOrder
  BY Zenon DEF ReadyOrder
<1>4. LinkOrder /\ LeaveOrder /\ JobOrder
  BY <1>1, <1>2, NoJobType DEF LinkOrder, LeaveOrder, Leaving, JobOrder, is_paired
<1>. QED  BY <1>1, <1>3, <1>4 DEF OrderInv

LEMMA OrderPower ==
  ASSUME OrderInv, power_loss
  PROVE  OrderInv' /\ Commanded
<1>1. RestOK'
  BY OrderFacts, RestPower
<1>2. /\ workq' = <<>> /\ batch' = <<>> /\ events' = <<>>
      /\ state' = "DISABLED" /\ unpair_pending' = FALSE /\ link' = "down"
      /\ job' = NoJob /\ ready' = FALSE /\ fmna_keys_service_stop
  BY Zenon DEF power_loss
<1>3. QueuesTyped'
  BY <1>2 DEF QueuesTyped
<1>4. TypeInv'
  BY <1>1, <1>3 DEF TypeInv
<1>5. WaitingIds' = {} /\ PeersOrdered'
  <2>1. Backlog' = <<>> /\ Len(Backlog') = 0
    BY <1>2 DEF Backlog
  <2>. QED  BY <2>1 DEF WaitingIds, PeersOrdered
<1>6. ~RotationDue'
  BY <1>2 DEF RotationDue, Queued
<1>7. ReadyOrder'
  BY <1>2, Zenon DEF ReadyOrder
<1>8. LinkOrder'
  BY <1>2, <1>5 DEF LinkOrder
<1>9. LeaveOrder'
  BY <1>2, <1>5 DEF LeaveOrder, is_paired
<1>10. JobOrder'
  BY <1>2, <1>5, <1>6, NoJobType DEF JobOrder, is_paired, fmna_keys_service_stop
<1>11. Commanded
  BY <1>5 DEF Commanded
<1>. QED  BY <1>4, <1>5, <1>7, <1>8, <1>9, <1>10, <1>11 DEF OrderInv

LEMMA OrderInitially == Init => OrderInv
<1>. SUFFICES ASSUME Init PROVE OrderInv
  OBVIOUS
<1>1. /\ workq = <<>> /\ batch = <<>> /\ events = <<>>
      /\ state = "DISABLED" /\ unpair_pending = FALSE /\ link = "down"
      /\ stored = [i \in ItemIds |-> None] /\ job = NoJob
      /\ psk = None /\ ssk = None /\ latched = None
      /\ cnt = 0 /\ scnt = 0 /\ delta = 0
      /\ use_secondary_pk = FALSE /\ key_timer = FALSE
      /\ on_air = NoPayload
      /\ pairing = 0 /\ torn = 0 /\ eval = 0
      /\ ready = FALSE
      /\ paired_state = FALSE /\ increment = 0 /\ retry = FALSE /\ tag = Tag("off", 0)
      /\ is_lookup_enabled = FALSE
      /\ served = 0
  BY Zenon DEF Init, KeysInit
<1>2. /\ None \in Keys /\ NoPayload \in Payloads /\ Tag("off", 0) \in Tags
  BY NoneType DEF NoPayload, Payloads, Tag, Tags
<1>3. RestOK
  BY <1>1, <1>2, NoJobType DEF RestOK, States
<1>4. QueuesTyped
  BY <1>1 DEF QueuesTyped
<1>. QED  BY <1>1, <1>3, <1>4, NothingOrdered DEF TypeInv

LEMMA OrderKeysNext ==
  ASSUME OrderInv, InTime, KeysNext, UNCHANGED snVars
  PROVE  OrderInv' /\ Commanded
BY OrderHandlers, OrderJobs, OrderArrives, OrderLeaves, OrderSecured, OrderOwner, OrderNearby,
   OrderDisconnected, OrderUnpaired, OrderUnpairingEnds, OrderUnpair, OrderOwnerWrites,
   OrderPairingWrites, OrderFinalize, OrderFinalizingEnds, OrderComplete, OrderTimeout
DEF KeysNext

LEMMA OrderNext ==
  ASSUME OrderInv, InTime, Next
  PROVE  OrderInv' /\ Commanded
<1>1. CASE KeysNext /\ UNCHANGED snVars
  BY <1>1, OrderKeysNext
<1>2. CASE owner_query
  <2>1. UNCHANGED snVars
    BY <1>2 DEF owner_query
  <2>. QED  BY <1>2, <2>1, OrderOwnerWrites
<1>. QED
  BY <1>1, <1>2, OrderReads, OrderQueries, OrderEnabled, OrderDisabled, OrderErased, OrderPower
  DEF Next

LEMMA OrderStutters ==
  ASSUME OrderInv, UNCHANGED vars
  PROVE  OrderInv' /\ Commanded
<1>1. RestOK /\ QueuesTyped
  BY OrderFacts
<1>2. UNCHANGED <<queueVars, keyVars, envVars, stored, job, on_air, eval, snVars>>
  BY DEF vars
<1>3. RestOK'
  BY <1>1, <1>2 DEF RestOK, keyVars, envVars, snVars, nfcVars
<1>4. QueueStep(0, <<>>) /\ <<>> \in Seq(KeyEvent) /\ IdsOf(<<>>) \subseteq OwnIds
  BY <1>1, <1>2, Kept, PostEmpty
<1>. QED
  BY <1>2, <1>3, <1>4, OwnPosting DEF keyVars, envVars, snVars

(* The states, the events that wait, the link and the job of the storage    *)
(* fit together: what OrderInv says holds always when no rotation is late.  *)
THEOREM OrderIsInvariant ==
  ASSUME InTime
  PROVE  Spec => []OrderInv
<1>1. Init => OrderInv
  BY OrderInitially
<1>2. OrderInv /\ [Next]_vars => OrderInv'
  BY OrderNext, OrderStutters
<1>. QED  BY <1>1, <1>2, PTL DEF Spec

-----------------------------------------------------------------------------
(* The evaluation index.                                                    *)

EvalInv ==
  /\ eval # 0 => delta = eval % P
  /\ EvaluationKept

LEMMA EvalKept ==
  ASSUME EvalInv, UNCHANGED <<cnt, delta, latched, use_secondary_pk, eval>>
  PROVE  EvalInv'
<1>1. UNCHANGED (EvaluationKept)
  BY DEF EvaluationKept
<1>. QED  BY <1>1 DEF EvalInv

LEMMA EvalNone ==
  ASSUME eval' = 0
  PROVE  EvalInv'
BY DEF EvalInv, EvaluationKept

LEMMA EvalRotation ==
  ASSUME OrderInv, EvalInv, key_rotation_work_handle
  PROVE  EvalInv'
<1>1. cnt \in Nat /\ eval \in Nat /\ delta \in Nat /\ use_secondary_pk \in BOOLEAN
  BY OrderFacts DEF RestOK
<1>. DEFINE ended == (cnt + 1) % P = delta
<1>2. /\ cnt' = cnt + 1 /\ delta' = delta /\ eval' = eval
      /\ latched' = IF ended THEN None ELSE latched
      /\ use_secondary_pk' = (ended \/ use_secondary_pk)
  BY Zenon DEF key_rotation_work_handle
<1>. SUFFICES ASSUME eval # 0
              PROVE  /\ delta' = eval' % P
                     /\ cnt' >= eval' => use_secondary_pk' /\ latched' = None
  BY <1>2, Zenon DEF EvalInv, EvaluationKept
<1>3. delta = eval % P /\ (cnt >= eval => use_secondary_pk /\ latched = None)
  BY DEF EvalInv, EvaluationKept
<1>4. ASSUME cnt' >= eval' PROVE ended \/ (use_secondary_pk /\ latched = None)
  <2>1. CASE cnt >= eval
    BY <1>3, <2>1
  <2>2. CASE ~(cnt >= eval)
    <3>1. cnt + 1 = eval
      BY <1>1, <1>2, <1>4, <2>2
    <3>. QED  BY <1>3, <3>1
  <2>. QED  BY <2>1, <2>2
<1>. QED  BY <1>2, <1>3, <1>4, Zenon

(* The lower bound keeps an index that is put off by a period ahead. *)
LEMMA EvalConfigured ==
  ASSUME OrderInv, EvalInv, separated_state_configure_request_handle
  PROVE  EvalInv'
<1>. DEFINE e == Head(batch).arg
<1>1. UNCHANGED <<cnt, use_secondary_pk>>
  BY Zenon DEF separated_state_configure_request_handle
<1>2. CASE UNCHANGED <<latched, delta, eval>>
  BY <1>1, <1>2, EvalKept
<1>3. CASE /\ e \in eval_lower_bound..(cnt + P)
           /\ delta' = rotation_offset(e) /\ eval' = eval_index(e)
  <2>1. cnt \in Nat
    BY OrderFacts DEF RestOK
  <2>2. e \in Int /\ e >= eval_lower_bound /\ e >= 0
    BY <1>3, <2>1, KeyConstants DEF eval_lower_bound
  <2>3. e > cnt - P
    BY <2>1, <2>2, KeyConstants DEF eval_lower_bound
  <2>. HIDE DEF e
  <2>4. eval_index(e) > cnt
    BY <2>1, <2>2, <2>3, KeyConstants DEF eval_index
  <2>5. eval_index(e) \in Int
    BY <2>2, KeyConstants DEF eval_index
  <2>6. ~(cnt' >= eval') /\ delta' = eval' % P
    BY <1>1, <1>3, <2>1, <2>4, <2>5 DEF rotation_offset
  <2>. QED  BY <2>6, Zenon DEF EvalInv, EvaluationKept
<1>. QED  BY <1>2, <1>3, Zenon DEF separated_state_configure_request_handle

LEMMA EvalKeysNext ==
  ASSUME OrderInv, EvalInv, KeysNext
  PROVE  EvalInv'
<1>1. CASE \/ event_work \/ item_store \/ key_rotation_timeout_handle \/ rotation_ends
           \/ public_keys_changed \/ peer_arrives \/ peer_leaves \/ peer_connected
           \/ owner_connected \/ owner_disconnected \/ unpairing_ends
           \/ nearby_separated_work_handle \/ owner_cp_write \/ pairing_cp_write
           \/ unpair_request_handle \/ finalize_pairing_cmd_handle \/ finalizing_ends
           \/ keys_service_timer_start
  <2>1. UNCHANGED <<cnt, delta, latched, use_secondary_pk, eval>>
    <3>1. CASE \/ event_work \/ item_store \/ key_rotation_timeout_handle \/ rotation_ends
               \/ public_keys_changed \/ peer_arrives \/ peer_leaves \/ peer_connected
               \/ owner_connected
      BY <3>1, Zenon
      DEF event_work, item_store, key_rotation_timeout_handle, rotation_ends,
          public_keys_changed, peer_arrives, peer_leaves, peer_connected, owner_connected,
          keyVars
    <3>2. CASE \/ owner_disconnected \/ unpairing_ends
               \/ nearby_separated_work_handle \/ owner_cp_write \/ pairing_cp_write
               \/ unpair_request_handle \/ finalize_pairing_cmd_handle \/ finalizing_ends
               \/ keys_service_timer_start
      BY <3>2, Zenon
      DEF owner_disconnected, unpairing_ends, nearby_separated_work_handle, owner_cp_write,
          pairing_cp_write, Write, unpair_request_handle, finalize_pairing_cmd_handle,
          finalizing_ends, keys_service_timer_start, keyVars
    <3>. QED  BY <1>1, <3>1, <3>2
  <2>. QED  BY <2>1, EvalKept
<1>2. CASE key_rotation_work_handle
  BY <1>2, EvalRotation
<1>3. CASE separated_state_configure_request_handle
  BY <1>3, EvalConfigured
<1>4. CASE peer_security_changed
  <2>1. CASE is_paired
    BY <1>4, <2>1, EvalNone DEF peer_security_changed
  <2>2. CASE ~is_paired
    <3>1. UNCHANGED <<cnt, delta, latched, use_secondary_pk, eval>>
      BY <1>4, <2>2, Zenon DEF peer_security_changed
    <3>. QED  BY <3>1, EvalKept
  <2>. QED  BY <2>1, <2>2
<1>5. CASE owner_unpaired \/ separated_key_latch_request_handle
  BY <1>5, EvalNone
  DEF owner_unpaired, fmna_keys_service_stop, separated_key_latch_request_handle
<1>6. CASE pairing_complete_cmd_handle
  <2>1. "PAIRING_COMPLETE" \in WaitingIds
    BY <1>6, Handled, PostEmpty, WaitingAs, StateEvent, OrderFacts
    DEF pairing_complete_cmd_handle
  <2>2. eval = 0
    BY <2>1 DEF OrderInv, LinkOrder, JobOrder, PairingCommands, is_paired
  <2>. QED  BY <1>6, <2>2, EvalNone DEF pairing_complete_cmd_handle
<1>. QED  BY <1>1, <1>2, <1>3, <1>4, <1>5, <1>6 DEF KeysNext

LEMMA EvalNext ==
  ASSUME OrderInv, EvalInv, Next
  PROVE  EvalInv'
<1>1. CASE KeysNext
  BY <1>1, EvalKeysNext
<1>2. CASE \/ owner_query \/ nfc_callback \/ sn_counter_update_work_handle
           \/ sn_counter_update \/ sn_counter_updated \/ sn_counter_update_again
           \/ serial_number_cnt_changed \/ state_changed \/ fmna_serial_number_lookup_enable
           \/ sn_lookup_timeout_work_handle \/ serial_number_request_handle
           \/ serial_number_request_ends \/ fmna_factory_reset \/ factory_reset_ends
  <2>1. UNCHANGED <<cnt, delta, latched, use_secondary_pk, eval>>
    BY <1>2, Zenon
    DEF owner_query, Write, nfc_callback, sn_counter_update_work_handle, sn_counter_update,
        sn_counter_updated, sn_counter_update_again, serial_number_cnt_changed, state_changed,
        fmna_serial_number_lookup_enable, sn_lookup_timeout_work_handle,
        serial_number_request_handle, serial_number_request_ends, fmna_factory_reset,
        factory_reset_ends, keyVars
  <2>. QED  BY <2>1, EvalKept
<1>3. CASE fmna_enable
  <2>1. ~is_paired /\ eval' = eval
    BY <1>3 DEF fmna_enable, OrderInv, ReadyOrder, is_paired
  <2>2. eval' = 0
    BY <2>1 DEF OrderInv, JobOrder
  <2>. QED  BY <2>2, EvalNone
<1>4. CASE fmna_disable
  <2>1. CASE state = "UNPAIRED"
    <3>1. UNCHANGED <<cnt, delta, latched, use_secondary_pk, eval>>
      BY <1>4, <2>1, Zenon DEF fmna_disable, keyVars
    <3>. QED  BY <3>1, EvalKept
  <2>2. CASE state # "UNPAIRED"
    BY <1>4, <2>2, EvalNone DEF fmna_disable, fmna_keys_service_stop
  <2>. QED  BY <2>1, <2>2
<1>5. CASE power_loss
  BY <1>5, EvalNone DEF power_loss, fmna_keys_service_stop
<1>. QED  BY <1>1, <1>2, <1>3, <1>4, <1>5 DEF Next

(* The separated key becomes the secondary key with the evaluation index:   *)
(* what the owner asked for survives rotations, latches and restarts, when  *)
(* no rotation is late.                                                     *)
THEOREM EvaluationIsKept ==
  ASSUME InTime
  PROVE  Spec => []EvaluationKept
<1>1. Init => EvalInv
  BY DEF Init, KeysInit, EvalInv, EvaluationKept
<1>2. OrderInv /\ EvalInv /\ [Next]_vars => EvalInv'
  <2>. SUFFICES ASSUME OrderInv, EvalInv, [Next]_vars PROVE EvalInv'
    OBVIOUS
  <2>1. CASE UNCHANGED vars
    BY <2>1, EvalKept DEF vars, keyVars
  <2>. QED  BY <2>1, EvalNext
<1>3. EvalInv => EvaluationKept
  BY DEF EvalInv
<1>. QED  BY <1>1, <1>2, <1>3, OrderIsInvariant, PTL DEF Spec

-----------------------------------------------------------------------------
(* What the flash holds once the job has written everything.                *)

Last(ws, k) == \A m \in 1..Len(ws) : ws[m][1] = ws[k][1] => m <= k
Ends(ws, st, i, v) ==
  \/ \E k \in 1..Len(ws) : ws[k][1] = i /\ ws[k][2] = v /\ Last(ws, k)
  \/ (\A k \in 1..Len(ws) : ws[k][1] # i) /\ st[i] = v

Outcome == {e \in ItemIds \X Keys : Ends(job.writes, stored, e[1], e[2])}

LEMMA OutcomeIs ==
  ASSUME NEW i \in ItemIds, NEW v \in Keys
  PROVE  <<i, v>> \in Outcome <=> Ends(job.writes, stored, i, v)
BY DEF Outcome

LEMMA OutcomeAfter ==
  ASSUME NEW i \in ItemIds, NEW v \in Keys
  PROVE  <<i, v>> \in Outcome' <=> Ends(job'.writes, stored', i, v)
BY DEF Outcome

LEMMA NothingWritten ==
  ASSUME NEW st, NEW i, NEW v
  PROVE  Ends(<<>>, st, i, v) <=> st[i] = v
BY DEF Ends

LEMMA StoredIs ==
  ASSUME job.writes = <<>>, NEW i \in ItemIds, NEW v \in Keys
  PROVE  <<i, v>> \in Outcome <=> stored[i] = v
BY OutcomeIs, NothingWritten

LEMMA OutcomeSame ==
  ASSUME job'.writes = job.writes, stored' = stored
  PROVE  Outcome' = Outcome
BY DEF Outcome

(* One more item is stored: the job still ends alike. *)
LEMMA OutcomeStep ==
  ASSUME RestOK, item_store
  PROVE  Outcome \subseteq Outcome'
<1>. DEFINE ws == job.writes
            t  == Tail(ws)
            h  == Head(ws)
<1>1. /\ ws # <<>> /\ ws \in Writes /\ job'.writes = t
      /\ h[1] \in ItemIds /\ h[2] \in Keys /\ stored \in [ItemIds -> Keys]
  BY ItemStored DEF RestOK
<1>2. stored' = [stored EXCEPT ![h[1]] = h[2]]
  BY DEF item_store
<1>3. /\ Len(ws) \in Nat \ {0} /\ Len(t) = Len(ws) - 1 /\ h = ws[1]
      /\ \A k \in 1..Len(t) : t[k] = ws[k + 1]
  BY <1>1, HeadTailProperties, EmptySeq, LenProperties DEF Writes
<1>. HIDE DEF ws, t, h
<1>. SUFFICES ASSUME NEW i \in ItemIds, NEW v \in Keys, Ends(ws, stored, i, v)
              PROVE  Ends(t, stored', i, v)
  <2>1. job.writes = ws /\ job'.writes = t
    BY <1>1 DEF ws
  <2>. QED  BY <2>1 DEF Outcome
<1>4. CASE (\A k \in 1..Len(ws) : ws[k][1] # i) /\ stored[i] = v
  <2>1. \A k \in 1..Len(t) : k + 1 \in 1..Len(ws)
    BY <1>3
  <2>2. \A k \in 1..Len(t) : t[k][1] # i
    BY <1>3, <1>4, <2>1
  <2>3. h[1] # i
    BY <1>3, <1>4
  <2>. QED  BY <1>1, <1>2, <1>4, <2>2, <2>3 DEF Ends
<1>5. CASE \E k \in 1..Len(ws) : ws[k][1] = i /\ ws[k][2] = v /\ Last(ws, k)
  <2>1. PICK k \in 1..Len(ws) : ws[k][1] = i /\ ws[k][2] = v /\ Last(ws, k)
    BY <1>5
  <2>2. CASE k = 1
    <3>1. ASSUME NEW m \in 1..Len(t), t[m][1] = i PROVE FALSE
      <4>1. m + 1 \in 1..Len(ws) /\ ws[m + 1][1] = i /\ ~(m + 1 <= 1)
        BY <1>3, <3>1
      <4>. QED  BY <2>1, <2>2, <4>1 DEF Last
    <3>2. stored'[i] = v
      BY <1>1, <1>2, <1>3, <2>1, <2>2
    <3>. QED  BY <3>1, <3>2 DEF Ends
  <2>3. CASE k # 1
    <3>1. k - 1 \in 1..Len(t) /\ t[k - 1] = ws[k]
      BY <1>3, <2>1, <2>3
    <3>2. Last(t, k - 1)
      <4>. SUFFICES ASSUME NEW m \in 1..Len(t), t[m][1] = t[k - 1][1] PROVE m <= k - 1
        BY DEF Last
      <4>1. m + 1 \in 1..Len(ws) /\ ws[m + 1][1] = ws[k][1]
        BY <1>3, <3>1
      <4>2. m + 1 <= k
        BY <2>1, <4>1 DEF Last
      <4>. QED  BY <2>1, <4>2
    <3>. QED  BY <2>1, <3>1, <3>2 DEF Ends
  <2>. QED  BY <2>2, <2>3
<1>. QED  BY <1>4, <1>5 DEF Ends

(* The writes of each job. *)
LEMMA AfterOne ==
  ASSUME NEW st, NEW j \in ItemIds, NEW k
  PROVE  /\ Ends(<<<<j, k>>>>, st, j, k)
         /\ \A i \in ItemIds \ {j} : \A v : Ends(<<<<j, k>>>>, st, i, v) <=> st[i] = v
<1>. DEFINE ws == <<<<j, k>>>>
<1>1. Len(ws) = 1 /\ ws[1][1] = j /\ ws[1][2] = k
  OBVIOUS
<1>. HIDE DEF ws
<1>2. \A m \in 1..Len(ws) : m = 1
  BY <1>1
<1>. QED  BY <1>1, <1>2 DEF Ends, Last, ws

LEMMA AfterDelete ==
  ASSUME NEW st
  PROVE  \A i \in ItemIds : Ends(fmna_storage_pairing_data_delete, st, i, None)
<1>. DEFINE ws == fmna_storage_pairing_data_delete
<1>1. Len(ws) = 8 /\ \A k \in 1..8 : ws[k][1] = Items[k] /\ ws[k][2] = None
  BY ItemsProperties DEF fmna_storage_pairing_data_delete
<1>2. ASSUME NEW k \in 1..8, NEW m \in 1..8, Items[k] = Items[m] PROVE k = m
  <2>1. 1..8 = {1, 2, 3, 4, 5, 6, 7, 8}
    OBVIOUS
  <2>. QED  BY <1>2, <2>1 DEF Items
<1>. HIDE DEF ws
<1>. SUFFICES ASSUME NEW i \in ItemIds PROVE Ends(ws, st, i, None)
  BY DEF ws
<1>3. PICK k \in 1..8 : Items[k] = i
  BY ItemsProperties DEF ItemIds
<1>4. Last(ws, k)
  BY <1>1, <1>2 DEF Last
<1>. QED  BY <1>1, <1>3, <1>4 DEF Ends

LEMMA AfterUpdate ==
  ASSUME NEW st, NEW p, NEW s, NEW index
  PROVE  LET ws == rotating_key_storage_update(p, s, index)
         IN /\ Ends(ws, st, "PRIMARY_SK", p) /\ Ends(ws, st, "SECONDARY_SK", s)
            /\ Ends(ws, st, "PRIMARY_KEY_INDEX", Key(p.gen, index))
            /\ Ends(ws, st, "CURRENT_KEYS_INDEX_DIFF", Key(p.gen, 0))
            /\ \A v : /\ Ends(ws, st, "MASTER_PUBLIC_KEY", v) <=> st["MASTER_PUBLIC_KEY"] = v
                      /\ \A i \in {"SERVER_SHARED_SECRET", "SN_QUERY_COUNTER", "ICLOUD_ID"} :
                           Ends(ws, st, i, v) <=> st[i] = v
<1>. DEFINE ws == rotating_key_storage_update(p, s, index)
            a  == Key(p.gen, index)
            d  == Key(p.gen, 0)
<1>1. /\ Len(ws) = 4
      /\ ws[1][1] = "PRIMARY_SK" /\ ws[1][2] = p /\ ws[2][1] = "SECONDARY_SK" /\ ws[2][2] = s
      /\ ws[3][1] = "PRIMARY_KEY_INDEX" /\ ws[3][2] = a
      /\ ws[4][1] = "CURRENT_KEYS_INDEX_DIFF" /\ ws[4][2] = d
  BY DEF rotating_key_storage_update
<1>. HIDE DEF ws, a, d
<1>2. \A m \in 1..Len(ws) : m \in {1, 2, 3, 4}
  BY <1>1
<1>3. 1 \in 1..Len(ws) /\ 2 \in 1..Len(ws) /\ 3 \in 1..Len(ws) /\ 4 \in 1..Len(ws)
  BY <1>1
<1>4. Last(ws, 1) /\ Last(ws, 2) /\ Last(ws, 3) /\ Last(ws, 4)
  BY <1>1, <1>2 DEF Last
<1>5. /\ Ends(ws, st, "PRIMARY_SK", p) /\ Ends(ws, st, "SECONDARY_SK", s)
      /\ Ends(ws, st, "PRIMARY_KEY_INDEX", a) /\ Ends(ws, st, "CURRENT_KEYS_INDEX_DIFF", d)
  BY <1>1, <1>3, <1>4 DEF Ends
<1>6. ASSUME NEW i \in {"MASTER_PUBLIC_KEY", "SERVER_SHARED_SECRET", "SN_QUERY_COUNTER",
                        "ICLOUD_ID"}, NEW v
      PROVE  Ends(ws, st, i, v) <=> st[i] = v
  <2>1. \A k \in 1..Len(ws) : ws[k][1] # i
    BY <1>1, <1>2
  <2>. QED  BY <2>1 DEF Ends
<1>. QED  BY <1>5, <1>6 DEF ws, a, d

LEMMA AfterStart ==
  ASSUME NEW st, NEW g \in Nat, cnt \in Nat
  PROVE  LET ws == service_start_writes(g)
         IN /\ Ends(ws, st, "MASTER_PUBLIC_KEY", Key(g, 0))
            /\ Ends(ws, st, "PRIMARY_SK", Key(g, 0)) /\ Ends(ws, st, "SECONDARY_SK", Key(g, 1))
            /\ Ends(ws, st, "PRIMARY_KEY_INDEX", Key(g, cnt))
            /\ Ends(ws, st, "CURRENT_KEYS_INDEX_DIFF", Key(g, cnt + 1))
            /\ \A v : \A i \in {"SERVER_SHARED_SECRET", "SN_QUERY_COUNTER", "ICLOUD_ID"} :
                 Ends(ws, st, i, v) <=> st[i] = v
<1>. DEFINE ws == service_start_writes(g)
            k0 == Key(g, 0)
            k1 == Key(g, 1)
            a  == Key(g, cnt)
            d  == Key(g, cnt + 1)
            m1 == <<<<"MASTER_PUBLIC_KEY", k0>>>>
            u4 == <<<<"PRIMARY_SK", k0>>, <<"SECONDARY_SK", k0>>,
                    <<"PRIMARY_KEY_INDEX", a>>, <<"CURRENT_KEYS_INDEX_DIFF", k0>>>>
            l2 == <<<<"CURRENT_KEYS_INDEX_DIFF", d>>, <<"SECONDARY_SK", k1>>>>
<1>1. ws = m1 \o u4 \o l2
  BY KeyType DEF service_start_writes, rotating_key_storage_update
<1>. HIDE DEF ws, k0, k1, a, d
<1>2. /\ Len(ws) = 7
      /\ ws[1][1] = "MASTER_PUBLIC_KEY" /\ ws[1][2] = k0
      /\ ws[2][1] = "PRIMARY_SK" /\ ws[2][2] = k0 /\ ws[3][1] = "SECONDARY_SK" /\ ws[3][2] = k0
      /\ ws[4][1] = "PRIMARY_KEY_INDEX" /\ ws[4][2] = a
      /\ ws[5][1] = "CURRENT_KEYS_INDEX_DIFF" /\ ws[5][2] = k0
      /\ ws[6][1] = "CURRENT_KEYS_INDEX_DIFF" /\ ws[6][2] = d
      /\ ws[7][1] = "SECONDARY_SK" /\ ws[7][2] = k1
  BY <1>1
<1>3. \A m \in 1..Len(ws) : m \in {1, 2, 3, 4, 5, 6, 7}
  BY <1>2
<1>4. /\ 1 \in 1..Len(ws) /\ 2 \in 1..Len(ws) /\ 4 \in 1..Len(ws) /\ 6 \in 1..Len(ws)
      /\ 7 \in 1..Len(ws)
  BY <1>2
<1>5. Last(ws, 1) /\ Last(ws, 2) /\ Last(ws, 4) /\ Last(ws, 6) /\ Last(ws, 7)
  BY <1>2, <1>3 DEF Last
<1>6. /\ Ends(ws, st, "MASTER_PUBLIC_KEY", k0) /\ Ends(ws, st, "PRIMARY_SK", k0)
      /\ Ends(ws, st, "SECONDARY_SK", k1) /\ Ends(ws, st, "PRIMARY_KEY_INDEX", a)
      /\ Ends(ws, st, "CURRENT_KEYS_INDEX_DIFF", d)
  BY <1>2, <1>4, <1>5 DEF Ends
<1>7. ASSUME NEW i \in {"SERVER_SHARED_SECRET", "SN_QUERY_COUNTER", "ICLOUD_ID"}, NEW v
      PROVE  Ends(ws, st, i, v) <=> st[i] = v
  <2>1. \A k \in 1..Len(ws) : ws[k][1] # i
    BY <1>2, <1>3
  <2>. QED  BY <2>1 DEF Ends
<1>. QED  BY <1>6, <1>7 DEF ws, k0, k1, a, d

LEMMA AfterFinalize ==
  ASSUME NEW st, NEW k
  PROVE  LET ws == <<<<"SERVER_SHARED_SECRET", k>>, <<"SN_QUERY_COUNTER", k>>,
                     <<"ICLOUD_ID", k>>>>
         IN /\ \A i \in {"SERVER_SHARED_SECRET", "SN_QUERY_COUNTER", "ICLOUD_ID"} :
                 Ends(ws, st, i, k)
            /\ \A v : \A i \in {"MASTER_PUBLIC_KEY", "PRIMARY_SK", "SECONDARY_SK",
                                "PRIMARY_KEY_INDEX", "CURRENT_KEYS_INDEX_DIFF"} :
                 Ends(ws, st, i, v) <=> st[i] = v
<1>. DEFINE ws == <<<<"SERVER_SHARED_SECRET", k>>, <<"SN_QUERY_COUNTER", k>>,
                     <<"ICLOUD_ID", k>>>>
<1>1. /\ Len(ws) = 3
      /\ ws[1][1] = "SERVER_SHARED_SECRET" /\ ws[1][2] = k
      /\ ws[2][1] = "SN_QUERY_COUNTER" /\ ws[2][2] = k
      /\ ws[3][1] = "ICLOUD_ID" /\ ws[3][2] = k
  OBVIOUS
<1>. HIDE DEF ws
<1>2. \A m \in 1..Len(ws) : m \in {1, 2, 3}
  BY <1>1
<1>3. 1 \in 1..Len(ws) /\ 2 \in 1..Len(ws) /\ 3 \in 1..Len(ws)
  BY <1>1
<1>4. Last(ws, 1) /\ Last(ws, 2) /\ Last(ws, 3)
  BY <1>1, <1>2 DEF Last
<1>5. \A i \in {"SERVER_SHARED_SECRET", "SN_QUERY_COUNTER", "ICLOUD_ID"} : Ends(ws, st, i, k)
  BY <1>1, <1>3, <1>4 DEF Ends
<1>6. ASSUME NEW i \in {"MASTER_PUBLIC_KEY", "PRIMARY_SK", "SECONDARY_SK",
                        "PRIMARY_KEY_INDEX", "CURRENT_KEYS_INDEX_DIFF"}, NEW v
      PROVE  Ends(ws, st, i, v) <=> st[i] = v
  <2>1. \A m \in 1..Len(ws) : ws[m][1] # i
    BY <1>1, <1>2
  <2>. QED  BY <2>1 DEF Ends
<1>. QED  BY <1>5, <1>6 DEF ws

(* The periods of the keys. *)
LEMMA Division ==
  ASSUME NEW n \in Nat, NEW d \in Nat, d >= 1
  PROVE  /\ n \div d \in Nat /\ n % d \in Nat /\ n % d < d
         /\ n = (d * (n \div d)) + (n % d)
OBVIOUS

LEMMA DivStep ==
  ASSUME NEW n \in Nat, NEW d \in Nat, d >= 1
  PROVE  (n + 1) \div d \in {n \div d, (n \div d) + 1}
OBVIOUS

LEMMA ModStep ==
  ASSUME NEW n \in Nat, NEW d \in Nat, d >= 1, (n + 1) % d # 0
  PROVE  (n + 1) % d = (n % d) + 1
<1>. DEFINE q == n \div d
            r == n % d
            s == (n + 1) \div d
            t == (n + 1) % d
<1>1. /\ q \in Nat /\ r \in Nat /\ r < d /\ n = (d * q) + r
      /\ s \in Nat /\ t \in Nat /\ t < d /\ n + 1 = (d * s) + t
  BY Division
<1>2. s \in {q, q + 1} /\ t # 0
  BY DivStep
<1>. HIDE DEF q, r, s, t
<1>3. CASE s = q
  BY <1>1, <1>3 DEF r, t
<1>4. CASE s = q + 1
  <2>1. d * s = (d * q) + d /\ d * q \in Nat
    BY <1>1, <1>4
  <2>2. t = (r + 1) - d
    BY <1>1, <2>1
  <2>. QED  BY <1>1, <1>2, <2>2
<1>. QED  BY <1>2, <1>3, <1>4 DEF r, t

LEMMA DivBelow ==
  ASSUME NEW n \in Nat, NEW d \in Nat, n < d
  PROVE  n \div d = 0 /\ n % d = n
OBVIOUS

-----------------------------------------------------------------------------
(* The keys in memory and those in the flash.                               *)

KeyItems == {"MASTER_PUBLIC_KEY", "PRIMARY_SK", "SECONDARY_SK", "PRIMARY_KEY_INDEX",
             "CURRENT_KEYS_INDEX_DIFF"}
OtherItems == {"SERVER_SHARED_SECRET", "SN_QUERY_COUNTER", "ICLOUD_ID"}

KeyOutcome == {e \in Outcome : e[1] \in KeyItems}

(* The pairings of which all items but the keys will be there. *)
Complete ==
  {g \in Nat \ {0} : \A i \in OtherItems : \E n \in Nat : <<i, Key(g, n)>> \in Outcome}

(* The flash leads to the keys p and s. *)
LeadsTo(O, C, p, s) ==
  LET at == p.n - (p.n % U) IN
  /\ p.gen \in C
  /\ s = Key(p.gen, (p.n \div P) + 1)
  /\ <<"MASTER_PUBLIC_KEY", Key(p.gen, 0)>> \in O
  /\ <<"PRIMARY_SK", Key(p.gen, at)>> \in O
  /\ <<"PRIMARY_KEY_INDEX", Key(p.gen, at)>> \in O
  /\ <<"SECONDARY_SK", Key(p.gen, (at \div P) + 1)>> \in O
  /\ <<"CURRENT_KEYS_INDEX_DIFF", Key(p.gen, p.n % U)>> \in O

KeysKept == LeadsTo(KeyOutcome, Complete, psk, ssk)
Erased   == \A i \in KeyItems : <<i, None>> \in KeyOutcome

Finalized ==
  /\ state = "UNPAIRED"
  /\ link = "finalized" \/ job.then = "finalized" \/ "PAIRING_COMPLETE" \in WaitingIds

KeysOK ==
  /\ psk.gen <= pairing
  /\ Finalized => psk.gen < pairing /\ pairing \in Complete
  /\ is_paired => KeysKept /\ psk.n = cnt /\ ssk.n = scnt
  /\ state = "UNPAIRED" => Erased
  /\ state = "DISABLED" => KeysKept \/ Erased

KeysInv ==
  /\ torn = 0 => KeysOK
  /\ job.then = "counting" => job.writes = <<>>

NoKeyReturns == torn' = 0 /\ psk'.gen = psk.gen => psk'.n >= psk.n /\ ssk'.n >= ssk.n

LEMMA OutcomeGrows ==
  ASSUME Outcome \subseteq Outcome'
  PROVE  KeyOutcome \subseteq KeyOutcome' /\ Complete \subseteq Complete'
BY DEF KeyOutcome, Complete

LEMMA LeadsGrows ==
  ASSUME NEW O, NEW C, NEW O2, NEW C2, O \subseteq O2, C \subseteq C2, NEW p, NEW s,
         LeadsTo(O, C, p, s)
  PROVE  LeadsTo(O2, C2, p, s)
BY DEF LeadsTo

LEMMA SameKeys ==
  ASSUME RestOK, UNCHANGED <<psk, ssk>>
  PROVE  NoKeyReturns
<1>1. psk.n \in Nat /\ ssk.n \in Nat
  BY DEF RestOK, Keys
<1>. QED  BY <1>1 DEF NoKeyReturns

(* A step that leaves the keys alone, and the flash on its way. *)
LEMMA KeysStep ==
  ASSUME OrderInv, Commanded, KeysInv, UNCHANGED <<psk, ssk, pairing>>,
         KeyOutcome \subseteq KeyOutcome', Complete \subseteq Complete',
         torn' = 0 => torn = 0,
         is_paired' => is_paired /\ UNCHANGED <<cnt, scnt>>,
         state' = "UNPAIRED" => state = "UNPAIRED",
         link' = "finalized" => link = "finalized" \/ job.then = "finalized",
         job'.then = "finalized" => job.then = "finalized",
         job'.then = "counting" => job'.writes = <<>>
  PROVE  KeysInv' /\ NoKeyReturns
<1>1. NoKeyReturns
  BY SameKeys, OrderFacts
<1>2. Finalized' => Finalized
  BY DEF Finalized, Commanded
<1>3. KeysKept => KeysKept'
  BY LeadsGrows DEF KeysKept
<1>4. Erased => Erased'
  BY DEF Erased
<1>5. ASSUME torn = 0 PROVE KeysOK'
  <2>1. KeysOK
    BY <1>5 DEF KeysInv
  <2>2. is_paired \/ state = "UNPAIRED" \/ state = "DISABLED"
    BY DEF is_paired
  <2>. QED  BY <1>2, <1>3, <1>4, <2>1, <2>2 DEF KeysOK
<1>. QED  BY <1>1, <1>5 DEF KeysInv

(* A step that leaves the keys alone, and the flash on its way to what the  *)
(* job will leave in it.                                                    *)
QuietStep ==
  /\ UNCHANGED <<psk, ssk, pairing, torn>>
  /\ is_paired' => is_paired /\ UNCHANGED <<cnt, scnt>>
  /\ state' = "UNPAIRED" => state = "UNPAIRED"
  /\ link' = "finalized" => link = "finalized" \/ job.then = "finalized"
  /\ job'.then = "finalized" => job.then = "finalized"
  /\ job'.then = "counting" => job'.writes = <<>>
  /\ (UNCHANGED stored /\ job'.writes = job.writes) \/ item_store

LEMMA QuietOutcome ==
  ASSUME RestOK, QuietStep
  PROVE  Outcome \subseteq Outcome'
<1>1. CASE UNCHANGED stored /\ job'.writes = job.writes
  BY <1>1, OutcomeSame
<1>2. CASE item_store
  BY <1>2, OutcomeStep
<1>. QED  BY <1>1, <1>2 DEF QuietStep

LEMMA KeysQuiet ==
  ASSUME OrderInv, Commanded, KeysInv, QuietStep
  PROVE  KeysInv' /\ NoKeyReturns
<1>1. KeyOutcome \subseteq KeyOutcome' /\ Complete \subseteq Complete'
  BY QuietOutcome, OutcomeGrows, OrderFacts
<1>. QED  BY <1>1, KeysStep DEF QuietStep

(* Nothing is written. *)
LEMMA QuietFlash ==
  ASSUME KeysInv, UNCHANGED <<psk, ssk, pairing, torn, stored>>,
         job'.writes = job.writes,
         is_paired' => is_paired /\ UNCHANGED <<cnt, scnt>>,
         state' = "UNPAIRED" => state = "UNPAIRED",
         link' = "finalized" => link = "finalized" \/ job.then = "finalized",
         job'.then = "finalized" => job.then = "finalized",
         job'.then = "counting" => job.then = "counting" \/ job.writes = <<>>
  PROVE  QuietStep
BY DEF QuietStep, KeysInv

LEMMA EndedJob ==
  ASSUME NEW then, Ending(then)
  PROVE  job'.writes = job.writes /\ job'.then = "none" /\ job.then = then
BY NoJobType DEF Ending

LEMMA QuietNext ==
  ASSUME OrderInv, Commanded, KeysInv,
         \/ event_work \/ key_rotation_timeout_handle \/ rotation_ends \/ public_keys_changed
         \/ peer_arrives \/ peer_leaves \/ peer_connected \/ peer_security_changed
         \/ unpairing_ends \/ owner_cp_write \/ pairing_cp_write \/ unpair_request_handle
         \/ separated_key_latch_request_handle \/ separated_state_configure_request_handle
         \/ finalizing_ends \/ keys_service_timer_start
  PROVE  QuietStep
<1>1. CASE \/ event_work \/ key_rotation_timeout_handle \/ public_keys_changed
           \/ peer_connected \/ owner_cp_write \/ pairing_cp_write
  <2>1. UNCHANGED <<keyVars, envVars, stored, job>>
    BY <1>1, Zenon
    DEF event_work, key_rotation_timeout_handle, public_keys_changed, peer_connected,
        owner_cp_write, pairing_cp_write, Write
  <2>. QED  BY <2>1, QuietFlash DEF keyVars, envVars, is_paired
<1>2. CASE \/ peer_arrives \/ peer_leaves \/ peer_security_changed \/ unpair_request_handle
           \/ separated_key_latch_request_handle \/ separated_state_configure_request_handle
  <2>1. /\ UNCHANGED <<psk, ssk, cnt, scnt, state, pairing, torn, stored, job>>
        /\ link' \in {link, "up", "down"}
    <3>1. CASE peer_arrives \/ peer_leaves
      BY <3>1 DEF peer_arrives, peer_leaves, keyVars
    <3>2. CASE peer_security_changed
      BY <3>2, Zenon DEF peer_security_changed, envVars
    <3>3. CASE unpair_request_handle
      BY <3>3 DEF unpair_request_handle, keyVars
    <3>4. CASE separated_key_latch_request_handle
      BY <3>4 DEF separated_key_latch_request_handle, envVars
    <3>5. CASE separated_state_configure_request_handle
      BY <3>5, Zenon DEF separated_state_configure_request_handle, envVars
    <3>. QED  BY <1>2, <3>1, <3>2, <3>3, <3>4, <3>5
  <2>. QED  BY <2>1, QuietFlash DEF is_paired
<1>3. CASE rotation_ends \/ unpairing_ends \/ finalizing_ends \/ keys_service_timer_start
  <2>1. /\ \E x \in Jobs : Ending(x)
        /\ UNCHANGED <<psk, ssk, cnt, scnt, state, pairing, torn, stored>>
        /\ link' = "finalized" => link = "finalized" \/ job.then = "finalized"
    <3>1. {"rotated", "unpaired", "finalized", "started"} \subseteq Jobs
      BY DEF Jobs
    <3>2. CASE rotation_ends
      BY <3>1, <3>2 DEF rotation_ends, keyVars, envVars
    <3>3. CASE unpairing_ends
      BY <3>1, <3>3 DEF unpairing_ends, keyVars
    <3>4. CASE finalizing_ends
      BY <3>1, <3>4 DEF finalizing_ends, keyVars, Ending
    <3>5. CASE keys_service_timer_start
      BY <3>1, <3>5 DEF keys_service_timer_start, envVars
    <3>. QED  BY <1>3, <3>2, <3>3, <3>4, <3>5
  <2>2. job'.writes = job.writes /\ job'.then = "none"
    BY <2>1, EndedJob
  <2>. QED  BY <2>1, <2>2, QuietFlash DEF is_paired
<1>. QED  BY <1>1, <1>2, <1>3

LEMMA QuietOwner ==
  ASSUME OrderInv, Commanded, KeysInv,
         owner_connected \/ owner_disconnected \/ nearby_separated_work_handle
  PROVE  QuietStep
<1>1. UNCHANGED <<psk, ssk, cnt, scnt, link, pairing, torn, stored, job>>
  BY DEF owner_connected, owner_disconnected, nearby_separated_work_handle, keyVars
<1>2. (is_paired' => is_paired) /\ (state' = "UNPAIRED" => state = "UNPAIRED")
  <2>1. CASE owner_connected
    <3>1. "OWNER_CONNECTED" \in WaitingIds
      BY <2>1, Handled, PostEmpty, StateEvent, WaitingAs, OrderFacts DEF owner_connected
    <3>. QED  BY <2>1, <3>1 DEF owner_connected, OrderInv, LinkOrder, OwnerIds
  <2>2. CASE owner_disconnected
    BY <2>2 DEF owner_disconnected, is_paired
  <2>3. CASE nearby_separated_work_handle
    BY <2>3 DEF nearby_separated_work_handle, is_paired
  <2>. QED  BY <2>1, <2>2, <2>3
<1>. QED  BY <1>1, <1>2, QuietFlash

LEMMA QuietStored ==
  ASSUME OrderInv, KeysInv, item_store
  PROVE  QuietStep
<1>1. job'.then = job.then /\ job.writes # <<>> /\ UNCHANGED <<keyVars, envVars>>
  BY ItemStored, OrderFacts DEF RestOK, item_store
<1>2. job.then # "counting"
  BY <1>1 DEF KeysInv
<1>. QED  BY <1>1, <1>2 DEF QuietStep, keyVars, envVars, is_paired

(* The items other than the keys stay what they are. *)
LEMMA OthersKept ==
  ASSUME job.writes = <<>>,
         \A i \in OtherItems : \A v \in Keys : stored[i] = v => Ends(job'.writes, stored', i, v)
  PROVE  Complete \subseteq Complete'
<1>1. OtherItems \subseteq ItemIds
  BY ItemsProperties DEF OtherItems
<1>2. ASSUME NEW i \in OtherItems, NEW v \in Keys, <<i, v>> \in Outcome
      PROVE  <<i, v>> \in Outcome'
  BY <1>1, <1>2, StoredIs, OutcomeAfter
<1>3. \A g \in Nat : \A n \in Nat : Key(g, n) \in Keys
  BY KeyType
<1>. QED  BY <1>2, <1>3 DEF Complete

LEMMA KeyOutcomeIs ==
  ASSUME NEW i \in KeyItems, NEW v \in Keys
  PROVE  /\ i \in ItemIds
         /\ <<i, v>> \in KeyOutcome <=> <<i, v>> \in Outcome
         /\ <<i, v>> \in KeyOutcome' <=> Ends(job'.writes, stored', i, v)
         /\ job.writes = <<>> => (<<i, v>> \in KeyOutcome <=> stored[i] = v)
<1>1. i \in ItemIds
  BY ItemsProperties DEF KeyItems
<1>. QED  BY <1>1, StoredIs, OutcomeAfter DEF KeyOutcome

LEMMA IdleWrites ==
  ASSUME Idle
  PROVE  job.writes = <<>> /\ job.then = "none"
BY NoJobType DEF Idle

LEMMA KeyRoll ==
  ASSUME NEW g \in Nat, NEW n \in Nat
  PROVE  Roll(Key(g, n)) = Key(g, n + 1)
BY DEF Roll, Key

LEMMA KeyEta ==
  ASSUME NEW k \in Keys
  PROVE  k = Key(k.gen, k.n) /\ k.gen \in Nat /\ k.n \in Nat
BY DEF Key, Keys

(* A rotation keeps the keys in memory and those in the flash together. *)
LEMMA RotationKept ==
  ASSUME OrderInv, KeysInv, key_rotation_work_handle, torn = 0
  PROVE  KeysKept' /\ psk'.n = cnt' /\ ssk'.n = scnt' /\ psk'.gen = psk.gen
         /\ Complete \subseteq Complete'
<1>. DEFINE g     == psk.gen
            n     == psk.n
            index == n + 1
            p     == Key(g, index)
            s     == Key(g, (index \div P) + 1)
            ws    == rotation_writes(p, s, index)
<1>1. /\ psk \in Keys /\ ssk \in Keys /\ cnt \in Nat /\ scnt \in Nat
      /\ P \in Nat /\ P >= 1 /\ U \in Nat /\ U >= 1
  BY OrderFacts, KeyConstants DEF RestOK
<1>2. is_paired /\ job.writes = <<>>
  <2>1. Queued(workq, "keys") /\ Idle
    BY Ran, OrderFacts DEF key_rotation_work_handle
  <2>. QED  BY <2>1, IdleWrites DEF OrderInv, JobOrder, RotationDue
<1>3. KeysKept /\ cnt = n /\ scnt = ssk.n
  BY <1>2 DEF KeysInv, KeysOK
<1>4. /\ g \in Nat /\ n \in Nat /\ psk = Key(g, n) /\ ssk = Key(g, (n \div P) + 1)
      /\ n \div P \in Nat /\ index \div P \in Nat /\ n % U \in Nat /\ index % U \in Nat
      /\ (n - (n % U)) \in Nat
  <2>1. g \in Nat /\ n \in Nat /\ psk = Key(g, n)
    BY <1>1, KeyEta
  <2>2. ssk = Key(g, (n \div P) + 1)
    BY <1>3 DEF KeysKept, LeadsTo
  <2>3. /\ n \div P \in Nat /\ index \div P \in Nat /\ n % U \in Nat /\ index % U \in Nat
        /\ n \div U \in Nat /\ n = (U * (n \div U)) + (n % U)
    BY <1>1, <2>1, Division
  <2>4. (n - (n % U)) \in Nat
    <3>1. U * (n \div U) \in Nat
      BY <1>1, <2>3
    <3>. QED  BY <2>1, <2>3, <3>1
  <2>. QED  BY <2>1, <2>2, <2>3, <2>4
<1>5. scnt = (n \div P) + 1
  BY <1>3, <1>4, KeyType
<1>. DEFINE rolled == secondary_key_is_outdated(index)
            second == IF rolled THEN Roll(ssk) ELSE ssk
<1>6. second = s /\ (IF rolled THEN scnt + 1 ELSE scnt) = (index \div P) + 1
  <2>1. index \div P \in {n \div P, (n \div P) + 1}
    BY <1>1, <1>4, DivStep
  <2>2. rolled <=> ((index \div P) + 1) - scnt # 0
    BY DEF secondary_key_is_outdated, SECONDARY_KEY_INDEX_FROM_PRIMARY
  <2>3. CASE index \div P = n \div P
    BY <1>4, <1>5, <2>2, <2>3
  <2>4. CASE index \div P = (n \div P) + 1
    <3>1. Roll(ssk) = s
      BY <1>4, <2>4, KeyRoll
    <3>2. rolled
      BY <1>4, <1>5, <2>2, <2>4
    <3>. QED  BY <1>5, <2>4, <3>1, <3>2
  <2>. QED  BY <2>1, <2>3, <2>4
<1>7. Roll(psk) = p
  BY <1>4, KeyRoll
<1>8. /\ cnt' = index /\ psk' = p /\ ssk' = s /\ scnt' = (index \div P) + 1
      /\ job'.writes = ws /\ stored' = stored
  <2>1. /\ cnt' = cnt + 1 /\ psk' = Roll(psk)
        /\ ssk' = IF secondary_key_is_outdated(cnt + 1) THEN Roll(ssk) ELSE ssk
        /\ scnt' = IF secondary_key_is_outdated(cnt + 1) THEN scnt + 1 ELSE scnt
        /\ Start(rotation_writes(Roll(psk),
                                 IF secondary_key_is_outdated(cnt + 1) THEN Roll(ssk) ELSE ssk,
                                 cnt + 1), "rotated",
                 IF separated_key_changed((cnt + 1) % P = delta) THEN 1 ELSE 0)
        /\ stored' = stored
    BY Zenon DEF key_rotation_work_handle
  <2>2. cnt + 1 = index
    BY <1>3
  <2>3. Start(ws, "rotated", IF separated_key_changed((cnt + 1) % P = delta) THEN 1 ELSE 0)
    BY <1>6, <1>7, <2>1, <2>2, Zenon
  <2>. QED  BY <1>6, <1>7, <2>1, <2>2, <2>3 DEF Start
<1>9. /\ p.gen = g /\ p.n = index /\ s.gen = g /\ s.n = (index \div P) + 1
      /\ p \in Keys /\ s \in Keys
  BY <1>4, KeyType
<1>. DEFINE at  == n - (n % U)
            at2 == index - (index % U)
<1>10. /\ g \in Complete
       /\ stored["MASTER_PUBLIC_KEY"] = Key(g, 0)
       /\ stored["PRIMARY_SK"] = Key(g, at) /\ stored["PRIMARY_KEY_INDEX"] = Key(g, at)
       /\ stored["SECONDARY_SK"] = Key(g, (at \div P) + 1)
  <2>1. Key(g, 0) \in Keys /\ Key(g, at) \in Keys /\ Key(g, (at \div P) + 1) \in Keys
    <3>1. at \div P \in Nat
      BY <1>1, <1>4, Division
    <3>. QED  BY <1>4, <3>1, KeyType
  <2>. QED  BY <1>2, <1>3, <2>1, KeyOutcomeIs DEF KeysKept, LeadsTo, KeyItems
<1>. HIDE DEF g, n, index, p, s, ws, at, at2, rolled, second
<1>11. /\ Complete \subseteq Complete'
       /\ Ends(ws, stored, "MASTER_PUBLIC_KEY", Key(g, 0))
       /\ Ends(ws, stored, "PRIMARY_SK", Key(g, at2))
       /\ Ends(ws, stored, "PRIMARY_KEY_INDEX", Key(g, at2))
       /\ Ends(ws, stored, "SECONDARY_SK", Key(g, (at2 \div P) + 1))
       /\ Ends(ws, stored, "CURRENT_KEYS_INDEX_DIFF", Key(g, index % U))
  <2>0. OtherItems \subseteq ItemIds \ KeyItems /\ KeyItems \subseteq ItemIds
    BY ItemsProperties DEF OtherItems, KeyItems
  <2>1. CASE index % U # 0
    <3>1. ws = <<<<"CURRENT_KEYS_INDEX_DIFF", Key(g, index % U)>>>>
      BY <1>9, <2>1 DEF rotation_writes, ws
    <3>2. at2 = at
      <4>1. index % U = (n % U) + 1
        BY <1>1, <1>4, <2>1, ModStep DEF index
      <4>. QED  BY <1>4, <4>1 DEF at, at2, index
    <3>3. /\ Ends(ws, stored, "CURRENT_KEYS_INDEX_DIFF", Key(g, index % U))
          /\ \A i \in ItemIds \ {"CURRENT_KEYS_INDEX_DIFF"} :
               \A v : Ends(ws, stored, i, v) <=> stored[i] = v
      BY <2>0, <3>1, AfterOne DEF KeyItems
    <3>4. Complete \subseteq Complete'
      BY <1>2, <1>8, <2>0, <3>3, OthersKept DEF KeyItems
    <3>. QED  BY <1>10, <2>0, <3>2, <3>3, <3>4 DEF KeyItems
  <2>2. CASE index % U = 0
    <3>1. ws = rotating_key_storage_update(p, s, index)
      BY <2>2 DEF rotation_writes, ws
    <3>2. at2 = index
      BY <1>4, <2>2 DEF at2, index
    <3>3. /\ Ends(ws, stored, "PRIMARY_SK", p) /\ Ends(ws, stored, "SECONDARY_SK", s)
          /\ Ends(ws, stored, "PRIMARY_KEY_INDEX", Key(g, index))
          /\ Ends(ws, stored, "CURRENT_KEYS_INDEX_DIFF", Key(g, 0))
          /\ \A v : /\ Ends(ws, stored, "MASTER_PUBLIC_KEY", v) <=> stored["MASTER_PUBLIC_KEY"] = v
                    /\ \A i \in {"SERVER_SHARED_SECRET", "SN_QUERY_COUNTER", "ICLOUD_ID"} :
                         Ends(ws, stored, i, v) <=> stored[i] = v
      BY <1>9, <3>1, AfterUpdate
    <3>4. Complete \subseteq Complete'
      BY <1>2, <1>8, <3>3, OthersKept DEF OtherItems
    <3>. QED  BY <1>10, <2>2, <3>2, <3>3, <3>4 DEF p, s
  <2>. QED  BY <1>4, <2>1, <2>2
<1>12. KeysKept'
  <2>1. /\ Key(g, 0) \in Keys /\ Key(g, at2) \in Keys /\ Key(g, (at2 \div P) + 1) \in Keys
        /\ Key(g, index % U) \in Keys
    <3>1. index \in Nat /\ index \div U \in Nat /\ index = (U * (index \div U)) + (index % U)
      BY <1>1, <1>4, Division DEF index
    <3>2. U * (index \div U) \in Nat
      BY <1>1, <3>1
    <3>3. at2 \in Nat
      BY <1>4, <3>1, <3>2 DEF at2
    <3>4. at2 \div P \in Nat
      BY <1>1, <3>3, Division
    <3>. QED  BY <1>4, <3>3, <3>4, KeyType
  <2>2. /\ <<"MASTER_PUBLIC_KEY", Key(g, 0)>> \in KeyOutcome'
        /\ <<"PRIMARY_SK", Key(g, at2)>> \in KeyOutcome'
        /\ <<"PRIMARY_KEY_INDEX", Key(g, at2)>> \in KeyOutcome'
        /\ <<"SECONDARY_SK", Key(g, (at2 \div P) + 1)>> \in KeyOutcome'
        /\ <<"CURRENT_KEYS_INDEX_DIFF", Key(g, index % U)>> \in KeyOutcome'
    BY <1>8, <1>11, <2>1, KeyOutcomeIs DEF KeyItems
  <2>3. g \in Complete'
    BY <1>10, <1>11
  <2>4. LeadsTo(KeyOutcome', Complete', p, s)
    BY <1>9, <2>2, <2>3 DEF LeadsTo, at2, s
  <2>. QED  BY <1>8, <2>4 DEF KeysKept
<1>. QED  BY <1>8, <1>9, <1>11, <1>12 DEF g

LEMMA KeysRotation ==
  ASSUME OrderInv, Commanded, KeysInv, key_rotation_work_handle
  PROVE  KeysInv' /\ NoKeyReturns
<1>1. /\ Idle /\ job'.then = "rotated" /\ UNCHANGED envVars
      /\ Running("keys") /\ PostOn(Tail(workq), <<>>)
  BY Zenon DEF key_rotation_work_handle, Start
<1>2. is_paired /\ is_paired' /\ ~Finalized'
  <2>1. Queued(workq, "keys")
    BY <1>1, Ran, OrderFacts
  <2>2. is_paired
    BY <2>1 DEF OrderInv, JobOrder, RotationDue
  <2>. QED  BY <1>1, <2>2 DEF envVars, is_paired, Finalized
<1>3. psk \in Keys /\ ssk \in Keys
  BY OrderFacts DEF RestOK
<1>4. NoKeyReturns
  <2>1. psk' = Roll(psk) /\ ssk' \in {ssk, Roll(ssk)}
    BY Zenon DEF key_rotation_work_handle
  <2>2. Roll(psk).n = psk.n + 1 /\ Roll(ssk).n = ssk.n + 1 /\ psk.n \in Nat /\ ssk.n \in Nat
    BY <1>3, RollType, KeyEta
  <2>. QED  BY <2>1, <2>2 DEF NoKeyReturns
<1>5. ASSUME torn' = 0 PROVE KeysOK'
  <2>1. torn = 0 /\ pairing' = pairing /\ state' # "UNPAIRED" /\ state' # "DISABLED"
    BY <1>1, <1>2, <1>5 DEF envVars, is_paired
  <2>2. KeysKept' /\ psk'.n = cnt' /\ ssk'.n = scnt' /\ psk'.gen = psk.gen
    BY <2>1, RotationKept
  <2>3. psk'.gen <= pairing'
    BY <2>1, <2>2 DEF KeysInv, KeysOK
  <2>. QED  BY <1>2, <2>1, <2>2, <2>3 DEF KeysOK
<1>. QED  BY <1>1, <1>4, <1>5 DEF KeysInv

LEMMA ErasedBy ==
  ASSUME job'.writes = fmna_storage_pairing_data_delete
  PROVE  Erased'
BY NoneType, KeyOutcomeIs, AfterDelete DEF Erased

LEMMA KeysUnpaired ==
  ASSUME OrderInv, Commanded, KeysInv, owner_unpaired, UNCHANGED snVars
  PROVE  KeysInv' /\ NoKeyReturns
<1>1. /\ Handling("PEER_DISCONNECTED") /\ state' = "UNPAIRED" /\ job'.then = "unpaired"
      /\ job'.writes = fmna_storage_pairing_data_delete
      /\ UNCHANGED <<psk, ssk, workq, events, link, pairing, torn>>
  BY DEF owner_unpaired, fmna_keys_service_stop, Start
<1>2. is_paired /\ state # "UNPAIRED"
  <2>1. is_paired
    BY OrderUnpaired
  <2>. QED  BY <2>1 DEF is_paired
<1>3. ~Finalized'
  <2>1. "PEER_DISCONNECTED" \in WaitingIds
    BY <1>1, Handled, PostEmpty, WaitingAs, OrderFacts
  <2>2. link = "down" /\ "PAIRING_COMPLETE" \notin WaitingIds
    BY <1>2, <2>1 DEF OrderInv, LinkOrder, PairingCommands
  <2>. QED  BY <1>1, <1>2, <2>2 DEF Finalized, Commanded
<1>4. ~is_paired' /\ Erased'
  BY <1>1, ErasedBy DEF is_paired
<1>5. NoKeyReturns
  BY <1>1, SameKeys, OrderFacts
<1>. QED  BY <1>1, <1>3, <1>4, <1>5 DEF KeysInv, KeysOK

LEMMA KeysErased ==
  ASSUME OrderInv, Commanded, KeysInv, fmna_factory_reset
  PROVE  KeysInv' /\ NoKeyReturns
<1>1. /\ state = "DISABLED" /\ state' = state /\ job'.then = "erased"
      /\ job'.writes = fmna_storage_pairing_data_delete
      /\ UNCHANGED <<psk, ssk, pairing, torn>>
  BY DEF fmna_factory_reset, Start, keyVars, envVars, OrderInv, ReadyOrder
<1>2. ~is_paired' /\ Erased' /\ ~Finalized'
  BY <1>1, ErasedBy DEF is_paired, Finalized
<1>3. NoKeyReturns
  BY <1>1, SameKeys, OrderFacts
<1>. QED  BY <1>1, <1>2, <1>3 DEF KeysInv, KeysOK

LEMMA KeysFinalize ==
  ASSUME OrderInv, Commanded, KeysInv, finalize_pairing_cmd_handle, UNCHANGED snVars
  PROVE  KeysInv' /\ NoKeyReturns
<1>. DEFINE g  == pairing + 1
            k  == Key(g, 0)
            ws == <<<<"SERVER_SHARED_SECRET", k>>, <<"SN_QUERY_COUNTER", k>>,
                    <<"ICLOUD_ID", k>>>>
<1>1. /\ Idle /\ pairing' = g /\ job'.then = "finalized" /\ job'.writes = ws
      /\ UNCHANGED <<keyVars, state, torn, stored>>
  BY DEF finalize_pairing_cmd_handle, Start
<1>2. state = "UNPAIRED" /\ ~is_paired'
  <2>1. state = "UNPAIRED"
    BY OrderFinalize
  <2>. QED  BY <1>1, <2>1 DEF is_paired
<1>3. pairing \in Nat /\ psk.gen \in Nat
  BY OrderFacts DEF RestOK, Keys
<1>4. g \in Nat \ {0} /\ k \in Keys
  BY <1>3, KeyType
<1>5. /\ \A i \in OtherItems : Ends(ws, stored, i, k)
      /\ \A v : \A i \in KeyItems : Ends(ws, stored, i, v) <=> stored[i] = v
  BY AfterFinalize DEF OtherItems, KeyItems
<1>. HIDE DEF ws, k
<1>6. g \in Complete'
  <2>1. \A i \in OtherItems : i \in ItemIds
    BY ItemsProperties DEF OtherItems
  <2>2. \A i \in OtherItems : <<i, k>> \in Outcome'
    BY <1>1, <1>4, <1>5, <2>1, OutcomeAfter
  <2>. QED  BY <1>4, <2>2 DEF Complete, k
<1>7. Erased => Erased'
  BY <1>1, <1>5, IdleWrites, KeyOutcomeIs, NoneType DEF Erased
<1>8. ASSUME torn' = 0 PROVE KeysOK'
  <2>1. KeysOK
    BY <1>1, <1>8 DEF KeysInv
  <2>2. psk'.gen < pairing' /\ psk'.gen <= pairing'
    BY <1>1, <1>3, <2>1 DEF KeysOK, keyVars
  <2>. QED  BY <1>1, <1>2, <1>6, <1>7, <2>1, <2>2 DEF KeysOK
<1>9. NoKeyReturns
  BY <1>1, SameKeys, OrderFacts DEF keyVars
<1>. QED  BY <1>1, <1>8, <1>9 DEF KeysInv

LEMMA KeysComplete ==
  ASSUME OrderInv, Commanded, KeysInv, pairing_complete_cmd_handle, UNCHANGED snVars
  PROVE  KeysInv' /\ NoKeyReturns
<1>. DEFINE g  == pairing
            ws == service_start_writes(g)
<1>1. /\ Idle /\ Handling("PAIRING_COMPLETE") /\ state' = "CONNECTED"
      /\ job'.then = "started" /\ job'.writes = ws
      /\ psk' = Key(g, 1) /\ ssk' = Key(g, 1) /\ cnt' = cnt + 1 /\ scnt' = scnt + 1
      /\ UNCHANGED <<pairing, torn, stored>>
  BY DEF pairing_complete_cmd_handle, Start
<1>2. state = "UNPAIRED" /\ cnt = 0 /\ scnt = 0 /\ is_paired'
  <2>1. state = "UNPAIRED"
    BY OrderComplete
  <2>. QED  BY <1>1, <2>1 DEF OrderInv, JobOrder, is_paired
<1>3. Finalized
  <2>1. "PAIRING_COMPLETE" \in WaitingIds
    BY <1>1, Handled, PostEmpty, StateEvent, WaitingAs, OrderFacts
    DEF pairing_complete_cmd_handle
  <2>. QED  BY <1>2, <2>1 DEF Finalized
<1>4. g \in Nat /\ psk.gen \in Nat
  BY OrderFacts DEF RestOK, Keys
<1>5. /\ Key(g, 1) \in Keys /\ Key(g, 1).gen = g /\ Key(g, 1).n = 1 /\ Key(g, 0) \in Keys
      /\ job.writes = <<>>
  BY <1>1, <1>4, KeyType, IdleWrites
<1>6. /\ Ends(ws, stored, "MASTER_PUBLIC_KEY", Key(g, 0))
      /\ Ends(ws, stored, "PRIMARY_SK", Key(g, 0)) /\ Ends(ws, stored, "SECONDARY_SK", Key(g, 1))
      /\ Ends(ws, stored, "PRIMARY_KEY_INDEX", Key(g, 0))
      /\ Ends(ws, stored, "CURRENT_KEYS_INDEX_DIFF", Key(g, 1))
      /\ \A v : \A i \in OtherItems : Ends(ws, stored, i, v) <=> stored[i] = v
  <2>1. cnt \in Nat /\ cnt + 1 = 1
    BY <1>2
  <2>. QED  BY <1>2, <1>4, <2>1, AfterStart DEF OtherItems
<1>. HIDE DEF ws
<1>7. Complete \subseteq Complete'
  BY <1>1, <1>5, <1>6, OthersKept
<1>8. ASSUME torn' = 0 PROVE KeysOK' /\ psk.gen < g
  <2>1. psk.gen < g /\ g \in Complete
    BY <1>1, <1>3, <1>8 DEF KeysInv, KeysOK
  <2>2. 1 % U = 1 /\ 1 \div P = 0 /\ 0 \div P = 0
    BY KeyConstants, DivBelow
  <2>3. /\ <<"MASTER_PUBLIC_KEY", Key(g, 0)>> \in KeyOutcome'
        /\ <<"PRIMARY_SK", Key(g, 0)>> \in KeyOutcome'
        /\ <<"PRIMARY_KEY_INDEX", Key(g, 0)>> \in KeyOutcome'
        /\ <<"SECONDARY_SK", Key(g, 1)>> \in KeyOutcome'
        /\ <<"CURRENT_KEYS_INDEX_DIFF", Key(g, 1)>> \in KeyOutcome'
    BY <1>1, <1>5, <1>6, KeyOutcomeIs DEF KeyItems
  <2>4. LeadsTo(KeyOutcome', Complete', Key(g, 1), Key(g, 1))
    <3>1. 1 - (1 % U) = 0 /\ (0 \div P) + 1 = 1 /\ (1 \div P) + 1 = 1
      BY <2>2
    <3>. QED  BY <1>5, <1>7, <2>1, <2>2, <2>3, <3>1 DEF LeadsTo
  <2>5. KeysKept'
    BY <1>1, <2>4 DEF KeysKept
  <2>6. psk'.gen <= pairing' /\ psk'.n = cnt' /\ ssk'.n = scnt' /\ ~Finalized'
    BY <1>1, <1>2, <1>4, <1>5 DEF Finalized
  <2>. QED  BY <1>1, <1>2, <2>1, <2>5, <2>6 DEF KeysOK
<1>9. NoKeyReturns
  BY <1>1, <1>4, <1>5, <1>8 DEF NoKeyReturns
<1>. QED  BY <1>1, <1>8, <1>9 DEF KeysInv

(* The counter is written with another number of the same pairing. *)
LEMMA CounterKept ==
  ASSUME RestOK, job.writes = <<>>, NEW c \in Keys, c.gen = counter.gen,
         job'.writes = <<<<"SN_QUERY_COUNTER", c>>>>, stored' = stored
  PROVE  KeyOutcome \subseteq KeyOutcome' /\ Complete \subseteq Complete'
<1>. DEFINE ws == <<<<"SN_QUERY_COUNTER", c>>>>
<1>1. /\ "SN_QUERY_COUNTER" \in ItemIds /\ "SN_QUERY_COUNTER" \notin KeyItems
      /\ KeyItems \subseteq ItemIds /\ OtherItems \subseteq ItemIds
  BY ItemsProperties DEF KeyItems, OtherItems
<1>2. /\ Ends(ws, stored, "SN_QUERY_COUNTER", c)
      /\ \A i \in ItemIds \ {"SN_QUERY_COUNTER"} : \A v : Ends(ws, stored, i, v) <=> stored[i] = v
  BY <1>1, AfterOne
<1>. HIDE DEF ws
<1>3. job'.writes = ws
  BY DEF ws
<1>4. ASSUME NEW i \in ItemIds \ {"SN_QUERY_COUNTER"}, NEW v \in Keys, <<i, v>> \in Outcome
      PROVE  <<i, v>> \in Outcome'
  BY <1>2, <1>3, <1>4, StoredIs, OutcomeAfter
<1>5. KeyOutcome \subseteq KeyOutcome'
  <2>1. ASSUME NEW e \in KeyOutcome PROVE e \in KeyOutcome'
    <3>1. e \in Outcome /\ e[1] \in KeyItems /\ e \in ItemIds \X Keys
      BY <2>1 DEF KeyOutcome, Outcome
    <3>2. e = <<e[1], e[2]>> /\ e[2] \in Keys
      BY <3>1
    <3>3. e \in Outcome'
      BY <1>1, <1>4, <3>1, <3>2
    <3>. QED  BY <3>1, <3>3 DEF KeyOutcome
  <2>. QED  BY <2>1
<1>6. Complete \subseteq Complete'
  <2>. SUFFICES ASSUME NEW g \in Complete, NEW i \in OtherItems
                PROVE  \E n \in Nat : <<i, Key(g, n)>> \in Outcome'
    BY DEF Complete
  <2>1. g \in Nat
    BY DEF Complete
  <2>2. PICK n \in Nat : <<i, Key(g, n)>> \in Outcome
    BY DEF Complete
  <2>3. Key(g, n) \in Keys /\ Key(g, n).gen = g
    BY <2>1, KeyType
  <2>4. CASE i # "SN_QUERY_COUNTER"
    BY <1>1, <1>4, <2>2, <2>3, <2>4
  <2>5. CASE i = "SN_QUERY_COUNTER"
    <3>1. counter = Key(g, n)
      BY <1>1, <2>2, <2>3, <2>5, StoredIs DEF counter
    <3>2. c = Key(g, c.n) /\ c.n \in Nat
      BY <2>3, <3>1, KeyEta
    <3>3. <<"SN_QUERY_COUNTER", c>> \in Outcome'
      BY <1>1, <1>2, <1>3, OutcomeAfter
    <3>. QED  BY <2>5, <3>2, <3>3
  <2>. QED  BY <2>4, <2>5
<1>. QED  BY <1>5, <1>6

(* The counter is to be written, with another number. *)
CounterStep ==
  /\ job.writes = <<>> /\ counter # None
  /\ \E c \in Keys : c # None /\ c.gen = counter.gen
                       /\ job'.writes = <<<<"SN_QUERY_COUNTER", c>>>>
  /\ job.then \in {"none", "counting"} /\ job'.then \in {"counted", "served"}
  /\ UNCHANGED <<psk, ssk, cnt, scnt, state, link, pairing, torn, stored>>

LEMMA NotNone ==
  ASSUME NEW k \in Keys, k # None, NEW n \in Nat
  PROVE  /\ Key(k.gen, k.n + n) \in Keys /\ Key(k.gen, k.n + n) # None
         /\ Key(k.gen, k.n + n).gen = k.gen
         /\ Roll(k) \in Keys /\ Roll(k) # None /\ Roll(k).gen = k.gen
<1>1. k.gen \in Nat /\ k.n \in Nat /\ k = Key(k.gen, k.n)
  BY KeyEta
<1>2. k.gen # 0 \/ k.n # 0
  BY <1>1 DEF None
<1>3. Key(k.gen, k.n + n) \in Keys /\ Key(k.gen, k.n + n).gen = k.gen
      /\ Key(k.gen, k.n + n).n = k.n + n
  BY <1>1, KeyType
<1>4. Roll(k) \in Keys /\ Roll(k).gen = k.gen /\ Roll(k).n = k.n + 1
  BY <1>1, RollType, KeyType, KeyRoll
<1>5. None.gen = 0 /\ None.n = 0
  BY KeyType DEF None
<1>. QED  BY <1>1, <1>2, <1>3, <1>4, <1>5

LEMMA CounterSteps ==
  ASSUME OrderInv, KeysInv, sn_counter_update \/ serial_number_request_handle
  PROVE  QuietStep \/ CounterStep
<1>1. CASE sn_counter_update
  <2>1. /\ UNCHANGED <<psk, ssk, cnt, scnt, state, link, pairing, torn, stored>>
        /\ job.then = "counting"
    BY <1>1, Zenon DEF sn_counter_update, keyVars, envVars
  <2>2. CASE ~paired_state \/ counter = None
    <3>1. job' = NoJob
      BY <1>1, <2>2, Zenon DEF sn_counter_update
    <3>2. job.writes = <<>> /\ job'.writes = <<>> /\ job'.then = "none"
      BY <2>1, <3>1, NoJobType DEF KeysInv
    <3>. QED  BY <2>1, <3>2, QuietFlash DEF is_paired
  <2>3. CASE ~(~paired_state \/ counter = None)
    <3>. DEFINE c == Key(counter.gen, counter.n + increment)
    <3>1. c \in Keys /\ c # None /\ c.gen = counter.gen
      <4>1. increment \in Nat
        BY OrderFacts DEF RestOK
      <4>. QED  BY <2>3, <4>1, CounterTyped, NotNone, OrderFacts
    <3>2. job'.writes = <<<<"SN_QUERY_COUNTER", c>>>> /\ job'.then = "counted"
      BY <1>1, <2>3 DEF sn_counter_update, Start
    <3>. QED  BY <2>1, <2>3, <3>1, <3>2 DEF KeysInv, CounterStep
  <2>. QED  BY <2>2, <2>3
<1>2. CASE serial_number_request_handle
  <2>1. /\ UNCHANGED <<psk, ssk, cnt, scnt, state, link, pairing, torn, stored>>
        /\ Idle
    BY <1>2, Zenon DEF serial_number_request_handle, keyVars, envVars
  <2>2. CASE is_paired /\ is_lookup_enabled /\ counter # None
    <3>1. Roll(counter) \in Keys /\ Roll(counter) # None /\ Roll(counter).gen = counter.gen
      BY <2>2, CounterTyped, NotNone, OrderFacts
    <3>2. job'.writes = <<<<"SN_QUERY_COUNTER", Roll(counter)>>>> /\ job'.then = "served"
      BY <1>2, <2>2 DEF serial_number_request_handle, Start
    <3>. QED  BY <2>1, <2>2, <3>1, <3>2, IdleWrites DEF CounterStep
  <2>3. CASE ~(is_paired /\ is_lookup_enabled /\ counter # None)
    <3>1. job' = job
      BY <1>2, <2>3, Zenon DEF serial_number_request_handle
    <3>. QED  BY <2>1, <3>1, IdleWrites, QuietFlash DEF is_paired
  <2>. QED  BY <2>2, <2>3
<1>. QED  BY <1>1, <1>2

LEMMA KeysCounted ==
  ASSUME OrderInv, Commanded, KeysInv, CounterStep
  PROVE  KeysInv' /\ NoKeyReturns
<1>1. KeyOutcome \subseteq KeyOutcome' /\ Complete \subseteq Complete'
  BY CounterKept, OrderFacts DEF CounterStep
<1>. QED  BY <1>1, KeysStep DEF CounterStep, is_paired

LEMMA QuietQueries ==
  ASSUME OrderInv, Commanded, KeysInv,
         \/ owner_query \/ nfc_callback \/ sn_counter_update_work_handle \/ sn_counter_updated
         \/ sn_counter_update_again \/ serial_number_cnt_changed \/ state_changed
         \/ fmna_serial_number_lookup_enable \/ sn_lookup_timeout_work_handle
         \/ serial_number_request_ends \/ factory_reset_ends
  PROVE  QuietStep
<1>1. CASE \/ owner_query \/ nfc_callback \/ sn_counter_update_again
           \/ serial_number_cnt_changed \/ state_changed \/ fmna_serial_number_lookup_enable
           \/ sn_lookup_timeout_work_handle
  <2>1. UNCHANGED <<keyVars, envVars, stored, job>>
    BY <1>1, Zenon
    DEF owner_query, Write, nfc_callback, sn_counter_update_again, serial_number_cnt_changed,
        state_changed, fmna_serial_number_lookup_enable, sn_lookup_timeout_work_handle
  <2>. QED  BY <2>1, QuietFlash DEF keyVars, envVars, is_paired
<1>2. CASE sn_counter_update_work_handle
  <2>1. /\ Idle /\ UNCHANGED <<keyVars, envVars, stored>>
        /\ job'.writes = <<>> /\ job'.then = "counting"
    BY <1>2 DEF sn_counter_update_work_handle, Start
  <2>. QED  BY <2>1, IdleWrites, QuietFlash DEF keyVars, envVars, is_paired
<1>3. CASE sn_counter_updated \/ serial_number_request_ends \/ factory_reset_ends
  <2>1. (\E x \in Jobs : Ending(x)) /\ UNCHANGED <<keyVars, envVars, stored>>
    BY <1>3 DEF sn_counter_updated, serial_number_request_ends, factory_reset_ends, Jobs
  <2>2. job'.writes = job.writes /\ job'.then = "none"
    BY <2>1, EndedJob
  <2>. QED  BY <2>1, <2>2, QuietFlash DEF keyVars, envVars, is_paired
<1>. QED  BY <1>1, <1>2, <1>3

(* What a restart restores are the keys of before. *)
LEMMA Restored ==
  ASSUME RestOK, job.writes = <<>>, KeysKept
  PROVE  /\ fmna_storage_pairing_data_check
         /\ restored_psk = psk /\ restored_secondary = ssk /\ restored_primary = psk.n
         /\ SECONDARY_KEY_INDEX_FROM_PRIMARY(restored_primary) = ssk.n
<1>. DEFINE g  == psk.gen
            n  == psk.n
            at == n - (n % U)
<1>1. /\ psk \in Keys /\ ssk \in Keys /\ P \in Nat /\ P >= 1 /\ U \in Nat /\ U >= 1
  BY KeyConstants DEF RestOK
<1>2. g \in Nat /\ n \in Nat /\ psk = Key(g, n)
  BY <1>1, KeyEta
<1>3. /\ n \div P \in Nat /\ n % U \in Nat /\ at \in Nat /\ at \div P \in Nat
  <2>1. n % U \in Nat /\ n \div U \in Nat /\ n = (U * (n \div U)) + (n % U) /\ n \div P \in Nat
    BY <1>1, <1>2, Division
  <2>2. U * (n \div U) \in Nat
    BY <1>1, <2>1
  <2>3. at \in Nat
    BY <1>2, <2>1, <2>2
  <2>. QED  BY <1>1, <2>1, <2>3, Division
<1>4. /\ g \in Complete /\ ssk = Key(g, (n \div P) + 1)
      /\ <<"MASTER_PUBLIC_KEY", Key(g, 0)>> \in KeyOutcome
      /\ <<"PRIMARY_SK", Key(g, at)>> \in KeyOutcome
      /\ <<"PRIMARY_KEY_INDEX", Key(g, at)>> \in KeyOutcome
      /\ <<"SECONDARY_SK", Key(g, (at \div P) + 1)>> \in KeyOutcome
      /\ <<"CURRENT_KEYS_INDEX_DIFF", Key(g, n % U)>> \in KeyOutcome
  BY DEF KeysKept, LeadsTo
<1>. HIDE DEF g, n, at
<1>5. /\ stored["MASTER_PUBLIC_KEY"] = Key(g, 0)
      /\ stored["PRIMARY_SK"] = Key(g, at) /\ stored["PRIMARY_KEY_INDEX"] = Key(g, at)
      /\ stored["SECONDARY_SK"] = Key(g, (at \div P) + 1)
      /\ stored["CURRENT_KEYS_INDEX_DIFF"] = Key(g, n % U)
  <2>1. /\ Key(g, 0) \in Keys /\ Key(g, at) \in Keys /\ Key(g, (at \div P) + 1) \in Keys
        /\ Key(g, n % U) \in Keys
    BY <1>2, <1>3, KeyType
  <2>. QED  BY <1>4, <2>1, KeyOutcomeIs DEF KeyItems
<1>6. g # 0 /\ \A i \in OtherItems : \E m \in Nat : stored[i] = Key(g, m)
  <2>1. \A i \in OtherItems : i \in ItemIds
    BY ItemsProperties DEF OtherItems
  <2>2. \A m \in Nat : Key(g, m) \in Keys
    BY <1>2, KeyType
  <2>. QED  BY <1>4, <2>1, <2>2, StoredIs DEF Complete
<1>7. fmna_storage_pairing_data_check
  <2>1. \A m \in Nat : Key(g, m) # None
    BY <1>2, <1>6, KeyType, NoneType
  <2>2. \A i \in ItemIds : i \in OtherItems \/ i \in KeyItems
    BY ItemsProperties DEF OtherItems, KeyItems
  <2>. QED  BY <1>3, <1>5, <1>6, <2>1, <2>2 DEF fmna_storage_pairing_data_check, KeyItems
<1>8. restored_primary = n
  <2>1. Key(g, at).n = at /\ Key(g, n % U).n = n % U
    BY <1>2, <1>3, KeyType
  <2>2. at + (n % U) = n
    BY <1>2, <1>3 DEF at
  <2>. QED  BY <1>5, <2>1, <2>2 DEF restored_primary
<1>9. restored_psk = psk
  <2>1. restored_psk \in Keys /\ restored_psk.gen = g /\ restored_psk.n = at + (n % U)
    BY <1>2, <1>3, <1>5, RestoredType, KeyType
  <2>2. at + (n % U) = n
    BY <1>2, <1>3 DEF at
  <2>. QED  BY <1>2, <2>1, <2>2, KeyEta
<1>10. restored_secondary = ssk
  <2>1. /\ restored_secondary \in Keys /\ restored_secondary.gen = g
        /\ restored_secondary.n = ((at \div P) + 1) + (n \div P) - (at \div P)
    BY <1>2, <1>3, <1>5, <1>8, RestoredType, KeyType
  <2>2. restored_secondary.n = (n \div P) + 1
    BY <1>3, <2>1
  <2>. QED  BY <1>4, <2>1, <2>2, KeyEta
<1>11. SECONDARY_KEY_INDEX_FROM_PRIMARY(restored_primary) = ssk.n
  BY <1>2, <1>3, <1>4, <1>8, KeyType DEF SECONDARY_KEY_INDEX_FROM_PRIMARY
<1>. QED  BY <1>7, <1>8, <1>9, <1>10, <1>11 DEF n

LEMMA KeysEnabled ==
  ASSUME OrderInv, Commanded, KeysInv, fmna_enable
  PROVE  KeysInv' /\ NoKeyReturns
<1>. DEFINE paired == fmna_storage_pairing_data_check
<1>1. /\ Idle /\ ~ready /\ link = "down"
      /\ state' = IF paired THEN "SEPARATED" ELSE "UNPAIRED"
      /\ IF paired THEN paired_state_restore ELSE UNCHANGED keyVars
      /\ UNCHANGED <<link, pairing, torn, stored, job>>
  BY Zenon DEF fmna_enable
<1>2. /\ state = "DISABLED" /\ job.writes = <<>> /\ job.then = "none" /\ Outcome' = Outcome
      /\ "PAIRING_COMPLETE" \notin WaitingIds
  BY <1>1, IdleWrites, OutcomeSame DEF OrderInv, ReadyOrder, LinkOrder, PeerIds, LinkWrites
<1>3. ~Finalized'
  BY <1>1, <1>2 DEF Finalized, Commanded
<1>4. KeyOutcome' = KeyOutcome /\ Complete' = Complete
  BY <1>2 DEF KeyOutcome, Complete
<1>5. ASSUME torn' = 0 PROVE KeysOK' /\ psk' = psk /\ ssk' = ssk
  <2>1. psk.gen <= pairing /\ (KeysKept \/ Erased)
    BY <1>1, <1>2, <1>5 DEF KeysInv, KeysOK
  <2>2. CASE KeysKept
    <3>1. /\ psk' = psk /\ ssk' = ssk /\ cnt' = psk.n /\ scnt' = ssk.n /\ state' = "SEPARATED"
      BY <1>1, <1>2, <2>2, Restored, OrderFacts DEF paired_state_restore
    <3>2. KeysKept'
      BY <1>4, <2>2, <3>1 DEF KeysKept
    <3>. QED  BY <1>1, <1>3, <2>1, <3>1, <3>2 DEF KeysOK
  <2>3. CASE Erased
    <3>1. stored["MASTER_PUBLIC_KEY"] = None /\ "MASTER_PUBLIC_KEY" \in ItemIds
      BY <1>2, <2>3, KeyOutcomeIs, NoneType DEF Erased, KeyItems
    <3>2. ~paired
      BY <3>1 DEF fmna_storage_pairing_data_check
    <3>3. psk' = psk /\ ssk' = ssk /\ state' = "UNPAIRED" /\ ~is_paired'
      BY <1>1, <3>2 DEF keyVars, is_paired
    <3>4. Erased'
      BY <1>4, <2>3 DEF Erased
    <3>. QED  BY <1>1, <1>3, <2>1, <3>3, <3>4 DEF KeysOK
  <2>. QED  BY <2>1, <2>2, <2>3
<1>6. NoKeyReturns
  <2>1. psk.n \in Nat /\ ssk.n \in Nat
    BY OrderFacts DEF RestOK, Keys
  <2>. QED  BY <1>5, <2>1 DEF NoKeyReturns
<1>. QED  BY <1>1, <1>2, <1>5, <1>6 DEF KeysInv

(* Power is lost between two writes. *)
TornStep == power_loss /\ job.writes # <<>>

LEMMA QuietOff ==
  ASSUME OrderInv, KeysInv, fmna_disable \/ power_loss
  PROVE  QuietStep \/ TornStep
<1>1. /\ state' = "DISABLED" /\ link' = "down" /\ UNCHANGED <<psk, ssk, pairing, stored>>
  <2>1. CASE fmna_disable
    <3>1. CASE state = "UNPAIRED"
      BY <2>1, <3>1, Zenon DEF fmna_disable, keyVars
    <3>2. CASE state # "UNPAIRED"
      BY <2>1, <3>2, Zenon DEF fmna_disable, fmna_keys_service_stop
    <3>. QED  BY <2>1, <3>1, <3>2, Zenon DEF fmna_disable
  <2>2. CASE power_loss
    BY <2>2, Zenon DEF power_loss, fmna_keys_service_stop
  <2>. QED  BY <2>1, <2>2
<1>2. ~is_paired'
  BY <1>1 DEF is_paired
<1>3. CASE fmna_disable
  <2>1. UNCHANGED <<job, torn>> /\ Idle
    BY <1>3, Zenon DEF fmna_disable
  <2>. QED  BY <1>1, <1>2, <2>1, IdleWrites, QuietFlash
<1>4. CASE power_loss /\ job.writes = <<>>
  <2>1. job' = NoJob /\ torn' = torn
    BY <1>4, Zenon DEF power_loss
  <2>. QED  BY <1>1, <1>2, <1>4, <2>1, NoJobType, QuietFlash
<1>. QED  BY <1>3, <1>4 DEF TornStep

LEMMA TornOff ==
  ASSUME OrderInv, TornStep
  PROVE  /\ state' = "DISABLED" /\ ~is_paired' /\ ~Finalized' /\ torn' = torn + 1 /\ torn' # 0
         /\ torn < MaxTorn /\ job' = NoJob /\ job'.writes = <<>> /\ UNCHANGED stored
<1>1. /\ state' = "DISABLED" /\ torn' = torn + 1 /\ torn < MaxTorn /\ job' = NoJob
      /\ stored' = stored
  BY Zenon DEF TornStep, power_loss
<1>. QED  BY <1>1, OrderFacts, NoJobType DEF RestOK, is_paired, Finalized

LEMMA KeysTorn ==
  ASSUME OrderInv, Commanded, KeysInv, TornStep
  PROVE  KeysInv' /\ NoKeyReturns
BY TornOff DEF KeysInv, NoKeyReturns

LEMMA KeysInitially ==
  ASSUME Init
  PROVE  KeysInv
<1>1. /\ state = "DISABLED" /\ link = "down" /\ stored = [i \in ItemIds |-> None] /\ job = NoJob
      /\ psk = None /\ pairing = 0
  BY DEF Init, KeysInit
<1>2. job.writes = <<>> /\ job.then = "none"
  BY <1>1, NoJobType
<1>3. Erased
  BY <1>1, <1>2, KeyOutcomeIs, NoneType DEF Erased
<1>. QED  BY <1>1, <1>2, <1>3, NoneType DEF KeysInv, KeysOK, Finalized, is_paired

(* A step leaves the flash on its way, or is one of the others. *)
LEMMA FlashSteps ==
  ASSUME OrderInv, Commanded, KeysInv, [Next]_vars
  PROVE  \/ QuietStep \/ CounterStep \/ TornStep
         \/ key_rotation_work_handle
         \/ (owner_unpaired /\ UNCHANGED snVars)
         \/ (finalize_pairing_cmd_handle /\ UNCHANGED snVars)
         \/ (pairing_complete_cmd_handle /\ UNCHANGED snVars)
         \/ fmna_factory_reset
         \/ fmna_enable
<1>1. CASE UNCHANGED vars
  BY <1>1, QuietFlash DEF vars, keyVars, envVars, is_paired
<1>2. CASE KeysNext /\ UNCHANGED snVars
  BY <1>2, QuietNext, QuietOwner, QuietStored, Zenon DEF KeysNext
<1>3. CASE sn_counter_update \/ serial_number_request_handle
  BY <1>3, CounterSteps
<1>4. CASE \/ owner_query \/ nfc_callback \/ sn_counter_update_work_handle
           \/ sn_counter_updated \/ sn_counter_update_again \/ serial_number_cnt_changed
           \/ state_changed \/ fmna_serial_number_lookup_enable
           \/ sn_lookup_timeout_work_handle \/ serial_number_request_ends
           \/ factory_reset_ends
  BY <1>4, QuietQueries
<1>5. CASE fmna_disable \/ power_loss
  BY <1>5, QuietOff
<1>. QED  BY <1>1, <1>2, <1>3, <1>4, <1>5, Zenon DEF Next

LEMMA KeysInvStep ==
  ASSUME InTime, OrderInv, KeysInv, [Next]_vars
  PROVE  KeysInv' /\ NoKeyReturns
<1>1. Commanded
  BY OrderNext, OrderStutters
<1>2. CASE QuietStep
  BY <1>1, <1>2, KeysQuiet
<1>3. CASE CounterStep
  BY <1>1, <1>3, KeysCounted
<1>4. CASE TornStep
  BY <1>1, <1>4, KeysTorn
<1>5. CASE key_rotation_work_handle
  BY <1>1, <1>5, KeysRotation
<1>6. CASE owner_unpaired /\ UNCHANGED snVars
  BY <1>1, <1>6, KeysUnpaired
<1>7. CASE finalize_pairing_cmd_handle /\ UNCHANGED snVars
  BY <1>1, <1>7, KeysFinalize
<1>8. CASE pairing_complete_cmd_handle /\ UNCHANGED snVars
  BY <1>1, <1>8, KeysComplete
<1>9. CASE fmna_factory_reset
  BY <1>1, <1>9, KeysErased
<1>10. CASE fmna_enable
  BY <1>1, <1>10, KeysEnabled
<1>. QED
  BY <1>1, <1>2, <1>3, <1>4, <1>5, <1>6, <1>7, <1>8, <1>9, <1>10, FlashSteps, Zenon

(* As long as no power loss has torn a write, the keys in memory are those  *)
(* to which the flash leads once the job under way has been written.        *)
THEOREM KeysAreInvariant ==
  ASSUME InTime
  PROVE  Spec => []KeysInv
<1>1. Init => KeysInv
  BY KeysInitially
<1>2. OrderInv /\ KeysInv /\ [Next]_vars => KeysInv'
  BY KeysInvStep
<1>. QED  BY <1>1, <1>2, OrderIsInvariant, PTL DEF Spec

(* fmna_keys.c: the counters of the rotations are the indices of the keys.  *)
THEOREM KeysStayInStep ==
  ASSUME InTime
  PROVE  Spec => []KeysInStep
<1>1. OrderInv /\ KeysInv => KeysInStep
  <2>. SUFFICES ASSUME OrderInv, KeysInv, is_paired, torn = 0
                PROVE  /\ psk.n = cnt /\ ssk.n = scnt
                       /\ scnt = SECONDARY_KEY_INDEX_FROM_PRIMARY(cnt)
    BY DEF KeysInStep
  <2>1. KeysKept /\ psk.n = cnt /\ ssk.n = scnt
    BY DEF KeysInv, KeysOK
  <2>2. ssk = Key(psk.gen, (cnt \div P) + 1) /\ psk.gen \in Nat /\ cnt \div P \in Nat
    <3>1. psk.gen \in Nat /\ cnt \in Nat
      BY OrderFacts DEF RestOK, Keys
    <3>. QED  BY <2>1, <3>1, KeyConstants, Division DEF KeysKept, LeadsTo
  <2>3. ssk.n = (cnt \div P) + 1
    BY <2>2, KeyType
  <2>. QED  BY <2>1, <2>3 DEF SECONDARY_KEY_INDEX_FROM_PRIMARY
<1>. QED  BY <1>1, KeysAreInvariant, OrderIsInvariant, PTL

(* A restart at any moment at which nothing is being written continues with *)
(* the keys and the index of the running service.                           *)
THEOREM StoredKeysAreCurrent ==
  ASSUME InTime
  PROVE  Spec => []StoredKeysCurrent
<1>1. OrderInv /\ KeysInv => StoredKeysCurrent
  <2>. SUFFICES ASSUME OrderInv, KeysInv, is_paired, torn = 0, Idle
                PROVE  restored_primary = cnt /\ restored_psk = psk /\ restored_secondary = ssk
    BY DEF StoredKeysCurrent
  <2>1. KeysKept /\ psk.n = cnt
    BY DEF KeysInv, KeysOK
  <2>. QED  BY <2>1, IdleWrites, Restored, OrderFacts
<1>. QED  BY <1>1, KeysAreInvariant, OrderIsInvariant, PTL

(* Within a pairing the keys only move on, across restarts and losses of    *)
(* power between the writes of a handler.                                   *)
THEOREM KeysDoNotReturn ==
  ASSUME InTime
  PROVE  Spec => KeysNeverReturn
<1>1. OrderInv /\ KeysInv /\ [Next]_vars
        => [torn' = 0 /\ psk'.gen = psk.gen => psk'.n >= psk.n /\ ssk'.n >= ssk.n]_vars
  BY KeysInvStep DEF NoKeyReturns
<1>. QED  BY <1>1, KeysAreInvariant, OrderIsInvariant, PTL DEF Spec, KeysNeverReturn

-----------------------------------------------------------------------------
(* The counters of the rotations, which the code asserts to be in step.     *)

SyncInv == is_paired => scnt = SECONDARY_KEY_INDEX_FROM_PRIMARY(cnt)

LEMMA SyncKept ==
  ASSUME SyncInv, UNCHANGED <<cnt, scnt>>, is_paired' => is_paired
  PROVE  SyncInv'
BY DEF SyncInv, SECONDARY_KEY_INDEX_FROM_PRIMARY

LEMMA SyncUnpaired ==
  ASSUME state' \in {"DISABLED", "UNPAIRED"}
  PROVE  SyncInv'
BY DEF SyncInv, is_paired

(* The index of the secondary key is the expected one or one behind.        *)
LEMMA SyncAhead ==
  ASSUME OrderInv, SyncInv, is_paired
  PROVE  SECONDARY_KEY_INDEX_FROM_PRIMARY(cnt + 1) \in {scnt, scnt + 1}
<1>1. cnt \in Nat /\ scnt = (cnt \div P) + 1
  BY OrderFacts DEF RestOK, SyncInv, SECONDARY_KEY_INDEX_FROM_PRIMARY
<1>2. (cnt + 1) \div P \in {cnt \div P, (cnt \div P) + 1}
  BY <1>1, DivStep, KeyConstants
<1>. QED  BY <1>1, <1>2 DEF SECONDARY_KEY_INDEX_FROM_PRIMARY

LEMMA SyncRotation ==
  ASSUME OrderInv, SyncInv, key_rotation_work_handle
  PROVE  SyncInv'
<1>1. /\ Running("keys") /\ PostOn(Tail(workq), <<>>)
      /\ cnt' = cnt + 1
      /\ scnt' = IF secondary_key_is_outdated(cnt + 1) THEN scnt + 1 ELSE scnt
  BY Zenon DEF key_rotation_work_handle
<1>2. is_paired
  <2>1. Queued(workq, "keys")
    BY <1>1, Ran, OrderFacts
  <2>. QED  BY <2>1 DEF OrderInv, JobOrder, RotationDue
<1>3. SECONDARY_KEY_INDEX_FROM_PRIMARY(cnt + 1) \in {scnt, scnt + 1}
      /\ scnt \in Nat
  BY <1>2, SyncAhead, OrderFacts DEF RestOK
<1>4. scnt' = SECONDARY_KEY_INDEX_FROM_PRIMARY(cnt + 1)
  BY <1>1, <1>3 DEF secondary_key_is_outdated
<1>. QED  BY <1>1, <1>4 DEF SyncInv, SECONDARY_KEY_INDEX_FROM_PRIMARY

LEMMA SyncKeysNext ==
  ASSUME OrderInv, SyncInv, KeysNext
  PROVE  SyncInv'
<1>1. CASE \/ event_work \/ item_store \/ key_rotation_timeout_handle \/ rotation_ends
           \/ public_keys_changed \/ peer_arrives \/ peer_leaves \/ peer_connected
           \/ unpairing_ends \/ owner_cp_write \/ pairing_cp_write
           \/ unpair_request_handle \/ finalize_pairing_cmd_handle \/ finalizing_ends
           \/ keys_service_timer_start \/ peer_security_changed
           \/ separated_key_latch_request_handle \/ separated_state_configure_request_handle
  <2>1. UNCHANGED <<cnt, scnt, state>>
    <3>1. CASE \/ event_work \/ item_store \/ key_rotation_timeout_handle \/ rotation_ends
               \/ public_keys_changed \/ peer_arrives \/ peer_leaves \/ peer_connected
               \/ unpairing_ends
      BY <3>1, Zenon
      DEF event_work, item_store, key_rotation_timeout_handle, rotation_ends,
          public_keys_changed, peer_arrives, peer_leaves, peer_connected, unpairing_ends,
          keyVars, envVars
    <3>2. CASE \/ owner_cp_write \/ pairing_cp_write
               \/ unpair_request_handle \/ finalize_pairing_cmd_handle \/ finalizing_ends
      BY <3>2, Zenon
      DEF owner_cp_write, pairing_cp_write, Write, unpair_request_handle,
          finalize_pairing_cmd_handle, finalizing_ends, keyVars, envVars
    <3>3. CASE \/ keys_service_timer_start \/ peer_security_changed
               \/ separated_key_latch_request_handle \/ separated_state_configure_request_handle
      BY <3>3, Zenon
      DEF keys_service_timer_start, peer_security_changed, separated_key_latch_request_handle,
          separated_state_configure_request_handle, keyVars, envVars
    <3>. QED  BY <1>1, <3>1, <3>2, <3>3
  <2>. QED  BY <2>1, SyncKept DEF is_paired
<1>2. CASE key_rotation_work_handle
  BY <1>2, SyncRotation
<1>3. CASE owner_connected
  <2>1. "OWNER_CONNECTED" \in WaitingIds
    <3>1. Handling("OWNER_CONNECTED")
          /\ (Post(<<>>) \/ Post(<<Ev("STATE_CHANGED", NULL)>>))
      BY <1>3 DEF owner_connected
    <3>. QED  BY <3>1, Handled, PostEmpty, WaitingAs, StateEvent, OrderFacts
  <2>2. is_paired
    BY <2>1 DEF OrderInv, LinkOrder, OwnerIds
  <2>. QED  BY <1>3, <2>2, SyncKept DEF owner_connected, keyVars
<1>4. CASE owner_disconnected \/ nearby_separated_work_handle
  BY <1>4, SyncKept DEF owner_disconnected, nearby_separated_work_handle, keyVars, is_paired
<1>5. CASE owner_unpaired
  BY <1>5, SyncUnpaired DEF owner_unpaired
<1>6. CASE pairing_complete_cmd_handle
  <2>1. "PAIRING_COMPLETE" \in WaitingIds
    BY <1>6, Handled, PostEmpty, WaitingAs, StateEvent, OrderFacts
    DEF pairing_complete_cmd_handle
  <2>2. cnt = 0 /\ scnt = 0
    BY <2>1 DEF OrderInv, LinkOrder, JobOrder, PairingCommands, is_paired
  <2>3. cnt' = 1 /\ scnt' = 1
    BY <1>6, <2>2 DEF pairing_complete_cmd_handle
  <2>4. 1 \div P = 0
    BY DivBelow, KeyConstants
  <2>. QED  BY <2>3, <2>4 DEF SyncInv, SECONDARY_KEY_INDEX_FROM_PRIMARY
<1>. QED  BY <1>1, <1>2, <1>3, <1>4, <1>5, <1>6 DEF KeysNext

LEMMA SyncNext ==
  ASSUME OrderInv, SyncInv, [Next]_vars
  PROVE  SyncInv'
<1>0. CASE UNCHANGED vars
  BY <1>0, SyncKept DEF vars, keyVars, envVars, is_paired
<1>1. CASE KeysNext
  BY <1>1, SyncKeysNext
<1>2. CASE \/ owner_query \/ nfc_callback \/ sn_counter_update_work_handle
           \/ sn_counter_update \/ sn_counter_updated \/ sn_counter_update_again
           \/ serial_number_cnt_changed \/ state_changed \/ fmna_serial_number_lookup_enable
           \/ sn_lookup_timeout_work_handle \/ serial_number_request_handle
           \/ serial_number_request_ends \/ fmna_factory_reset \/ factory_reset_ends
  <2>1. UNCHANGED <<cnt, scnt, state>>
    BY <1>2, Zenon
    DEF owner_query, Write, nfc_callback, sn_counter_update_work_handle, sn_counter_update,
        sn_counter_updated, sn_counter_update_again, serial_number_cnt_changed, state_changed,
        fmna_serial_number_lookup_enable, sn_lookup_timeout_work_handle,
        serial_number_request_handle, serial_number_request_ends, fmna_factory_reset,
        factory_reset_ends, keyVars, envVars
  <2>. QED  BY <2>1, SyncKept DEF is_paired
<1>3. CASE fmna_enable
  <2>1. CASE fmna_storage_pairing_data_check
    BY <1>3, <2>1 DEF fmna_enable, paired_state_restore, SyncInv, SECONDARY_KEY_INDEX_FROM_PRIMARY
  <2>2. CASE ~fmna_storage_pairing_data_check
    BY <1>3, <2>2, SyncUnpaired DEF fmna_enable
  <2>. QED  BY <2>1, <2>2
<1>4. CASE fmna_disable \/ power_loss
  BY <1>4, SyncUnpaired DEF fmna_disable, power_loss
<1>. QED  BY <1>0, <1>1, <1>2, <1>3, <1>4 DEF Next

(* fmna_keys.c: the assertion "Secondary Key is not synced properly with    *)
(* Primary Key" never fails at a rotation, whatever the power losses,       *)
(* unless a rotation is late.                                               *)
THEOREM SecondaryStaysSynced ==
  ASSUME InTime
  PROVE  Spec => []SecondarySynced
<1>1. Init => SyncInv
  BY DEF Init, KeysInit, SyncInv, is_paired
<1>2. OrderInv /\ SyncInv /\ [Next]_vars => SyncInv'
  BY SyncNext
<1>3. OrderInv /\ SyncInv => SecondarySynced
  <2>. SUFFICES ASSUME OrderInv, SyncInv, workq # <<>>, Head(workq) = "keys"
                PROVE  SECONDARY_KEY_INDEX_FROM_PRIMARY(cnt + 1) - scnt \in {0, 1}
    BY DEF SecondarySynced
  <2>1. Queued(workq, "keys")
    <3>1. workq \in Seq(SerialWorkItems)
      BY OrderFacts DEF QueuesTyped
    <3>. QED  BY <3>1, EmptySeq, LenProperties, HeadTailProperties DEF Queued
  <2>2. is_paired
    BY <2>1 DEF OrderInv, JobOrder, RotationDue
  <2>3. SECONDARY_KEY_INDEX_FROM_PRIMARY(cnt + 1) \in {scnt, scnt + 1} /\ scnt \in Nat
    BY <2>2, SyncAhead, OrderFacts DEF RestOK
  <2>. QED  BY <2>3
<1>. QED  BY <1>1, <1>2, <1>3, OrderIsInvariant, PTL DEF Spec

-----------------------------------------------------------------------------
(* Which pairing the items of the flash belong to, in the middle of a job:  *)
(* a key is missing and stays so until the job ends, or the deletion of a   *)
(* pairing is about to begin, or all that is missing is on its way and the  *)
(* difference of the index comes last.                                      *)

DIFF == "CURRENT_KEYS_INDEX_DIFF"

OfPairing(st, g) == \A i \in ItemIds : st[i].gen = g
Missing(st)      == \E i \in KeyItems : st[i] = None

Gone(ws, st) ==
  \E i \in KeyItems :
    /\ st[i] = None
    /\ \A k \in 1..Len(ws) : ws[k][1] = i => ws[k][2] = None

Going(ws, st) ==
  /\ \E g \in Nat \ {0} : OfPairing(st, g)
  /\ \A k \in 1..Len(ws) : ws[k][2] = None
  /\ ws # <<>> /\ ws[1][1] \in KeyItems

WrittenFirst(ws, i) == \E k \in 1..Len(ws) : ws[k][1] = i /\ \A m \in 1..k : ws[m][1] # DIFF

Filling(ws, st, g) ==
  /\ \A k \in 1..Len(ws) : ws[k][2].gen = g
  /\ \A i \in ItemIds \ {DIFF} : st[i].gen = g \/ WrittenFirst(ws, i)
  /\ st[DIFF] = None \/ OfPairing(st, g)

Fits(ws, st) == Gone(ws, st) \/ Going(ws, st) \/ \E g \in Nat \ {0} : Filling(ws, st, g)

LEMMA DiffIsKey == DIFF \in KeyItems /\ DIFF \in ItemIds /\ KeyItems \subseteq ItemIds
BY ItemsProperties DEF DIFF, KeyItems

(* At any moment of a job a key is missing, or all items are of a pairing. *)
LEMMA FitsEither ==
  ASSUME NEW ws, NEW st, Fits(ws, st)
  PROVE  Missing(st) \/ \E g \in Nat \ {0} : OfPairing(st, g)
BY DiffIsKey DEF Fits, Gone, Going, Filling, Missing

LEMMA FitsStored ==
  ASSUME RestOK, item_store, Fits(job.writes, stored)
  PROVE  Fits(job'.writes, stored')
<1>. DEFINE ws == job.writes
            t  == Tail(ws)
            h  == Head(ws)
<1>1. /\ ws # <<>> /\ ws \in Writes /\ job'.writes = t
      /\ h[1] \in ItemIds /\ h[2] \in Keys /\ stored \in [ItemIds -> Keys]
  BY ItemStored DEF RestOK
<1>2. stored' = [stored EXCEPT ![h[1]] = h[2]]
  BY DEF item_store
<1>3. /\ Len(ws) \in Nat \ {0} /\ Len(t) = Len(ws) - 1 /\ h = ws[1]
      /\ \A k \in 1..Len(t) : k + 1 \in 1..Len(ws) /\ t[k] = ws[k + 1]
  BY <1>1, HeadTailProperties, EmptySeq, LenProperties DEF Writes
<1>4. 1 \in 1..Len(ws) /\ h = ws[1]
  BY <1>3
<1>5. /\ stored'[h[1]] = h[2]
      /\ \A i \in ItemIds \ {h[1]} : stored'[i] = stored[i]
  BY <1>1, <1>2
<1>6. Fits(ws, stored)
  OBVIOUS
<1>. HIDE DEF ws, t, h
<1>. SUFFICES Fits(t, stored')
  BY <1>1
<1>7. CASE Gone(ws, stored)
  <2>1. PICK i \in KeyItems : stored[i] = None /\ \A k \in 1..Len(ws) : ws[k][1] = i => ws[k][2] = None
    BY <1>7 DEF Gone
  <2>2. stored'[i] = None
    BY <1>4, <1>5, <2>1, DiffIsKey
  <2>3. \A k \in 1..Len(t) : t[k][1] = i => t[k][2] = None
    BY <1>3, <2>1
  <2>. QED  BY <2>2, <2>3 DEF Fits, Gone
<1>8. CASE Going(ws, stored)
  <2>1. h[1] \in KeyItems /\ h[2] = None /\ \A k \in 1..Len(ws) : ws[k][2] = None
    BY <1>4, <1>8 DEF Going
  <2>2. \A k \in 1..Len(t) : t[k][2] = None
    BY <1>3, <2>1
  <2>. QED  BY <1>5, <2>1, <2>2 DEF Fits, Gone
<1>9. ASSUME NEW g \in Nat \ {0}, Filling(ws, stored, g) PROVE Filling(t, stored', g)
  <2>1. /\ \A k \in 1..Len(ws) : ws[k][2].gen = g
        /\ \A i \in ItemIds \ {DIFF} : stored[i].gen = g \/ WrittenFirst(ws, i)
        /\ stored[DIFF] = None \/ OfPairing(stored, g)
    BY <1>9 DEF Filling
  <2>2. h[2].gen = g /\ \A k \in 1..Len(t) : t[k][2].gen = g
    BY <1>3, <1>4, <2>1
  <2>3. ASSUME NEW i \in ItemIds, stored[i].gen = g PROVE stored'[i].gen = g
    BY <1>5, <2>2, <2>3
  <2>4. CASE h[1] = DIFF
    <3>1. ASSUME NEW i \in ItemIds \ {DIFF} PROVE stored'[i].gen = g
      <4>1. ~WrittenFirst(ws, i)
        <5>. SUFFICES ASSUME NEW k \in 1..Len(ws), \A m \in 1..k : ws[m][1] # DIFF PROVE FALSE
          BY DEF WrittenFirst
        <5>1. 1 \in 1..k
          BY <1>3
        <5>. QED  BY <1>4, <2>4, <5>1
      <4>. QED  BY <2>1, <2>3, <4>1
    <3>2. OfPairing(stored', g)
      BY <1>5, <2>2, <2>4, <3>1 DEF OfPairing
    <3>. QED  BY <2>2, <3>1, <3>2 DEF Filling
  <2>5. CASE h[1] # DIFF
    <3>1. ASSUME NEW i \in ItemIds \ {DIFF}, WrittenFirst(ws, i)
          PROVE  stored'[i].gen = g \/ WrittenFirst(t, i)
      <4>1. PICK k \in 1..Len(ws) : ws[k][1] = i /\ \A m \in 1..k : ws[m][1] # DIFF
        BY <3>1 DEF WrittenFirst
      <4>2. CASE k = 1
        BY <1>4, <1>5, <2>2, <4>1, <4>2
      <4>3. CASE k # 1
        <5>1. k - 1 \in 1..Len(t) /\ t[k - 1] = ws[k]
          BY <1>3, <4>1, <4>3
        <5>2. ASSUME NEW m \in 1..(k - 1) PROVE t[m][1] # DIFF
          <6>1. m \in 1..Len(t) /\ m + 1 \in 1..k
            BY <1>3, <5>1
          <6>. QED  BY <1>3, <4>1, <6>1
        <5>. QED  BY <4>1, <5>1, <5>2 DEF WrittenFirst
      <4>. QED  BY <4>2, <4>3
    <3>2. stored[DIFF] = None => stored'[DIFF] = None
      BY <1>5, <2>5, DiffIsKey
    <3>3. OfPairing(stored, g) => OfPairing(stored', g)
      BY <2>3 DEF OfPairing
    <3>. QED  BY <2>1, <2>2, <2>3, <3>1, <3>2, <3>3 DEF Filling
  <2>. QED  BY <2>4, <2>5
<1>. QED  BY <1>6, <1>7, <1>8, <1>9 DEF Fits

(* The jobs start in step. *)
LEMMA NothingFits ==
  ASSUME NEW st
  PROVE  (Missing(st) \/ \E g \in Nat \ {0} : OfPairing(st, g)) => Fits(<<>>, st)
<1>1. Len(<<>>) = 0
  OBVIOUS
<1>. QED  BY <1>1, DiffIsKey DEF Missing, Fits, Gone, Filling, OfPairing

LEMMA UpdateFits ==
  ASSUME NEW st, NEW g \in Nat \ {0}, OfPairing(st, g), NEW p \in Keys, NEW s \in Keys,
         p.gen = g, s.gen = g, NEW index \in Nat
  PROVE  Fits(rotation_writes(p, s, index), st)
<1>. DEFINE ws == rotation_writes(p, s, index)
<1>1. /\ Key(g, index).gen = g /\ Key(g, 0).gen = g /\ Key(g, index % U).gen = g
  BY KeyType, KeyConstants
<1>2. CASE index % U # 0
  <2>1. ws = <<<<"CURRENT_KEYS_INDEX_DIFF", Key(g, index % U)>>>>
    BY <1>2 DEF rotation_writes
  <2>2. Len(ws) = 1 /\ ws[1][2].gen = g
    BY <1>1, <2>1
  <2>3. \A k \in 1..Len(ws) : ws[k][2].gen = g
    BY <2>2
  <2>. QED  BY <2>3 DEF Fits, Filling, OfPairing
<1>3. CASE index % U = 0
  <2>1. ws = <<<<"PRIMARY_SK", p>>, <<"SECONDARY_SK", s>>,
             <<"PRIMARY_KEY_INDEX", Key(g, index)>>, <<"CURRENT_KEYS_INDEX_DIFF", Key(g, 0)>>>>
    BY <1>3 DEF rotation_writes, rotating_key_storage_update
  <2>2. Len(ws) = 4 /\ ws[1][2].gen = g /\ ws[2][2].gen = g /\ ws[3][2].gen = g /\ ws[4][2].gen = g
    BY <1>1, <2>1
  <2>3. \A k \in 1..Len(ws) : ws[k][2].gen = g
    <3>1. 1..4 = {1, 2, 3, 4}
      OBVIOUS
    <3>. QED  BY <2>2, <3>1
  <2>. QED  BY <2>3 DEF Fits, Filling, OfPairing
<1>. QED  BY <1>2, <1>3

LEMMA OneFits ==
  ASSUME NEW st, NEW c \in Keys, c.gen = st["SN_QUERY_COUNTER"].gen,
         Missing(st) \/ \E g \in Nat \ {0} : OfPairing(st, g)
  PROVE  Fits(<<<<"SN_QUERY_COUNTER", c>>>>, st)
<1>. DEFINE ws == <<<<"SN_QUERY_COUNTER", c>>>>
<1>1. Len(ws) = 1 /\ ws[1][1] = "SN_QUERY_COUNTER" /\ ws[1][2] = c
  OBVIOUS
<1>2. "SN_QUERY_COUNTER" \notin KeyItems /\ "SN_QUERY_COUNTER" \in ItemIds
  BY ItemsProperties DEF KeyItems
<1>. HIDE DEF ws
<1>3. \A k \in 1..Len(ws) : ws[k][1] = "SN_QUERY_COUNTER" /\ ws[k][2] = c
  BY <1>1
<1>. QED  BY <1>2, <1>3 DEF Fits, Gone, Filling, OfPairing, Missing, ws

LEMMA DeleteFits ==
  ASSUME NEW st, Missing(st) \/ \E g \in Nat \ {0} : OfPairing(st, g)
  PROVE  Fits(fmna_storage_pairing_data_delete, st)
<1>. DEFINE ws == fmna_storage_pairing_data_delete
<1>1. Len(ws) = 8 /\ \A k \in 1..8 : ws[k][1] = Items[k] /\ ws[k][2] = None
  BY ItemsProperties DEF fmna_storage_pairing_data_delete
<1>2. ws # <<>> /\ ws[1][1] \in KeyItems /\ \A k \in 1..Len(ws) : ws[k][2] = None
  <2>1. ws[1][1] = Items[1] /\ Items[1] \in KeyItems
    BY <1>1 DEF Items, KeyItems
  <2>2. Len(ws) # 0
    BY <1>1
  <2>3. ws # <<>>
    BY <2>2
  <2>. QED  BY <1>1, <2>1, <2>3
<1>. QED  BY <1>2 DEF Fits, Gone, Going, Missing

LEMMA FinalizeFits ==
  ASSUME NEW st, NEW k, Missing(st)
  PROVE  Fits(<<<<"SERVER_SHARED_SECRET", k>>, <<"SN_QUERY_COUNTER", k>>,
                <<"ICLOUD_ID", k>>>>, st)
<1>. DEFINE ws == <<<<"SERVER_SHARED_SECRET", k>>, <<"SN_QUERY_COUNTER", k>>,
                    <<"ICLOUD_ID", k>>>>
<1>1. Len(ws) = 3 /\ ws[1][1] \notin KeyItems /\ ws[2][1] \notin KeyItems /\ ws[3][1] \notin KeyItems
  BY DEF KeyItems
<1>2. \A m \in 1..Len(ws) : ws[m][1] \notin KeyItems
  <2>1. 1..3 = {1, 2, 3}
    OBVIOUS
  <2>. QED  BY <1>1, <2>1
<1>. QED  BY <1>2 DEF Fits, Gone, Missing

LEMMA StartFits ==
  ASSUME NEW st, NEW g \in Nat \ {0}, cnt \in Nat, st[DIFF] = None,
         \A i \in OtherItems : st[i].gen = g
  PROVE  Fits(service_start_writes(g), st)
<1>. DEFINE ws == service_start_writes(g)
            k0 == Key(g, 0)
            k1 == Key(g, 1)
            a  == Key(g, cnt)
            d  == Key(g, cnt + 1)
            m1 == <<<<"MASTER_PUBLIC_KEY", k0>>>>
            u4 == <<<<"PRIMARY_SK", k0>>, <<"SECONDARY_SK", k0>>,
                    <<"PRIMARY_KEY_INDEX", a>>, <<"CURRENT_KEYS_INDEX_DIFF", k0>>>>
            l2 == <<<<"CURRENT_KEYS_INDEX_DIFF", d>>, <<"SECONDARY_SK", k1>>>>
<1>1. ws = m1 \o u4 \o l2
  BY KeyType DEF service_start_writes, rotating_key_storage_update
<1>2. k0.gen = g /\ k1.gen = g /\ a.gen = g /\ d.gen = g
  BY KeyType
<1>. HIDE DEF ws, k0, k1, a, d
<1>3. /\ Len(ws) = 7
      /\ ws[1][1] = "MASTER_PUBLIC_KEY" /\ ws[1][2] = k0
      /\ ws[2][1] = "PRIMARY_SK" /\ ws[2][2] = k0 /\ ws[3][1] = "SECONDARY_SK" /\ ws[3][2] = k0
      /\ ws[4][1] = "PRIMARY_KEY_INDEX" /\ ws[4][2] = a
      /\ ws[5][2] = k0 /\ ws[6][2] = d /\ ws[7][2] = k1
  BY <1>1
<1>4. 1..7 = {1, 2, 3, 4, 5, 6, 7} /\ 1..4 = {1, 2, 3, 4} /\ 1..3 = {1, 2, 3} /\ 1..2 = {1, 2}
      /\ 1..1 = {1}
  OBVIOUS
<1>5. \A k \in 1..Len(ws) : ws[k][2].gen = g
  BY <1>2, <1>3, <1>4
<1>6. \A k \in 1..4 : k \in 1..Len(ws) /\ ws[k][1] # DIFF
  BY <1>3, <1>4 DEF DIFF
<1>7. \A k \in 1..4 : \A m \in 1..k : m \in 1..4
  OBVIOUS
<1>8. \A k \in 1..4 : WrittenFirst(ws, ws[k][1])
  BY <1>6, <1>7 DEF WrittenFirst
<1>9. ASSUME NEW i \in ItemIds \ {DIFF} PROVE st[i].gen = g \/ WrittenFirst(ws, i)
  <2>1. i \in OtherItems \/ i \in {"MASTER_PUBLIC_KEY", "PRIMARY_SK", "SECONDARY_SK", "PRIMARY_KEY_INDEX"}
    BY ItemsProperties DEF OtherItems, DIFF
  <2>2. \E k \in 1..4 : i \in OtherItems \/ ws[k][1] = i
    BY <1>3, <1>4, <2>1
  <2>. QED  BY <1>8, <2>2
<1>. QED  BY <1>5, <1>9 DEF Fits, Filling, ws

LEMMA AtIndex ==
  ASSUME NEW n \in Nat
  PROVE  LET at == n - (n % U)
         IN n \div P \in Nat /\ n % U \in Nat /\ at \in Nat /\ at \div P \in Nat
<1>. DEFINE at == n - (n % U)
<1>1. P \in Nat /\ P >= 1 /\ U \in Nat /\ U >= 1
  BY KeyConstants
<1>2. n % U \in Nat /\ n \div U \in Nat /\ n = (U * (n \div U)) + (n % U) /\ n \div P \in Nat
  BY <1>1, Division
<1>3. U * (n \div U) \in Nat
  BY <1>1, <1>2
<1>4. at \in Nat
  BY <1>2, <1>3
<1>. QED  BY <1>1, <1>2, <1>4, Division

(* What the invariant of the keys says of the items, between two jobs. *)
LEMMA KeptItems ==
  ASSUME RestOK, job.writes = <<>>, KeysKept
  PROVE  psk.gen \in Nat \ {0} /\ ssk.gen = psk.gen /\ OfPairing(stored, psk.gen)
<1>. DEFINE g  == psk.gen
            at == psk.n - (psk.n % U)
<1>1. psk.n \in Nat /\ at \in Nat /\ psk.n % U \in Nat /\ at \div P \in Nat /\ psk.n \div P \in Nat
  <2>1. psk.n \in Nat
    BY DEF RestOK, Keys
  <2>. QED  BY <2>1, AtIndex
<1>2. /\ g \in Complete /\ ssk = Key(g, (psk.n \div P) + 1)
      /\ <<"MASTER_PUBLIC_KEY", Key(g, 0)>> \in KeyOutcome
      /\ <<"PRIMARY_SK", Key(g, at)>> \in KeyOutcome
      /\ <<"PRIMARY_KEY_INDEX", Key(g, at)>> \in KeyOutcome
      /\ <<"SECONDARY_SK", Key(g, (at \div P) + 1)>> \in KeyOutcome
      /\ <<"CURRENT_KEYS_INDEX_DIFF", Key(g, psk.n % U)>> \in KeyOutcome
  BY DEF KeysKept, LeadsTo
<1>. HIDE DEF at
<1>3. g \in Nat \ {0} /\ \A i \in OtherItems : \E n \in Nat : <<i, Key(g, n)>> \in Outcome
  BY <1>2 DEF Complete
<1>4. ssk.gen = g
  BY <1>1, <1>2, <1>3, KeyType
<1>5. \A i \in KeyItems : \E n \in Nat : <<i, Key(g, n)>> \in Outcome
  <2>1. KeyOutcome \subseteq Outcome
    BY DEF KeyOutcome
  <2>. QED  BY <1>1, <1>2, <2>1 DEF KeyItems
<1>6. ASSUME NEW i \in ItemIds PROVE stored[i].gen = g
  <2>1. i \in OtherItems \/ i \in KeyItems
    BY ItemsProperties DEF OtherItems, KeyItems
  <2>2. PICK n \in Nat : <<i, Key(g, n)>> \in Outcome
    BY <1>3, <1>5, <2>1
  <2>3. Key(g, n) \in Keys /\ Key(g, n).gen = g
    BY <1>3, KeyType
  <2>. QED  BY <2>2, <2>3, StoredIs
<1>. QED  BY <1>3, <1>4, <1>6 DEF OfPairing

LEMMA ErasedItems ==
  ASSUME job.writes = <<>>, Erased
  PROVE  \A i \in KeyItems : stored[i] = None
BY KeyOutcomeIs, NoneType DEF Erased

LEMMA KeysEither ==
  ASSUME RestOK, job.writes = <<>>, KeysOK
  PROVE  Missing(stored) \/ \E g \in Nat \ {0} : OfPairing(stored, g)
<1>1. is_paired \/ state = "UNPAIRED" \/ state = "DISABLED"
  BY DEF is_paired
<1>2. KeysKept \/ Erased
  BY <1>1 DEF KeysOK
<1>. QED  BY <1>2, KeptItems, ErasedItems, DiffIsKey DEF Missing

FlashFits == torn = 0 => Fits(job.writes, stored)

(* Every job starts where the flash fits what it is going to write. *)
LEMMA FlashStep ==
  ASSUME OrderInv, Commanded, KeysInv, FlashFits, [Next]_vars
  PROVE  FlashFits'
<1>. SUFFICES ASSUME torn' = 0 PROVE Fits(job'.writes, stored')
  BY DEF FlashFits
<1>1. CASE QuietStep
  <2>1. Fits(job.writes, stored)
    BY <1>1 DEF QuietStep, FlashFits
  <2>. QED  BY <1>1, <2>1, FitsStored, OrderFacts DEF QuietStep
<1>2. CASE CounterStep
  <2>1. KeysOK /\ job.writes = <<>> /\ stored' = stored
    BY <1>2 DEF CounterStep, KeysInv
  <2>2. PICK c \in Keys : c.gen = counter.gen /\ job'.writes = <<<<"SN_QUERY_COUNTER", c>>>>
    BY <1>2 DEF CounterStep
  <2>. QED  BY <2>1, <2>2, KeysEither, OneFits, OrderFacts DEF counter
<1>3. CASE TornStep
  BY <1>3, TornOff
<1>4. CASE key_rotation_work_handle
  <2>. DEFINE index == cnt + 1
              s == IF secondary_key_is_outdated(index) THEN Roll(ssk) ELSE ssk
  <2>1. /\ Idle /\ stored' = stored /\ torn' = torn
        /\ Running("keys") /\ PostOn(Tail(workq), <<>>)
        /\ job'.writes = rotation_writes(Roll(psk), s, index)
    BY <1>4, Zenon DEF key_rotation_work_handle, Start, envVars
  <2>2. is_paired /\ torn = 0
    <3>1. Queued(workq, "keys")
      BY <2>1, Ran, OrderFacts
    <3>. QED  BY <2>1, <3>1 DEF OrderInv, JobOrder, RotationDue
  <2>3. KeysKept /\ job.writes = <<>>
    BY <2>1, <2>2, IdleWrites DEF KeysInv, KeysOK
  <2>4. psk.gen \in Nat \ {0} /\ ssk.gen = psk.gen /\ OfPairing(stored, psk.gen)
    BY <2>3, KeptItems, OrderFacts
  <2>5. psk \in Keys /\ ssk \in Keys /\ cnt \in Nat
    BY OrderFacts DEF RestOK
  <2>6. Roll(psk) \in Keys /\ Roll(psk).gen = psk.gen /\ s \in Keys /\ s.gen = psk.gen
    BY <2>4, <2>5, RollType
  <2>7. index \in Nat
    BY <2>5
  <2>. HIDE DEF s, index
  <2>. QED  BY <2>1, <2>4, <2>6, <2>7, UpdateFits
<1>5. CASE owner_unpaired /\ UNCHANGED snVars
  <2>1. /\ Idle /\ torn = 0 /\ stored' = stored
        /\ job'.writes = fmna_storage_pairing_data_delete
    BY <1>5 DEF owner_unpaired, Start
  <2>. QED  BY <2>1, IdleWrites, KeysEither, DeleteFits, OrderFacts DEF KeysInv
<1>6. CASE fmna_factory_reset
  <2>1. /\ Idle /\ torn = 0 /\ stored' = stored
        /\ job'.writes = fmna_storage_pairing_data_delete
    BY <1>6 DEF fmna_factory_reset, Start, envVars
  <2>. QED  BY <2>1, IdleWrites, KeysEither, DeleteFits, OrderFacts DEF KeysInv
<1>7. CASE finalize_pairing_cmd_handle /\ UNCHANGED snVars
  <2>. DEFINE k == Key(pairing + 1, 0)
  <2>1. /\ Idle /\ torn = 0 /\ stored' = stored
        /\ job'.writes = <<<<"SERVER_SHARED_SECRET", k>>, <<"SN_QUERY_COUNTER", k>>,
                           <<"ICLOUD_ID", k>>>>
    BY <1>7 DEF finalize_pairing_cmd_handle, Start
  <2>2. state = "UNPAIRED"
    BY <1>7, OrderFinalize
  <2>3. Missing(stored)
    BY <2>1, <2>2, IdleWrites, ErasedItems, DiffIsKey DEF KeysInv, KeysOK, Missing
  <2>. HIDE DEF k
  <2>. QED  BY <2>1, <2>3, FinalizeFits
<1>8. CASE pairing_complete_cmd_handle /\ UNCHANGED snVars
  <2>. DEFINE g == pairing
  <2>1. /\ Idle /\ Handling("PAIRING_COMPLETE") /\ torn = 0 /\ stored' = stored
        /\ job'.writes = service_start_writes(g)
    BY <1>8 DEF pairing_complete_cmd_handle, Start
  <2>2. state = "UNPAIRED"
    BY <1>8, OrderComplete
  <2>3. Finalized
    <3>1. "PAIRING_COMPLETE" \in WaitingIds
      BY <1>8, Handled, PostEmpty, StateEvent, WaitingAs, OrderFacts
      DEF pairing_complete_cmd_handle
    <3>. QED  BY <2>2, <3>1 DEF Finalized
  <2>4. g \in Complete /\ Erased /\ job.writes = <<>>
    BY <2>1, <2>2, <2>3, IdleWrites DEF KeysInv, KeysOK
  <2>5. stored[DIFF] = None
    BY <2>4, ErasedItems, DiffIsKey
  <2>6. g \in Nat \ {0} /\ \A i \in OtherItems : stored[i].gen = g
    <3>1. g \in Nat \ {0} /\ \A i \in OtherItems : \E n \in Nat : <<i, Key(g, n)>> \in Outcome
      BY <2>4 DEF Complete
    <3>2. ASSUME NEW i \in OtherItems PROVE stored[i].gen = g
      <4>1. PICK n \in Nat : <<i, Key(g, n)>> \in Outcome
        BY <3>1
      <4>2. Key(g, n) \in Keys /\ Key(g, n).gen = g /\ i \in ItemIds
        BY <3>1, KeyType, ItemsProperties DEF OtherItems
      <4>. QED  BY <2>4, <4>1, <4>2, StoredIs
    <3>. QED  BY <3>1, <3>2
  <2>7. cnt \in Nat
    BY OrderFacts DEF RestOK
  <2>. QED  BY <2>1, <2>5, <2>6, <2>7, StartFits
<1>9. CASE fmna_enable
  <2>1. UNCHANGED <<stored, job, torn>>
    BY <1>9, Zenon DEF fmna_enable
  <2>. QED  BY <2>1 DEF FlashFits
<1>. QED
  BY <1>1, <1>2, <1>3, <1>4, <1>5, <1>6, <1>7, <1>8, <1>9, FlashSteps, Zenon

(* What the flash will hold of a pairing once the job is done. *)
KeysOf(g) == \A i \in KeyItems : \E n \in Nat : <<i, Key(g, n)>> \in KeyOutcome
LacksKey  == \E i \in KeyItems : <<i, None>> \in KeyOutcome

PairInv ==
  /\ Finalized => pairing \in Complete
  /\ is_paired => psk.gen \in Complete /\ ssk.gen = psk.gen /\ KeysOf(psk.gen)
  /\ state = "UNPAIRED" => LacksKey
  /\ state = "DISABLED" => LacksKey \/ \E g \in Complete : KeysOf(g)

LEMMA PairStep ==
  ASSUME Commanded, PairInv, UNCHANGED <<psk, ssk, pairing>>,
         KeyOutcome \subseteq KeyOutcome', Complete \subseteq Complete',
         is_paired' => is_paired,
         state' = "UNPAIRED" => state = "UNPAIRED",
         link' = "finalized" => link = "finalized" \/ job.then = "finalized",
         job'.then = "finalized" => job.then = "finalized"
  PROVE  PairInv'
<1>1. Finalized' => Finalized
  BY DEF Finalized, Commanded
<1>2. \A g : KeysOf(g) => KeysOf(g)'
  BY DEF KeysOf
<1>3. LacksKey => LacksKey'
  BY DEF LacksKey
<1>4. is_paired \/ state = "UNPAIRED" \/ state = "DISABLED"
  BY DEF is_paired
<1>. QED  BY <1>1, <1>2, <1>3, <1>4 DEF PairInv

LEMMA PairQuiet ==
  ASSUME OrderInv, Commanded, PairInv, QuietStep
  PROVE  PairInv'
<1>1. KeyOutcome \subseteq KeyOutcome' /\ Complete \subseteq Complete'
  BY QuietOutcome, OutcomeGrows, OrderFacts
<1>. QED  BY <1>1, PairStep DEF QuietStep

LEMMA PairCounted ==
  ASSUME OrderInv, Commanded, PairInv, CounterStep
  PROVE  PairInv'
<1>1. KeyOutcome \subseteq KeyOutcome' /\ Complete \subseteq Complete'
  BY CounterKept, OrderFacts DEF CounterStep
<1>. QED  BY <1>1, PairStep DEF CounterStep, is_paired

(* An item of a pairing stays one when it is not written, or written anew. *)
LEMMA KeysOfNext ==
  ASSUME job.writes = <<>>, NEW g \in Nat, KeysOf(g),
         \A i \in KeyItems :
           \/ \A v : stored[i] = v => Ends(job'.writes, stored', i, v)
           \/ \E n \in Nat : Ends(job'.writes, stored', i, Key(g, n))
  PROVE  KeysOf(g)'
<1>. SUFFICES ASSUME NEW i \in KeyItems PROVE \E n \in Nat : <<i, Key(g, n)>> \in KeyOutcome'
  BY DEF KeysOf
<1>1. PICK n \in Nat : <<i, Key(g, n)>> \in KeyOutcome
  BY DEF KeysOf
<1>2. stored[i] = Key(g, n)
  BY <1>1, KeyType, KeyOutcomeIs
<1>3. \E m \in Nat : Ends(job'.writes, stored', i, Key(g, m))
  BY <1>2
<1>. QED  BY <1>3, KeyType, KeyOutcomeIs

LEMMA PairRotation ==
  ASSUME OrderInv, Commanded, PairInv, key_rotation_work_handle
  PROVE  PairInv'
<1>. DEFINE index == cnt + 1
            s  == IF secondary_key_is_outdated(index) THEN Roll(ssk) ELSE ssk
            ws == rotation_writes(Roll(psk), s, index)
<1>0. PICK g \in Nat : g = psk.gen
  BY OrderFacts DEF RestOK, Keys
<1>1. /\ Idle /\ UNCHANGED envVars /\ stored' = stored
      /\ Running("keys") /\ PostOn(Tail(workq), <<>>)
      /\ psk' = Roll(psk) /\ ssk' = s
      /\ job'.writes = ws /\ job'.then = "rotated"
  BY Zenon DEF key_rotation_work_handle, Start
<1>2. is_paired /\ is_paired' /\ ~Finalized' /\ state' # "UNPAIRED" /\ state' # "DISABLED"
  <2>1. Queued(workq, "keys")
    BY <1>1, Ran, OrderFacts
  <2>2. is_paired
    BY <2>1 DEF OrderInv, JobOrder, RotationDue
  <2>. QED  BY <1>1, <2>2 DEF envVars, is_paired, Finalized
<1>3. g \in Complete /\ ssk.gen = g /\ KeysOf(g) /\ g \in Nat /\ job.writes = <<>>
  BY <1>0, <1>1, <1>2, IdleWrites DEF PairInv
<1>4. psk \in Keys /\ ssk \in Keys /\ index \in Nat
  BY OrderFacts DEF RestOK
<1>5. /\ Roll(psk) \in Keys /\ Roll(psk).gen = g /\ s \in Keys /\ s.gen = g
      /\ Roll(psk) = Key(g, Roll(psk).n) /\ Roll(psk).n \in Nat /\ s = Key(g, s.n) /\ s.n \in Nat
  BY <1>0, <1>3, <1>4, RollType, KeyEta
<1>. HIDE DEF index, s, ws
<1>6. index % U \in Nat
  BY <1>4, KeyConstants
<1>7. OtherItems \subseteq ItemIds /\ DIFF \notin OtherItems /\ DIFF \in ItemIds
  BY ItemsProperties DEF OtherItems, DIFF
<1>8. CASE index % U # 0
  <2>1. ws = <<<<DIFF, Key(g, index % U)>>>>
    BY <1>5, <1>8 DEF rotation_writes, ws, DIFF
  <2>2. /\ Ends(ws, stored, DIFF, Key(g, index % U))
        /\ \A i \in ItemIds \ {DIFF} : \A v : Ends(ws, stored, i, v) <=> stored[i] = v
    BY <1>7, <2>1, AfterOne
  <2>3. Complete \subseteq Complete'
    BY <1>1, <1>3, <1>7, <2>2, OthersKept
  <2>4. KeysOf(g)'
    <3>1. \A i \in KeyItems : \/ \A v : stored[i] = v => Ends(job'.writes, stored', i, v)
                              \/ \E n \in Nat : Ends(job'.writes, stored', i, Key(g, n))
      BY <1>1, <1>6, <2>2, DiffIsKey
    <3>. QED  BY <1>3, <3>1, KeysOfNext
  <2>. QED  BY <1>1, <1>2, <1>3, <1>5, <2>3, <2>4 DEF PairInv
<1>9. CASE index % U = 0
  <2>1. ws = rotating_key_storage_update(Roll(psk), s, index)
    BY <1>9 DEF rotation_writes, ws
  <2>2. /\ Ends(ws, stored, "PRIMARY_SK", Key(g, Roll(psk).n))
        /\ Ends(ws, stored, "SECONDARY_SK", Key(g, s.n))
        /\ Ends(ws, stored, "PRIMARY_KEY_INDEX", Key(g, index))
        /\ Ends(ws, stored, "CURRENT_KEYS_INDEX_DIFF", Key(g, 0))
        /\ \A v : /\ Ends(ws, stored, "MASTER_PUBLIC_KEY", v) <=> stored["MASTER_PUBLIC_KEY"] = v
                  /\ \A i \in OtherItems : Ends(ws, stored, i, v) <=> stored[i] = v
    BY <1>5, <2>1, AfterUpdate DEF OtherItems
  <2>3. Complete \subseteq Complete'
    BY <1>1, <1>3, <2>2, OthersKept
  <2>4. KeysOf(g)'
    <3>1. \A i \in KeyItems : \/ \A v : stored[i] = v => Ends(job'.writes, stored', i, v)
                              \/ \E n \in Nat : Ends(job'.writes, stored', i, Key(g, n))
      BY <1>1, <1>4, <1>5, <2>2 DEF KeyItems
    <3>. QED  BY <1>3, <3>1, KeysOfNext
  <2>. QED  BY <1>1, <1>2, <1>3, <1>5, <2>3, <2>4 DEF PairInv
<1>. QED  BY <1>8, <1>9

LEMMA ErasedLacks == Erased' => LacksKey'
BY DiffIsKey DEF Erased, LacksKey

(* An accessory that is unpaired has no pairing to complete. *)
LEMMA Unpaired ==
  ASSUME OrderInv, Commanded, owner_unpaired, UNCHANGED snVars
  PROVE  /\ state' = "UNPAIRED" /\ ~is_paired' /\ ~Finalized'
         /\ job'.writes = fmna_storage_pairing_data_delete
<1>1. /\ Handling("PEER_DISCONNECTED") /\ state' = "UNPAIRED" /\ job'.then = "unpaired"
      /\ job'.writes = fmna_storage_pairing_data_delete
      /\ UNCHANGED <<workq, events, link>>
  BY DEF owner_unpaired, Start
<1>2. is_paired /\ state # "UNPAIRED"
  <2>1. is_paired
    BY OrderUnpaired
  <2>. QED  BY <2>1 DEF is_paired
<1>3. ~Finalized'
  <2>1. "PEER_DISCONNECTED" \in WaitingIds
    BY <1>1, Handled, PostEmpty, WaitingAs, OrderFacts
  <2>2. link = "down" /\ "PAIRING_COMPLETE" \notin WaitingIds
    BY <1>2, <2>1 DEF OrderInv, LinkOrder, PairingCommands
  <2>. QED  BY <1>1, <1>2, <2>2 DEF Finalized, Commanded
<1>. QED  BY <1>1, <1>3 DEF is_paired

LEMMA PairUnpaired ==
  ASSUME OrderInv, Commanded, owner_unpaired, UNCHANGED snVars
  PROVE  PairInv'
<1>1. state' = "UNPAIRED" /\ ~is_paired' /\ ~Finalized'
      /\ job'.writes = fmna_storage_pairing_data_delete
  BY Unpaired
<1>. QED  BY <1>1, ErasedBy, ErasedLacks DEF PairInv

LEMMA PairErased ==
  ASSUME OrderInv, fmna_factory_reset
  PROVE  PairInv'
<1>1. state = "DISABLED" /\ state' = state /\ job'.writes = fmna_storage_pairing_data_delete
  BY DEF fmna_factory_reset, Start, envVars, OrderInv, ReadyOrder
<1>. QED  BY <1>1, ErasedBy, ErasedLacks DEF PairInv, is_paired, Finalized

LEMMA PairFinalize ==
  ASSUME OrderInv, Commanded, PairInv, finalize_pairing_cmd_handle, UNCHANGED snVars
  PROVE  PairInv'
<1>. DEFINE g  == pairing + 1
            k  == Key(g, 0)
            ws == <<<<"SERVER_SHARED_SECRET", k>>, <<"SN_QUERY_COUNTER", k>>,
                    <<"ICLOUD_ID", k>>>>
<1>1. /\ Idle /\ pairing' = g /\ job'.writes = ws /\ UNCHANGED <<state, stored>>
  BY DEF finalize_pairing_cmd_handle, Start
<1>2. state = "UNPAIRED" /\ ~is_paired' /\ job.writes = <<>> /\ LacksKey
  <2>1. state = "UNPAIRED"
    BY OrderFinalize
  <2>. QED  BY <1>1, <2>1, IdleWrites DEF is_paired, PairInv
<1>3. g \in Nat \ {0} /\ k \in Keys
  BY OrderFacts, KeyType DEF RestOK
<1>4. /\ \A i \in OtherItems : Ends(ws, stored, i, k)
      /\ \A v : \A i \in KeyItems : Ends(ws, stored, i, v) <=> stored[i] = v
  BY AfterFinalize DEF OtherItems, KeyItems
<1>. HIDE DEF ws, k
<1>5. g \in Complete'
  <2>1. \A i \in OtherItems : i \in ItemIds
    BY ItemsProperties DEF OtherItems
  <2>2. \A i \in OtherItems : <<i, k>> \in Outcome'
    BY <1>1, <1>3, <1>4, <2>1, OutcomeAfter
  <2>. QED  BY <1>3, <2>2 DEF Complete, k
<1>6. LacksKey'
  <2>1. PICK i \in KeyItems : <<i, None>> \in KeyOutcome
    BY <1>2 DEF LacksKey
  <2>2. <<i, None>> \in KeyOutcome'
    BY <1>1, <1>2, <1>4, <2>1, NoneType, KeyOutcomeIs
  <2>. QED  BY <2>2 DEF LacksKey
<1>. QED  BY <1>1, <1>2, <1>5, <1>6 DEF PairInv

LEMMA PairComplete ==
  ASSUME OrderInv, Commanded, PairInv, pairing_complete_cmd_handle, UNCHANGED snVars
  PROVE  PairInv'
<1>0. PICK g \in Nat : g = pairing
  BY OrderFacts DEF RestOK
<1>. DEFINE ws == service_start_writes(g)
<1>1. /\ Idle /\ state' = "CONNECTED"
      /\ job'.writes = ws /\ psk' = Key(g, 1) /\ ssk' = Key(g, 1) /\ UNCHANGED <<stored, pairing>>
  BY <1>0 DEF pairing_complete_cmd_handle, Start
<1>2. state = "UNPAIRED" /\ is_paired' /\ ~Finalized' /\ job.writes = <<>>
  <2>1. state = "UNPAIRED"
    BY OrderComplete
  <2>. QED  BY <1>1, <2>1, IdleWrites DEF is_paired, Finalized
<1>3. Finalized
  <2>1. "PAIRING_COMPLETE" \in WaitingIds
    BY Handled, PostEmpty, StateEvent, WaitingAs, OrderFacts
    DEF pairing_complete_cmd_handle
  <2>. QED  BY <1>2, <2>1 DEF Finalized
<1>4. g \in Complete /\ cnt \in Nat
  BY <1>0, <1>3, OrderFacts DEF PairInv, RestOK
<1>5. /\ Ends(ws, stored, "MASTER_PUBLIC_KEY", Key(g, 0))
      /\ Ends(ws, stored, "PRIMARY_SK", Key(g, 0)) /\ Ends(ws, stored, "SECONDARY_SK", Key(g, 1))
      /\ Ends(ws, stored, "PRIMARY_KEY_INDEX", Key(g, cnt))
      /\ Ends(ws, stored, "CURRENT_KEYS_INDEX_DIFF", Key(g, cnt + 1))
      /\ \A v : \A i \in OtherItems : Ends(ws, stored, i, v) <=> stored[i] = v
  BY <1>4, AfterStart DEF OtherItems
<1>. HIDE DEF ws
<1>6. Complete \subseteq Complete'
  BY <1>1, <1>2, <1>5, OthersKept
<1>7. KeysOf(g)'
  <2>1. \A i \in KeyItems : \E n \in Nat : Ends(ws, stored, i, Key(g, n))
    BY <1>4, <1>5 DEF KeyItems
  <2>. QED  BY <1>1, <1>4, <2>1, KeyType, KeyOutcomeIs DEF KeysOf
<1>8. Key(g, 1).gen = g
  BY <1>4, KeyType
<1>. QED  BY <1>1, <1>2, <1>4, <1>6, <1>7, <1>8 DEF PairInv

(* What a restart finds between two jobs. *)
LEMMA WholeStored ==
  ASSUME job.writes = <<>>, NEW g \in Complete, KeysOf(g)
  PROVE  g \in Nat \ {0} /\ OfPairing(stored, g) /\ fmna_storage_pairing_data_check
<1>1. g \in Nat \ {0} /\ \A i \in OtherItems : \E n \in Nat : <<i, Key(g, n)>> \in Outcome
  BY DEF Complete
<1>2. \A i \in KeyItems : \E n \in Nat : <<i, Key(g, n)>> \in Outcome
  BY DEF KeysOf, KeyOutcome
<1>3. ASSUME NEW i \in ItemIds PROVE stored[i].gen = g
  <2>1. i \in OtherItems \/ i \in KeyItems
    BY ItemsProperties DEF OtherItems, KeyItems
  <2>2. PICK n \in Nat : <<i, Key(g, n)>> \in Outcome
    BY <1>1, <1>2, <2>1
  <2>3. Key(g, n) \in Keys /\ Key(g, n).gen = g
    BY <1>1, KeyType
  <2>. QED  BY <2>2, <2>3, StoredIs
<1>. QED  BY <1>1, <1>3, NoneType DEF OfPairing, fmna_storage_pairing_data_check

LEMMA LacksKeyStored ==
  ASSUME job.writes = <<>>, LacksKey
  PROVE  ~fmna_storage_pairing_data_check
BY KeyOutcomeIs, NoneType DEF LacksKey, fmna_storage_pairing_data_check

(* What the loss of power leaves. *)
LEMMA LeftWhole ==
  ASSUME stored' \in [ItemIds -> Keys], job'.writes = <<>>, NEW g \in Nat \ {0},
         OfPairing(stored', g)
  PROVE  g \in Complete' /\ KeysOf(g)'
<1>1. \A i \in ItemIds : /\ stored'[i] \in Keys /\ stored'[i] = Key(g, stored'[i].n)
                         /\ stored'[i].n \in Nat
  BY KeyEta DEF OfPairing
<1>2. \A i \in ItemIds : <<i, Key(g, stored'[i].n)>> \in Outcome'
  BY <1>1, OutcomeAfter, NothingWritten
<1>3. OtherItems \subseteq ItemIds
  BY ItemsProperties DEF OtherItems
<1>. QED  BY <1>1, <1>2, <1>3, DiffIsKey DEF Complete, KeysOf, KeyOutcome

LEMMA LeftMissing ==
  ASSUME job'.writes = <<>>, Missing(stored')
  PROVE  LacksKey'
BY KeyOutcomeIs, NoneType, NothingWritten DEF Missing, LacksKey

LEMMA PairEnabled ==
  ASSUME OrderInv, Commanded, PairInv, fmna_enable
  PROVE  PairInv'
<1>. DEFINE paired == fmna_storage_pairing_data_check
<1>1. /\ Idle /\ ~ready /\ link = "down"
      /\ state' = IF paired THEN "SEPARATED" ELSE "UNPAIRED"
      /\ IF paired THEN paired_state_restore ELSE UNCHANGED keyVars
      /\ UNCHANGED <<link, pairing, stored, job>>
  BY Zenon DEF fmna_enable
<1>2. /\ state = "DISABLED" /\ job.writes = <<>> /\ job.then = "none" /\ Outcome' = Outcome
      /\ "PAIRING_COMPLETE" \notin WaitingIds
  BY <1>1, IdleWrites, OutcomeSame DEF OrderInv, ReadyOrder, LinkOrder, PeerIds, LinkWrites
<1>3. ~Finalized'
  BY <1>1, <1>2 DEF Finalized, Commanded
<1>4. KeyOutcome' = KeyOutcome /\ Complete' = Complete
  BY <1>2 DEF KeyOutcome, Complete
<1>5. LacksKey \/ \E g \in Complete : KeysOf(g)
  BY <1>2 DEF PairInv
<1>6. CASE paired
  <2>1. PICK g \in Complete : KeysOf(g)
    BY <1>2, <1>5, <1>6, LacksKeyStored
  <2>2. g \in Nat \ {0} /\ OfPairing(stored, g)
    BY <1>2, <2>1, WholeStored
  <2>3. psk' = restored_psk /\ ssk' = restored_secondary
    BY <1>1, <1>6 DEF paired_state_restore
  <2>4. psk'.gen = g /\ ssk'.gen = g
    <3>1. stored["PRIMARY_SK"].gen = g /\ stored["SECONDARY_SK"].gen = g
      BY <2>2, ItemsProperties DEF OfPairing
    <3>2. restored_psk.gen = stored["PRIMARY_SK"].gen
          /\ restored_secondary.gen = stored["SECONDARY_SK"].gen
      BY RestoredType, OrderFacts
    <3>. QED  BY <2>3, <3>1, <3>2
  <2>5. KeysOf(g)'
    BY <1>4, <2>1 DEF KeysOf
  <2>6. state' # "UNPAIRED" /\ state' # "DISABLED"
    BY <1>1, <1>6
  <2>. QED  BY <1>3, <1>4, <2>1, <2>4, <2>5, <2>6 DEF PairInv
<1>7. CASE ~paired
  <2>1. LacksKey
    BY <1>2, <1>5, <1>7, WholeStored
  <2>2. LacksKey'
    BY <1>4, <2>1 DEF LacksKey
  <2>. QED  BY <1>1, <1>3, <1>7, <2>2 DEF PairInv, is_paired
<1>. QED  BY <1>6, <1>7

LEMMA PairTorn ==
  ASSUME MaxTorn <= 1, OrderInv, FlashFits, TornStep
  PROVE  PairInv'
<1>1. /\ state' = "DISABLED" /\ ~is_paired' /\ ~Finalized' /\ torn < MaxTorn
      /\ job'.writes = <<>> /\ stored' = stored
  BY TornOff
<1>2. torn = 0 /\ stored \in [ItemIds -> Keys]
  BY <1>1, OrderFacts, KeysAssumption DEF RestOK
<1>3. Missing(stored') \/ \E g \in Nat \ {0} : OfPairing(stored', g)
  BY <1>1, <1>2, FitsEither DEF FlashFits
<1>4. LacksKey' \/ \E g \in Complete' : KeysOf(g)'
  BY <1>1, <1>2, <1>3, LeftWhole, LeftMissing
<1>. QED  BY <1>1, <1>4 DEF PairInv

LEMMA PairNext ==
  ASSUME MaxTorn <= 1, OrderInv, Commanded, KeysInv, FlashFits, PairInv, [Next]_vars
  PROVE  PairInv'
<1>1. CASE QuietStep
  BY <1>1, PairQuiet
<1>2. CASE CounterStep
  BY <1>2, PairCounted
<1>3. CASE TornStep
  BY <1>3, PairTorn
<1>4. CASE key_rotation_work_handle
  BY <1>4, PairRotation
<1>5. CASE owner_unpaired /\ UNCHANGED snVars
  BY <1>5, PairUnpaired
<1>6. CASE finalize_pairing_cmd_handle /\ UNCHANGED snVars
  BY <1>6, PairFinalize
<1>7. CASE pairing_complete_cmd_handle /\ UNCHANGED snVars
  BY <1>7, PairComplete
<1>8. CASE fmna_factory_reset
  BY <1>8, PairErased
<1>9. CASE fmna_enable
  BY <1>9, PairEnabled
<1>. QED
  BY <1>1, <1>2, <1>3, <1>4, <1>5, <1>6, <1>7, <1>8, <1>9, FlashSteps, Zenon

LEMMA PairInitially == Init => FlashFits /\ PairInv
<1>. SUFFICES ASSUME Init PROVE FlashFits /\ PairInv
  OBVIOUS
<1>1. /\ state = "DISABLED" /\ stored = [i \in ItemIds |-> None] /\ job = NoJob
  BY DEF Init, KeysInit
<1>2. job.writes = <<>> /\ job.then = "none"
  BY <1>1, NoJobType
<1>3. stored[DIFF] = None
  BY <1>1, DiffIsKey
<1>4. Missing(stored)
  BY <1>3, DiffIsKey DEF Missing
<1>5. LacksKey
  BY <1>2, <1>3, DiffIsKey, NoneType, KeyOutcomeIs DEF LacksKey
<1>6. Fits(job.writes, stored)
  BY <1>2, <1>4, NothingFits
<1>. QED  BY <1>1, <1>5, <1>6 DEF PairInv, FlashFits, is_paired, Finalized

(* A pairing that is restored is one pairing, wherever power was lost among *)
(* the writes that erase or store it, when that has happened once.          *)
THEOREM RestoredIsOne ==
  ASSUME InTime, MaxTorn <= 1
  PROVE  Spec => []OnePairingRestored
<1>1. OrderInv /\ KeysInv /\ FlashFits /\ PairInv /\ [Next]_vars => FlashFits' /\ PairInv'
  <2>. SUFFICES ASSUME OrderInv, KeysInv, FlashFits, PairInv, [Next]_vars
                PROVE  FlashFits' /\ PairInv'
    OBVIOUS
  <2>1. Commanded
    BY OrderNext, OrderStutters
  <2>. QED  BY <2>1, FlashStep, PairNext
<1>2. OrderInv /\ PairInv => OnePairingRestored
  <2>. SUFFICES ASSUME OrderInv, PairInv, is_paired, Idle,
                       NEW i \in DOMAIN OnePairing, NEW j \in DOMAIN OnePairing
                PROVE  OnePairing[i] = OnePairing[j]
    BY DEF OnePairingRestored
  <2>. DEFINE g == psk.gen
  <2>1. OfPairing(stored, g)
    BY IdleWrites, WholeStored DEF PairInv
  <2>. HIDE DEF g
  <2>2. OnePairing = <<g, g, g, g, g, g, g, g>>
    BY <2>1, ItemsProperties DEF OnePairing, OfPairing
  <2>3. \A k \in 1..8 : OnePairing[k] = g
    <3>1. 1..8 = {1, 2, 3, 4, 5, 6, 7, 8}
      OBVIOUS
    <3>. QED  BY <2>2, <3>1
  <2>4. DOMAIN OnePairing = 1..8
    BY <2>2
  <2>. QED  BY <2>3, <2>4
<1>. QED  BY <1>1, <1>2, PairInitially, KeysAreInvariant, OrderIsInvariant, PTL DEF Spec

-----------------------------------------------------------------------------
(* The tag: a paired accessory has what the payload of the tag is made of.  *)

TagItems == {"SN_QUERY_COUNTER", "SERVER_SHARED_SECRET"}
Signed   == \A i \in TagItems : \E v \in Keys \ {None} : <<i, v>> \in Outcome
SignedInv == is_paired \/ Finalized => Signed

LEMMA TagItemsOther == TagItems \subseteq OtherItems /\ TagItems \subseteq ItemIds
BY ItemsProperties DEF TagItems, OtherItems

LEMMA SignedGrows ==
  ASSUME Signed, Outcome \subseteq Outcome'
  PROVE  Signed'
BY DEF Signed

(* The items of the tag are not written. *)
LEMMA SignedKept ==
  ASSUME Signed, job.writes = <<>>,
         \A i \in OtherItems : \A v \in Keys : stored[i] = v => Ends(job'.writes, stored', i, v)
  PROVE  Signed'
<1>. SUFFICES ASSUME NEW i \in TagItems PROVE \E v \in Keys \ {None} : <<i, v>> \in Outcome'
  BY DEF Signed
<1>1. PICK v \in Keys \ {None} : <<i, v>> \in Outcome
  BY DEF Signed
<1>2. i \in ItemIds /\ i \in OtherItems /\ v \in Keys
  BY TagItemsOther
<1>3. stored[i] = v
  BY <1>1, <1>2, StoredIs
<1>4. <<i, v>> \in Outcome'
  BY <1>2, <1>3, OutcomeAfter
<1>. QED  BY <1>4

LEMMA RotationOthers ==
  ASSUME RestOK, key_rotation_work_handle
  PROVE  \A i \in OtherItems : \A v \in Keys : stored[i] = v => Ends(job'.writes, stored', i, v)
<1>. DEFINE index == cnt + 1
            p  == Roll(psk)
            s  == IF secondary_key_is_outdated(index) THEN Roll(ssk) ELSE ssk
            ws == rotation_writes(p, s, index)
<1>1. stored' = stored /\ job'.writes = ws
  BY Zenon DEF key_rotation_work_handle, Start
<1>. HIDE DEF index, p, s
<1>2. OtherItems \subseteq ItemIds /\ DIFF \notin OtherItems /\ DIFF \in ItemIds
  BY ItemsProperties DEF OtherItems, DIFF
<1>3. CASE index % U # 0
  <2>1. ws = <<<<DIFF, Key(p.gen, index % U)>>>>
    BY <1>3 DEF rotation_writes, DIFF
  <2>2. \A i \in ItemIds \ {DIFF} : \A v : Ends(ws, stored, i, v) <=> stored[i] = v
    BY <1>2, <2>1, AfterOne
  <2>. QED  BY <1>1, <1>2, <2>2
<1>4. CASE index % U = 0
  <2>1. ws = rotating_key_storage_update(p, s, index)
    BY <1>4 DEF rotation_writes
  <2>. HIDE DEF ws
  <2>2. /\ Ends(ws, stored, "PRIMARY_SK", p) /\ Ends(ws, stored, "SECONDARY_SK", s)
        /\ Ends(ws, stored, "PRIMARY_KEY_INDEX", Key(p.gen, index))
        /\ Ends(ws, stored, "CURRENT_KEYS_INDEX_DIFF", Key(p.gen, 0))
        /\ \A v : /\ Ends(ws, stored, "MASTER_PUBLIC_KEY", v) <=> stored["MASTER_PUBLIC_KEY"] = v
                  /\ \A i \in OtherItems : Ends(ws, stored, i, v) <=> stored[i] = v
    BY <2>1, AfterUpdate DEF OtherItems
  <2>. QED  BY <1>1, <2>2
<1>. QED  BY <1>3, <1>4

LEMMA SignedCounted ==
  ASSUME OrderInv, Commanded, SignedInv, CounterStep
  PROVE  SignedInv'
<1>1. is_paired' = is_paired /\ (Finalized' => Finalized)
  BY DEF CounterStep, is_paired, Finalized, Commanded
<1>. SUFFICES ASSUME Signed PROVE Signed'
  BY <1>1 DEF SignedInv
<1>2. PICK c \in Keys : c # None /\ job'.writes = <<<<"SN_QUERY_COUNTER", c>>>>
  BY DEF CounterStep
<1>3. job.writes = <<>> /\ stored' = stored /\ "SN_QUERY_COUNTER" \in ItemIds
  BY TagItemsOther DEF CounterStep, TagItems
<1>. DEFINE ws == <<<<"SN_QUERY_COUNTER", c>>>>
<1>4. /\ Ends(ws, stored, "SN_QUERY_COUNTER", c)
      /\ \A i \in ItemIds \ {"SN_QUERY_COUNTER"} : \A v : Ends(ws, stored, i, v) <=> stored[i] = v
  BY <1>3, AfterOne
<1>. HIDE DEF ws
<1>5. job'.writes = ws
  BY <1>2 DEF ws
<1>. SUFFICES ASSUME NEW i \in TagItems PROVE \E v \in Keys \ {None} : <<i, v>> \in Outcome'
  BY DEF Signed
<1>6. CASE i = "SN_QUERY_COUNTER"
  BY <1>2, <1>3, <1>4, <1>5, <1>6, OutcomeAfter
<1>7. CASE i # "SN_QUERY_COUNTER"
  <2>1. PICK v \in Keys \ {None} : <<i, v>> \in Outcome
    BY DEF Signed
  <2>2. i \in ItemIds /\ v \in Keys
    BY TagItemsOther
  <2>3. stored[i] = v
    BY <1>3, <2>1, <2>2, StoredIs
  <2>4. <<i, v>> \in Outcome'
    BY <1>3, <1>4, <1>5, <1>7, <2>2, <2>3, OutcomeAfter
  <2>. QED  BY <2>4
<1>. QED  BY <1>6, <1>7

LEMMA SignedFinalize ==
  ASSUME OrderInv, finalize_pairing_cmd_handle
  PROVE  Signed'
<1>. DEFINE k  == Key(pairing + 1, 0)
            ws == <<<<"SERVER_SHARED_SECRET", k>>, <<"SN_QUERY_COUNTER", k>>,
                    <<"ICLOUD_ID", k>>>>
<1>1. job'.writes = ws /\ stored' = stored
  BY DEF finalize_pairing_cmd_handle, Start
<1>2. pairing + 1 \in Nat \ {0}
  BY OrderFacts DEF RestOK
<1>3. k \in Keys /\ k # None
  BY <1>2, KeyType, NoneType
<1>4. \A i \in TagItems : i \in ItemIds /\ Ends(ws, stored, i, k)
  BY AfterFinalize, TagItemsOther DEF TagItems
<1>. HIDE DEF ws, k
<1>5. \A i \in TagItems : <<i, k>> \in Outcome'
  BY <1>1, <1>3, <1>4, OutcomeAfter
<1>. QED  BY <1>3, <1>5 DEF Signed

LEMMA SignedComplete ==
  ASSUME OrderInv, SignedInv, pairing_complete_cmd_handle, UNCHANGED snVars
  PROVE  Signed'
<1>0. PICK g \in Nat : g = pairing
  BY OrderFacts DEF RestOK
<1>1. Idle /\ job'.writes = service_start_writes(g) /\ stored' = stored
  BY <1>0 DEF pairing_complete_cmd_handle, Start
<1>2. Finalized
  <2>1. "PAIRING_COMPLETE" \in WaitingIds
    BY Handled, PostEmpty, StateEvent, WaitingAs, OrderFacts
    DEF pairing_complete_cmd_handle
  <2>. QED  BY <2>1, OrderComplete DEF Finalized
<1>3. \A v : \A i \in OtherItems :
        Ends(service_start_writes(g), stored, i, v) <=> stored[i] = v
  <2>1. cnt \in Nat
    BY OrderFacts DEF RestOK
  <2>. QED  BY <2>1, AfterStart DEF OtherItems
<1>. QED  BY <1>1, <1>2, <1>3, IdleWrites, SignedKept DEF SignedInv

LEMMA SignedEnabled ==
  ASSUME OrderInv, fmna_enable
  PROVE  is_paired' => Signed'
<1>1. /\ Idle /\ UNCHANGED <<stored, job>>
      /\ state' = IF fmna_storage_pairing_data_check THEN "SEPARATED" ELSE "UNPAIRED"
  BY Zenon DEF fmna_enable
<1>. SUFFICES ASSUME is_paired', NEW i \in TagItems
              PROVE  \E v \in Keys \ {None} : <<i, v>> \in Outcome'
  BY DEF Signed
<1>2. fmna_storage_pairing_data_check
  BY <1>1 DEF is_paired
<1>3. i \in ItemIds /\ stored[i] \in Keys \ {None}
  BY <1>2, TagItemsOther, CounterTyped, OrderFacts DEF fmna_storage_pairing_data_check
<1>4. <<i, stored[i]>> \in Outcome'
  BY <1>1, <1>3, IdleWrites, NothingWritten, OutcomeAfter
<1>. QED  BY <1>3, <1>4

LEMMA SignedNext ==
  ASSUME OrderInv, Commanded, KeysInv, SignedInv, [Next]_vars
  PROVE  SignedInv'
<1>1. CASE QuietStep
  <2>1. Outcome \subseteq Outcome'
    BY <1>1, QuietOutcome, OrderFacts
  <2>2. (is_paired' => is_paired) /\ (Finalized' => Finalized)
    BY <1>1 DEF QuietStep, Finalized, Commanded
  <2>. QED  BY <2>1, <2>2, SignedGrows DEF SignedInv
<1>2. CASE CounterStep
  BY <1>2, SignedCounted
<1>3. CASE TornStep
  BY <1>3, TornOff DEF SignedInv
<1>4. CASE key_rotation_work_handle
  <2>1. /\ Idle /\ Running("keys") /\ PostOn(Tail(workq), <<>>) 
    BY <1>4, Zenon DEF key_rotation_work_handle
  <2>2. is_paired
    <3>1. Queued(workq, "keys")
      BY <2>1, Ran, OrderFacts
    <3>. QED  BY <3>1 DEF OrderInv, JobOrder, RotationDue
  <2>. QED  BY <1>4, <2>1, <2>2, IdleWrites, RotationOthers, SignedKept, OrderFacts DEF SignedInv
<1>5. CASE owner_unpaired /\ UNCHANGED snVars
  BY <1>5, Unpaired DEF SignedInv
<1>6. CASE finalize_pairing_cmd_handle /\ UNCHANGED snVars
  BY <1>6, SignedFinalize DEF SignedInv
<1>7. CASE pairing_complete_cmd_handle /\ UNCHANGED snVars
  BY <1>7, SignedComplete DEF SignedInv
<1>8. CASE fmna_factory_reset
  <2>1. state' = "DISABLED"
    BY <1>8 DEF fmna_factory_reset, envVars, OrderInv, ReadyOrder
  <2>. QED  BY <2>1 DEF SignedInv, is_paired, Finalized
<1>9. CASE fmna_enable
  <2>1. /\ Idle /\ ~ready /\ link' = "down" /\ job' = job
        /\ state' \in {"SEPARATED", "UNPAIRED"}
    BY <1>9, Zenon DEF fmna_enable
  <2>2. ~Finalized'
    <3>1. state = "DISABLED" /\ job.then = "none" /\ "PAIRING_COMPLETE" \notin WaitingIds
      BY <2>1, IdleWrites DEF OrderInv, ReadyOrder, LinkOrder, PeerIds, LinkWrites
    <3>. QED  BY <2>1, <3>1 DEF Finalized, Commanded
  <2>. QED  BY <1>9, <2>2, SignedEnabled DEF SignedInv
<1>. QED
  BY <1>1, <1>2, <1>3, <1>4, <1>5, <1>6, <1>7, <1>8, <1>9, FlashSteps, Zenon

(* The jobs of the key service write keys; without a job nothing is written. *)
KeyJobs == {"started", "rotated"}
KeyWrites == Seq(KeyItems \X Keys)

JobsInv ==
  /\ job.then = "none" => job.writes = <<>>
  /\ job.then \in KeyJobs => job.writes \in KeyWrites

LEMMA KeyWritesOf ==
  ASSUME RestOK, NEW p \in Keys, NEW s \in Keys, NEW index \in Nat, NEW g \in Nat
  PROVE  rotation_writes(p, s, index) \in KeyWrites /\ service_start_writes(g) \in KeyWrites
<1>1. p.gen \in Nat /\ index % U \in Nat /\ cnt \in Nat
  BY KeyConstants DEF Keys, RestOK
<1>2. /\ Key(p.gen, index) \in Keys /\ Key(p.gen, 0) \in Keys /\ Key(p.gen, index % U) \in Keys
      /\ Key(g, 0) \in Keys /\ Key(g, cnt + 1) \in Keys /\ Key(g, 1) \in Keys /\ Key(g, cnt) \in Keys
  BY <1>1, KeyType
<1>3. \A i \in KeyItems : \A k \in Keys : <<<<i, k>>>> \in KeyWrites
  BY DEF KeyWrites
<1>4. ASSUME NEW a \in Keys, NEW b \in Keys, NEW n \in Nat, Key(a.gen, n) \in Keys,
             Key(a.gen, 0) \in Keys
      PROVE  rotating_key_storage_update(a, b, n) \in KeyWrites
  BY <1>4 DEF rotating_key_storage_update, KeyWrites, KeyItems
<1>5. rotation_writes(p, s, index) \in KeyWrites
  BY <1>2, <1>3, <1>4 DEF rotation_writes, KeyItems
<1>6. service_start_writes(g) \in KeyWrites
  <2>1. <<<<"MASTER_PUBLIC_KEY", Key(g, 0)>>>> \in KeyWrites
    BY <1>2, <1>3 DEF KeyItems
  <2>2. Key(g, 0).gen = g
    BY KeyType
  <2>3. rotating_key_storage_update(Key(g, 0), Key(g, 0), cnt) \in KeyWrites
    BY <1>1, <1>2, <1>4, <2>2
  <2>4. <<<<"CURRENT_KEYS_INDEX_DIFF", Key(g, cnt + 1)>>, <<"SECONDARY_SK", Key(g, 1)>>>>
          \in KeyWrites
    BY <1>2 DEF KeyWrites, KeyItems
  <2>. QED  BY <2>1, <2>3, <2>4, ConcatProperties DEF service_start_writes, KeyWrites
<1>. QED  BY <1>5, <1>6

LEMMA JobsSame ==
  ASSUME JobsInv,
         \/ job' \in {job, NoJob}
         \/ job'.then \in {"counting", "counted", "served", "unpaired", "finalized", "erased"}
  PROVE  JobsInv'
BY NoJobType DEF JobsInv, KeyJobs

LEMMA JobsStored ==
  ASSUME OrderInv, JobsInv, item_store
  PROVE  JobsInv'
<1>1. /\ job'.then = job.then /\ job'.writes = Tail(job.writes) /\ job.writes # <<>>
  BY ItemStored, OrderFacts DEF RestOK
<1>2. job.then \in KeyJobs => Tail(job.writes) \in KeyWrites
  BY <1>1, HeadTailProperties DEF JobsInv, KeyWrites
<1>. QED  BY <1>1, <1>2 DEF JobsInv

LEMMA JobsStarted ==
  ASSUME OrderInv, JobsInv, key_rotation_work_handle \/ pairing_complete_cmd_handle
  PROVE  JobsInv'
<1>1. CASE key_rotation_work_handle
  <2>. DEFINE index == cnt + 1
              p  == Roll(psk)
              s  == IF secondary_key_is_outdated(index) THEN Roll(ssk) ELSE ssk
  <2>1. job'.writes = rotation_writes(p, s, index) /\ job'.then = "rotated"
    BY <1>1, Zenon DEF key_rotation_work_handle, Start
  <2>2. p \in Keys /\ s \in Keys /\ index \in Nat
    BY RollType, OrderFacts DEF RestOK
  <2>. HIDE DEF p, s, index
  <2>3. job'.writes \in KeyWrites
    BY <2>1, <2>2, KeyWritesOf, OrderFacts
  <2>. QED  BY <2>1, <2>3 DEF JobsInv
<1>2. CASE pairing_complete_cmd_handle
  <2>1. PICK g \in Nat : g = pairing
    BY OrderFacts DEF RestOK
  <2>2. job'.writes = service_start_writes(g) /\ job'.then = "started"
    BY <1>2, <2>1 DEF pairing_complete_cmd_handle, Start
  <2>3. job'.writes \in KeyWrites
    BY <2>2, NoneType, KeyWritesOf, OrderFacts
  <2>. QED  BY <2>2, <2>3 DEF JobsInv
<1>. QED  BY <1>1, <1>2

LEMMA JobsNext ==
  ASSUME OrderInv, JobsInv, [Next]_vars
  PROVE  JobsInv'
<1>1. CASE UNCHANGED vars
  BY <1>1, JobsSame DEF vars
<1>2. CASE \/ event_work \/ key_rotation_timeout_handle \/ public_keys_changed \/ peer_arrives
           \/ peer_leaves \/ peer_connected \/ peer_security_changed \/ owner_connected
           \/ owner_disconnected \/ nearby_separated_work_handle
           \/ unpair_request_handle
           \/ separated_key_latch_request_handle \/ separated_state_configure_request_handle
  <2>1. job' = job
    BY <1>2, Zenon
    DEF event_work, key_rotation_timeout_handle, public_keys_changed, peer_arrives,
        peer_leaves, peer_connected, peer_security_changed, owner_connected,
        owner_disconnected, nearby_separated_work_handle,
        unpair_request_handle, separated_key_latch_request_handle,
        separated_state_configure_request_handle
  <2>. QED  BY <2>1, JobsSame
<1>3. CASE \/ owner_cp_write \/ pairing_cp_write \/ owner_query \/ nfc_callback
           \/ sn_counter_update_again \/ serial_number_cnt_changed
           \/ state_changed \/ fmna_serial_number_lookup_enable
           \/ sn_lookup_timeout_work_handle \/ fmna_enable \/ fmna_disable
  <2>1. job' = job
    BY <1>3, Zenon
    DEF owner_cp_write, pairing_cp_write, owner_query, Write, nfc_callback,
        sn_counter_update_again, serial_number_cnt_changed, state_changed,
        fmna_serial_number_lookup_enable, sn_lookup_timeout_work_handle, fmna_enable,
        fmna_disable
  <2>. QED  BY <2>1, JobsSame
<1>4. CASE \/ rotation_ends \/ unpairing_ends \/ finalizing_ends \/ keys_service_timer_start
           \/ sn_counter_updated \/ serial_number_request_ends \/ factory_reset_ends
           \/ power_loss
  <2>1. job' = NoJob
    BY <1>4, Zenon
    DEF rotation_ends, unpairing_ends, finalizing_ends, keys_service_timer_start,
        sn_counter_updated, serial_number_request_ends, factory_reset_ends, Ending, power_loss
  <2>. QED  BY <2>1, JobsSame
<1>5. CASE \/ sn_counter_update_work_handle \/ owner_unpaired \/ finalize_pairing_cmd_handle
           \/ fmna_factory_reset
  <2>1. job'.then \in {"counting", "unpaired", "finalized", "erased"}
    BY <1>5 DEF sn_counter_update_work_handle, owner_unpaired, finalize_pairing_cmd_handle,
                fmna_factory_reset, Start
  <2>. QED  BY <2>1, JobsSame
<1>6. CASE sn_counter_update
  <2>1. CASE ~paired_state \/ counter = None
    <3>1. job' = NoJob
      BY <1>6, <2>1, Zenon DEF sn_counter_update
    <3>. QED  BY <3>1, JobsSame
  <2>2. CASE ~(~paired_state \/ counter = None)
    <3>1. job'.then = "counted"
      BY <1>6, <2>2 DEF sn_counter_update, Start
    <3>. QED  BY <3>1, JobsSame
  <2>. QED  BY <2>1, <2>2
<1>7. CASE serial_number_request_handle
  <2>1. CASE is_paired /\ is_lookup_enabled /\ counter # None
    <3>1. job'.then = "served"
      BY <1>7, <2>1 DEF serial_number_request_handle, Start
    <3>. QED  BY <3>1, JobsSame
  <2>2. CASE ~(is_paired /\ is_lookup_enabled /\ counter # None)
    <3>1. job' = job
      BY <1>7, <2>2, Zenon DEF serial_number_request_handle
    <3>. QED  BY <3>1, JobsSame
  <2>. QED  BY <2>1, <2>2
<1>8. CASE item_store
  BY <1>8, JobsStored
<1>9. CASE key_rotation_work_handle \/ pairing_complete_cmd_handle
  BY <1>9, JobsStarted
<1>. QED
  BY <1>1, <1>2, <1>3, <1>4, <1>5, <1>6, <1>7, <1>8, <1>9, Zenon DEF Next, KeysNext

(* A command of a pairing waits behind the news that the last one is over.  *)
Behind ==
  \A j \in 1..Len(Backlog) : Backlog[j].id \in PairingCommands =>
    \E i \in 1..Len(Backlog) : i < j /\ Backlog[i].id = "STATE_CHANGED"

TagUp == tag = fmna_nfc_buffer_setup(TRUE)

TagInv ==
  /\ job.then = "unpaired" /\ link # "down" => "PEER_SECURITY_CHANGED" \in WaitingIds
  /\ ready /\ ~is_paired /\ paired_state =>
       /\ job.then # "finalized" /\ link # "finalized"
       /\ job.then = "unpaired" => WaitingIds \cap PairingCommands = {}
       /\ Behind
  /\ ready /\ (paired_state # is_paired) =>
       "STATE_CHANGED" \in WaitingIds \/ job.then = "unpaired"
  /\ ready /\ ~paired_state => tag = Tag("unpaired", 0)
  /\ ready /\ is_paired /\ paired_state =>
       TagUp \/ "SERIAL_NUMBER_CNT_CHANGED" \in WaitingIds \/ job.then \in {"counted", "served"}

CalmQueue ==
  /\ WaitingIds' \cap PairingCommands \subseteq WaitingIds
  /\ \A id \in {"STATE_CHANGED", "SERIAL_NUMBER_CNT_CHANGED"} :
       id \in WaitingIds => id \in WaitingIds'
  /\ Behind => Behind'
  /\ Idle \/ WaitingIds \subseteq WaitingIds'

LEMMA BehindKept ==
  ASSUME QueuesTyped, Behind, NEW k \in {0, 1}, NEW evs \in Seq(KeyEvent), QueueStep(k, evs),
         k = 1 => Backlog[1].id # "STATE_CHANGED",
         IdsOf(evs) \cap PairingCommands = {}
  PROVE  Behind'
<1>1. Len(Backlog) \in Nat /\ Len(evs) \in Nat
  BY BacklogTyped, LenProperties
<1>2. /\ k <= Len(Backlog)
      /\ Len(Backlog') = Len(Backlog) - k + Len(evs)
      /\ \A i \in 1..Len(Backlog) - k : Backlog'[i] = Backlog[i + k]
  BY DEF QueueStep, Flow
<1>. SUFFICES ASSUME NEW j \in 1..Len(Backlog'), Backlog'[j].id \in PairingCommands
              PROVE  \E i \in 1..Len(Backlog') : i < j /\ Backlog'[i].id = "STATE_CHANGED"
  BY DEF Behind
<1>3. j + k \in 1..Len(Backlog) /\ Backlog'[j] = Backlog[j + k]
  BY FlowSplit DEF IdsOf
<1>4. PICK i \in 1..Len(Backlog) : i < j + k /\ Backlog[i].id = "STATE_CHANGED"
  BY <1>3 DEF Behind
<1>5. i - k \in 1..Len(Backlog) - k /\ i - k < j /\ (i - k) + k = i
  BY <1>1, <1>3, <1>4
<1>6. i - k \in 1..Len(Backlog') /\ Backlog'[i - k] = Backlog[i]
  BY <1>1, <1>2, <1>5
<1>. QED  BY <1>4, <1>5, <1>6

LEMMA CalmStep ==
  ASSUME QueuesTyped, NEW k \in {0, 1}, NEW evs \in Seq(KeyEvent), QueueStep(k, evs),
         k = 1 => /\ Idle
                  /\ Backlog[1].id \notin {"STATE_CHANGED", "SERIAL_NUMBER_CNT_CHANGED"},
         IdsOf(evs) \cap PairingCommands = {}
  PROVE  CalmQueue /\ IdsOf(evs) \subseteq WaitingIds'
<1>1. WaitingIds' \subseteq WaitingIds \cup IdsOf(evs) /\ IdsOf(evs) \subseteq WaitingIds'
  BY IdsAfter
<1>2. Behind => Behind'
  BY BehindKept
<1>3. CASE k = 0
  <2>1. WaitingIds \subseteq WaitingIds'
    BY <1>3, IdsKept
  <2>. QED  BY <1>1, <1>2, <2>1 DEF CalmQueue
<1>4. CASE k = 1
  <2>1. \A x \in WaitingIds : x = Backlog[1].id \/ x \in WaitingIds'
    BY <1>4, IdsRemain
  <2>. QED  BY <1>1, <1>2, <1>4, <2>1 DEF CalmQueue
<1>. QED  BY <1>3, <1>4

LEMMA CalmSame ==
  ASSUME Backlog' = Backlog
  PROVE  CalmQueue
BY DEF CalmQueue, Behind, WaitingIds

(* Posting, while no event is handled; handling an event other than those   *)
(* of the tag.                                                              *)
LEMMA CalmPosts ==
  ASSUME OrderInv, NEW q \in Seq(SerialWorkItems), Queued(q, "keys") => Queued(workq, "keys"),
         NEW evs \in Seq(KeyEvent), PostOn(q, evs), batch' = batch,
         IdsOf(evs) \cap PairingCommands = {}
  PROVE  CalmQueue /\ IdsOf(evs) \subseteq WaitingIds'
<1>1. QueueStep(0, evs)
  BY Posting, OrderFacts
<1>. QED  BY <1>1, CalmStep, OrderFacts

LEMMA CalmHandled ==
  ASSUME OrderInv, Idle, NEW id, Handling(id),
         id \notin {"STATE_CHANGED", "SERIAL_NUMBER_CNT_CHANGED"},
         NEW evs \in Seq(KeyEvent), Post(evs) \/ (evs = <<>> /\ UNCHANGED <<workq, events>>),
         IdsOf(evs) \cap PairingCommands = {}
  PROVE  CalmQueue /\ IdsOf(evs) \subseteq WaitingIds' /\ id \in WaitingIds
<1>1. QueueStep(1, evs) /\ 1 \in 1..Len(Backlog) /\ Backlog[1].id = id
  BY Handled, OrderFacts
<1>2. id \in WaitingIds
  BY <1>1, WaitingAs
<1>. QED  BY <1>1, <1>2, CalmStep, OrderFacts

(* A step that is nothing to the tag. *)
TagQuiet ==
  /\ CalmQueue
  /\ is_paired' = is_paired
  /\ UNCHANGED <<ready, paired_state, tag>>
  /\ job'.then = "unpaired" <=> job.then = "unpaired"
  /\ job'.then = "unpaired" =>
       link' = "down" \/ link' = link \/ "PEER_SECURITY_CHANGED" \in WaitingIds'
  /\ job'.then = "finalized" => job.then = "finalized"
  /\ link' = "finalized" => link = "finalized" \/ job.then = "finalized"
  /\ \/ ~is_paired \/ job'.then \in {"counted", "served"}
     \/ \A i \in TagItems : stored'[i] = stored[i]
  /\ job.then \in {"counted", "served"} =>
       job'.then = job.then \/ "SERIAL_NUMBER_CNT_CHANGED" \in WaitingIds'

LEMMA TagUpKept ==
  ASSUME \A i \in TagItems : stored'[i] = stored[i], tag' = tag, TagUp
  PROVE  TagUp'
<1>1. counter' = counter /\ stored'["SERVER_SHARED_SECRET"] = stored["SERVER_SHARED_SECRET"]
  BY DEF TagItems, counter
<1>2. fmna_nfc_buffer_setup(TRUE)' = fmna_nfc_buffer_setup(TRUE)
  BY <1>1 DEF fmna_nfc_buffer_setup
<1>. QED  BY <1>2 DEF TagUp

LEMMA TagKept ==
  ASSUME OrderInv, TagInv, TagQuiet
  PROVE  TagInv'
<1>0. job.then = "unpaired" => ~Idle
  BY OrderFacts
<1>1. job'.then = "unpaired" /\ link' # "down" => "PEER_SECURITY_CHANGED" \in WaitingIds'
  BY <1>0 DEF TagQuiet, CalmQueue, TagInv
<1>2. ready' /\ ~is_paired' /\ paired_state' =>
        /\ job'.then # "finalized" /\ link' # "finalized"
        /\ job'.then = "unpaired" => WaitingIds' \cap PairingCommands = {}
        /\ Behind'
  BY DEF TagQuiet, CalmQueue, TagInv
<1>3. ready' /\ (paired_state' # is_paired') =>
        "STATE_CHANGED" \in WaitingIds' \/ job'.then = "unpaired"
  BY DEF TagQuiet, CalmQueue, TagInv
<1>4. ready' /\ ~paired_state' => tag' = Tag("unpaired", 0)
  BY DEF TagQuiet, TagInv
<1>5. ASSUME ready', is_paired', paired_state'
      PROVE  \/ TagUp' \/ "SERIAL_NUMBER_CNT_CHANGED" \in WaitingIds'
             \/ job'.then \in {"counted", "served"}
  BY <1>5, TagUpKept DEF TagQuiet, CalmQueue, TagInv
<1>. QED  BY <1>1, <1>2, <1>3, <1>4, <1>5 DEF TagInv

OtherThen == Jobs \ {"unpaired", "finalized"}

LEMMA TagCalm ==
  ASSUME CalmQueue, UNCHANGED <<ready, paired_state, tag, stored>>, is_paired' = is_paired,
         \/ job'.then = job.then
         \/ /\ job.then # "unpaired" /\ job'.then \in OtherThen
            /\ job.then \in {"counted", "served"} => "SERIAL_NUMBER_CNT_CHANGED" \in WaitingIds',
         \/ link' \in {link, "down"}
         \/ link' = "up" /\ "PEER_SECURITY_CHANGED" \in WaitingIds'
         \/ link' = "finalized" /\ job.then = "finalized" /\ job'.then = "none"
  PROVE  TagQuiet
BY DEF TagQuiet, OtherThen

LEMMA TagEvent ==
  ASSUME NEW id \in KeyEvents \ PairingCommands, NEW c \in {NULL, 1}, NEW a \in Nat
  PROVE  /\ <<EvArg(id, c, a)>> \in Seq(KeyEvent)
         /\ IdsOf(<<EvArg(id, c, a)>>) = {id}
         /\ IdsOf(<<EvArg(id, c, a)>>) \cap PairingCommands = {}
         /\ Ev(id, c) = EvArg(id, c, 0)
<1>1. EvArg(id, c, a).id = id /\ <<EvArg(id, c, a)>> \in Seq(KeyEvent)
      /\ Ev(id, c) = EvArg(id, c, 0)
  BY EventIn
<1>2. IdsOf(<<EvArg(id, c, a)>>) = {EvArg(id, c, a).id}
  BY IdsOfFew
<1>3. IdsOf(<<EvArg(id, c, a)>>) = {id}
  BY <1>1, <1>2
<1>. QED  BY <1>1, <1>3

LEMMA TagEvents ==
  ASSUME NEW evs \in {<<>>, <<Ev("STATE_CHANGED", NULL)>>, <<Ev("OWNER_CONNECTED", 1)>>,
                      <<Ev("PEER_DISCONNECTED", 1)>>, <<Ev("SERIAL_NUMBER_CNT_CHANGED", NULL)>>}
  PROVE  /\ evs \in Seq(KeyEvent) /\ IdsOf(evs) \cap PairingCommands = {}
         /\ evs = <<Ev("STATE_CHANGED", NULL)>> => "STATE_CHANGED" \in IdsOf(evs)
         /\ evs = <<Ev("SERIAL_NUMBER_CNT_CHANGED", NULL)>> =>
              "SERIAL_NUMBER_CNT_CHANGED" \in IdsOf(evs)
<1>1. ASSUME NEW id \in {"STATE_CHANGED", "OWNER_CONNECTED", "PEER_DISCONNECTED",
                         "SERIAL_NUMBER_CNT_CHANGED"},
             NEW c \in {NULL, 1}
      PROVE  /\ <<Ev(id, c)>> \in Seq(KeyEvent) /\ IdsOf(<<Ev(id, c)>>) = {id}
             /\ IdsOf(<<Ev(id, c)>>) \cap PairingCommands = {}
  <2>1. id \in KeyEvents \ PairingCommands
    BY DEF KeyEvents, PairingCommands
  <2>. QED  BY <2>1, TagEvent
<1>2. CASE evs = <<>>
  BY <1>2, PostEmpty
<1>3. CASE evs = <<Ev("STATE_CHANGED", NULL)>>
  <2>1. Ev("STATE_CHANGED", NULL).id # Ev("SERIAL_NUMBER_CNT_CHANGED", NULL).id
    BY DEF Ev
  <2>. QED  BY <1>1, <1>3, <2>1
<1>4. CASE evs = <<Ev("OWNER_CONNECTED", 1)>>
  <2>1. Ev("OWNER_CONNECTED", 1).id \notin
          {Ev("SERIAL_NUMBER_CNT_CHANGED", NULL).id, Ev("STATE_CHANGED", NULL).id}
    BY DEF Ev
  <2>. QED  BY <1>1, <1>4, <2>1
<1>5. CASE evs = <<Ev("PEER_DISCONNECTED", 1)>>
  <2>1. Ev("PEER_DISCONNECTED", 1).id \notin
          {Ev("SERIAL_NUMBER_CNT_CHANGED", NULL).id, Ev("STATE_CHANGED", NULL).id}
    BY DEF Ev
  <2>. QED  BY <1>1, <1>5, <2>1
<1>6. CASE evs = <<Ev("SERIAL_NUMBER_CNT_CHANGED", NULL)>>
  <2>1. Ev("STATE_CHANGED", NULL).id # Ev("SERIAL_NUMBER_CNT_CHANGED", NULL).id
    BY DEF Ev
  <2>. QED  BY <1>1, <1>6, <2>1
<1>. QED  BY <1>2, <1>3, <1>4, <1>5, <1>6

LEMMA TagHandlers ==
  ASSUME OrderInv, UNCHANGED snVars,
         \/ public_keys_changed \/ peer_connected \/ peer_security_changed
         \/ unpair_request_handle \/ separated_key_latch_request_handle
         \/ separated_state_configure_request_handle
  PROVE  TagQuiet
<1>1. PICK id \in {"PUBLIC_KEYS_CHANGED", "PEER_CONNECTED", "PEER_SECURITY_CHANGED", "UNPAIR",
                   "LATCH_SEPARATED_KEY", "CONFIGURE_SEPARATED_STATE"} :
        /\ Idle /\ Handling(id) /\ (Post(<<>>) \/ Post(<<Ev("OWNER_CONNECTED", 1)>>))
        /\ UNCHANGED <<state, link, stored, job>>
  <2>1. CASE public_keys_changed
    BY <2>1, Zenon DEF public_keys_changed, envVars
  <2>2. CASE peer_connected
    BY <2>2, Zenon DEF peer_connected, envVars
  <2>3. CASE peer_security_changed
    BY <2>3, Zenon DEF peer_security_changed, envVars
  <2>4. CASE unpair_request_handle
    BY <2>4, Zenon DEF unpair_request_handle
  <2>5. CASE separated_key_latch_request_handle
    BY <2>5, Zenon DEF separated_key_latch_request_handle, envVars
  <2>6. CASE separated_state_configure_request_handle
    BY <2>6, Zenon DEF separated_state_configure_request_handle, envVars
  <2>. QED  BY <2>1, <2>2, <2>3, <2>4, <2>5, <2>6
<1>2. CalmQueue
  <2>1. PICK evs \in {<<>>, <<Ev("OWNER_CONNECTED", 1)>>} : Post(evs)
    BY <1>1
  <2>2. evs \in Seq(KeyEvent) /\ IdsOf(evs) \cap PairingCommands = {}
    BY <2>1, TagEvents
  <2>3. id \notin {"STATE_CHANGED", "SERIAL_NUMBER_CNT_CHANGED"}
    BY <1>1
  <2>. QED  BY <1>1, <2>1, <2>2, <2>3, CalmHandled
<1>3. is_paired' = is_paired
  BY <1>1 DEF is_paired
<1>. QED  BY <1>1, <1>2, <1>3, TagCalm DEF snVars, nfcVars

LEMMA TagOwner ==
  ASSUME OrderInv, UNCHANGED snVars,
         owner_connected \/ owner_disconnected \/ nearby_separated_work_handle
  PROVE  TagQuiet
<1>1. UNCHANGED <<link, stored, job>>
  BY DEF owner_connected, owner_disconnected, nearby_separated_work_handle
<1>2. CalmQueue /\ is_paired' = is_paired
  <2>1. PICK evs \in {<<>>, <<Ev("STATE_CHANGED", NULL)>>} :
          /\ Idle
          /\ \/ Handling("OWNER_CONNECTED") /\ Post(evs) /\ state' = "CONNECTED"
             \/ /\ Handling("PEER_DISCONNECTED") /\ Post(evs)
                /\ state' \in IF state = "CONNECTED" THEN {"NEARBY", "SEPARATED"} ELSE {state}
             \/ /\ Post(evs) /\ batch' = batch
                /\ state = "NEARBY" /\ state' = "SEPARATED"
    BY Zenon DEF owner_connected, owner_disconnected, nearby_separated_work_handle
  <2>2. evs \in Seq(KeyEvent) /\ IdsOf(evs) \cap PairingCommands = {}
    BY <2>1, TagEvents
  <2>3. CASE Handling("OWNER_CONNECTED") /\ Post(evs) /\ state' = "CONNECTED"
    <3>1. CalmQueue /\ "OWNER_CONNECTED" \in WaitingIds
      BY <2>1, <2>2, <2>3, CalmHandled
    <3>. QED  BY <2>3, <3>1 DEF OrderInv, LinkOrder, OwnerIds, is_paired
  <2>4. CASE /\ Handling("PEER_DISCONNECTED") /\ Post(evs)
             /\ state' \in IF state = "CONNECTED" THEN {"NEARBY", "SEPARATED"} ELSE {state}
    <3>1. CalmQueue
      BY <2>1, <2>2, <2>4, CalmHandled
    <3>. QED  BY <2>4, <3>1 DEF is_paired
  <2>5. CASE Post(evs) /\ batch' = batch /\ state = "NEARBY" /\ state' = "SEPARATED"
    <3>1. CalmQueue
      BY <2>2, <2>5, CalmPosts, OrderFacts DEF Post, QueuesTyped
    <3>. QED  BY <2>5, <3>1 DEF is_paired
  <2>. QED  BY <2>1, <2>3, <2>4, <2>5
<1>. QED  BY <1>1, <1>2, TagCalm DEF snVars, nfcVars

LEMMA TagPeer ==
  ASSUME OrderInv, UNCHANGED snVars,
         peer_arrives \/ peer_leaves \/ finalizing_ends \/ event_work
  PROVE  TagQuiet
<1>1. CASE peer_arrives
  <2>. DEFINE c == EvArg("PEER_CONNECTED", 1, 0)
              s == EvArg("PEER_SECURITY_CHANGED", 1, 0)
              evs == <<c, s>>
  <2>1. /\ c \in KeyEvent /\ s \in KeyEvent
        /\ c.id = "PEER_CONNECTED" /\ s.id = "PEER_SECURITY_CHANGED"
        /\ Ev("PEER_CONNECTED", 1) = c /\ Ev("PEER_SECURITY_CHANGED", 1) = s
    BY PeerEvent DEF PeerIds, LinkWrites
  <2>2. link' = "up" /\ UNCHANGED <<batch, state, stored, job>> /\ PostOn(workq, evs)
    BY <1>1, <2>1 DEF peer_arrives, Post
  <2>. HIDE DEF c, s
  <2>3. evs \in Seq(KeyEvent) /\ IdsOf(evs) = {"PEER_CONNECTED", "PEER_SECURITY_CHANGED"}
    <3>1. IdsOf(evs) = {c.id, s.id}
      BY IdsOfFew
    <3>2. evs \in Seq(KeyEvent)
      BY <2>1
    <3>. QED  BY <2>1, <3>1, <3>2
  <2>. HIDE DEF evs
  <2>4. CalmQueue /\ "PEER_SECURITY_CHANGED" \in WaitingIds'
    <3>1. IdsOf(evs) \cap PairingCommands = {}
      BY <2>3 DEF PairingCommands
    <3>2. CalmQueue /\ IdsOf(evs) \subseteq WaitingIds'
      BY <2>2, <2>3, <3>1, CalmPosts, OrderFacts DEF QueuesTyped
    <3>. QED  BY <2>3, <3>2
  <2>5. is_paired' = is_paired
    BY <2>2 DEF is_paired
  <2>. QED  BY <2>2, <2>4, <2>5, TagCalm DEF snVars, nfcVars
<1>2. CASE peer_leaves
  <2>. DEFINE evs == <<Ev("PEER_DISCONNECTED", 1)>>
  <2>1. link' = "down" /\ UNCHANGED <<batch, state, stored, job>> /\ PostOn(workq, evs)
    BY <1>2 DEF peer_leaves, Post
  <2>2. evs \in Seq(KeyEvent) /\ IdsOf(evs) \cap PairingCommands = {}
    BY TagEvents
  <2>. HIDE DEF evs
  <2>3. CalmQueue
    BY <2>1, <2>2, CalmPosts, OrderFacts DEF QueuesTyped
  <2>4. is_paired' = is_paired
    BY <2>1 DEF is_paired
  <2>. QED  BY <2>1, <2>3, <2>4, TagCalm DEF snVars, nfcVars
<1>3. CASE finalizing_ends
  <2>1. /\ job.then = "finalized" /\ job'.then = "none" /\ link' \in {link, "finalized"}
        /\ UNCHANGED <<queueVars, state, stored>>
    BY <1>3, NoJobType DEF finalizing_ends, Ending
  <2>2. CalmQueue /\ is_paired' = is_paired
    BY <2>1, CalmSame DEF queueVars, Backlog, is_paired
  <2>. QED  BY <2>1, <2>2, TagCalm DEF snVars, nfcVars, OtherThen, Jobs
<1>4. CASE event_work
  <2>1. QueueStep(0, <<>>) /\ UNCHANGED <<envVars, stored, job>>
    BY <1>4, Taken, OrderFacts DEF event_work
  <2>2. CalmQueue
    <3>1. <<>> \in Seq(KeyEvent) /\ IdsOf(<<>>) \cap PairingCommands = {}
      BY PostEmpty
    <3>2. QueuesTyped /\ 0 \in {0, 1} /\ 0 # 1
      BY OrderFacts
    <3>. QED  BY <2>1, <3>1, <3>2, CalmStep
  <2>3. is_paired' = is_paired
    BY <2>1 DEF is_paired, envVars
  <2>. QED  BY <2>1, <2>2, <2>3, TagCalm DEF snVars, nfcVars, envVars
<1>. QED  BY <1>1, <1>2, <1>3, <1>4

LEMMA TagOwnerWrites ==
  ASSUME OrderInv, UNCHANGED snVars, owner_cp_write \/ owner_query
  PROVE  TagQuiet
<1>1. /\ link # "down"
      /\ \E id \in {"UNPAIR", "LATCH_SEPARATED_KEY", "CONFIGURE_SEPARATED_STATE",
                    "GET_SERIAL_NUMBER"}, a \in Nat : Write(id, a)
  <2>1. CASE owner_cp_write
    <3>1. PICK id \in OwnerCommands :
            \E e \in IF id = "CONFIGURE_SEPARATED_STATE" THEN 0..MaxIndex ELSE {0} : Write(id, e)
      BY <2>1, Zenon DEF owner_cp_write
    <3>2. PICK e \in IF id = "CONFIGURE_SEPARATED_STATE" THEN 0..MaxIndex ELSE {0} : Write(id, e)
      BY <3>1
    <3>3. OwnerCommands \subseteq {"UNPAIR", "LATCH_SEPARATED_KEY", "CONFIGURE_SEPARATED_STATE"}
          /\ MaxIndex \in Nat
      BY KeysAssumption, Zenon
    <3>4. id \in {"UNPAIR", "LATCH_SEPARATED_KEY", "CONFIGURE_SEPARATED_STATE"} /\ e \in Nat
      BY <3>3
    <3>. QED  BY <2>1, <3>2, <3>4 DEF owner_cp_write
  <2>2. CASE owner_query
    BY <2>2 DEF owner_query
  <2>. QED  BY <2>1, <2>2
<1>2. PICK id \in {"UNPAIR", "LATCH_SEPARATED_KEY", "CONFIGURE_SEPARATED_STATE",
                   "GET_SERIAL_NUMBER"}, a \in Nat : Write(id, a)
  BY <1>1
<1>3. id \in LinkWrites /\ id \in KeyEvents \ PairingCommands
  BY <1>2 DEF LinkWrites, KeyEvents, PairingCommands
<1>. DEFINE evs == <<EvArg(id, 1, a)>>
<1>4. /\ QueueStep(0, evs) /\ evs \in Seq(KeyEvent)
      /\ UNCHANGED <<envVars, stored, job>>
  BY <1>1, <1>2, <1>3, Written
<1>5. CalmQueue
  <2>1. IdsOf(evs) \cap PairingCommands = {}
    BY <1>3, TagEvent
  <2>. HIDE DEF evs
  <2>2. QueuesTyped /\ 0 \in {0, 1} /\ 0 # 1
    BY OrderFacts
  <2>. QED  BY <1>4, <2>1, <2>2, CalmStep
<1>6. is_paired' = is_paired
  BY <1>4 DEF is_paired, envVars
<1>. QED  BY <1>4, <1>5, <1>6, TagCalm DEF snVars, nfcVars, envVars

(* One more item is stored. *)
LEMMA TagStored ==
  ASSUME OrderInv, KeysInv, JobsInv, item_store, UNCHANGED snVars
  PROVE  TagQuiet
<1>1. /\ job.writes # <<>> /\ job'.then = job.then /\ Head(job.writes)[1] \in ItemIds
      /\ stored' = [stored EXCEPT ![Head(job.writes)[1]] = Head(job.writes)[2]]
      /\ UNCHANGED <<queueVars, envVars>>
  BY ItemStored, OrderFacts DEF RestOK, item_store
<1>2. job.then \in KeyJobs => Head(job.writes)[1] \in KeyItems
  <2>. SUFFICES ASSUME job.then \in KeyJobs PROVE Head(job.writes)[1] \in KeyItems
    OBVIOUS
  <2>1. job.writes \in Seq(KeyItems \X Keys)
    BY DEF JobsInv, KeyWrites
  <2>2. Head(job.writes) \in KeyItems \X Keys
    BY <1>1, <2>1, HeadTailProperties
  <2>. QED  BY <2>2
<1>3. TagItems \cap KeyItems = {} /\ TagItems \subseteq ItemIds
  BY TagItemsOther DEF TagItems, KeyItems
<1>4. is_paired => job.then \in KeyJobs \cup {"counted", "served"}
  BY <1>1, OrderFacts
  DEF OrderInv, JobOrder, JobsInv, KeysInv, KeyJobs, is_paired, RestOK, JobType, Jobs
<1>5. job.then \in KeyJobs => \A i \in TagItems : stored'[i] = stored[i]
  BY <1>1, <1>2, <1>3, OrderFacts DEF RestOK
<1>6. CalmQueue /\ is_paired' = is_paired /\ link' = link
  BY <1>1, CalmSame DEF queueVars, Backlog, is_paired, envVars
<1>. QED  BY <1>1, <1>4, <1>5, <1>6 DEF TagQuiet, snVars, nfcVars

LEMMA TagJobs ==
  ASSUME OrderInv, UNCHANGED snVars,
         \/ key_rotation_timeout_handle \/ key_rotation_work_handle \/ rotation_ends
         \/ keys_service_timer_start
  PROVE  TagQuiet
<1>1. UNCHANGED <<envVars, stored>>
  BY DEF key_rotation_timeout_handle, key_rotation_work_handle, rotation_ends,
         keys_service_timer_start
<1>2. is_paired' = is_paired /\ link' = link
  BY <1>1 DEF is_paired, envVars
<1>3. CASE key_rotation_timeout_handle
  <2>1. UNCHANGED <<batch, events, job>>
    BY <1>3 DEF key_rotation_timeout_handle
  <2>2. CalmQueue
    BY <2>1, CalmSame DEF Backlog
  <2>. QED  BY <1>1, <1>2, <2>1, <2>2, TagCalm DEF snVars, nfcVars
<1>4. CASE key_rotation_work_handle
  <2>1. QueueStep(0, <<>>) /\ Idle /\ job'.then = "rotated"
    BY <1>4, Ran, OrderFacts DEF key_rotation_work_handle, Start
  <2>2. CalmQueue
    <3>1. <<>> \in Seq(KeyEvent) /\ IdsOf(<<>>) \cap PairingCommands = {}
      BY PostEmpty
    <3>2. QueuesTyped /\ 0 \in {0, 1} /\ 0 # 1
      BY OrderFacts
    <3>. QED  BY <2>1, <3>1, <3>2, CalmStep
  <2>. QED  BY <1>1, <1>2, <2>1, <2>2, OrderFacts, TagCalm DEF snVars, nfcVars, OtherThen, Jobs
<1>5. CASE rotation_ends
  <2>. DEFINE evs == <<EvArg("PUBLIC_KEYS_CHANGED", NULL, job.arg)>>
  <2>1. job.then = "rotated" /\ job'.then = "none" /\ PostOn(workq, evs) /\ batch' = batch
    BY <1>5, NoJobType DEF rotation_ends, Ending, Post
  <2>2. evs \in Seq(KeyEvent) /\ IdsOf(evs) \cap PairingCommands = {}
    <3>1. "PUBLIC_KEYS_CHANGED" \in KeyEvents \ PairingCommands /\ job.arg \in Nat
      BY OrderFacts DEF KeyEvents, PairingCommands, RestOK, JobType
    <3>. QED  BY <3>1, TagEvent
  <2>. HIDE DEF evs
  <2>3. CalmQueue
    BY <2>1, <2>2, CalmPosts, OrderFacts DEF QueuesTyped
  <2>. QED  BY <1>1, <1>2, <2>1, <2>3, TagCalm DEF snVars, nfcVars, OtherThen, Jobs
<1>6. CASE keys_service_timer_start
  <2>1. job.then = "started" /\ job'.then = "none" /\ UNCHANGED queueVars
    BY <1>6, NoJobType DEF keys_service_timer_start, Ending
  <2>2. CalmQueue
    BY <2>1, CalmSame DEF queueVars, Backlog
  <2>. QED  BY <1>1, <1>2, <2>1, <2>2, TagCalm DEF snVars, nfcVars, OtherThen, Jobs
<1>. QED  BY <1>3, <1>4, <1>5, <1>6

(* The queries and what they write. *)
LEMMA TagReads ==
  ASSUME OrderInv,
         \/ nfc_callback \/ sn_counter_update_again \/ fmna_serial_number_lookup_enable
         \/ sn_lookup_timeout_work_handle \/ sn_counter_update_work_handle
         \/ sn_counter_update \/ factory_reset_ends
  PROVE  TagQuiet
<1>1. UNCHANGED <<envVars, stored, ready, paired_state, tag>>
  <2>1. CASE \/ nfc_callback \/ sn_counter_update_again \/ fmna_serial_number_lookup_enable
             \/ sn_lookup_timeout_work_handle
    BY <2>1, Zenon
    DEF nfc_callback, sn_counter_update_again, fmna_serial_number_lookup_enable,
        sn_lookup_timeout_work_handle, nfcVars
  <2>2. CASE sn_counter_update_work_handle \/ sn_counter_update \/ factory_reset_ends
    BY <2>2, Zenon DEF sn_counter_update_work_handle, sn_counter_update, factory_reset_ends,
                       snVars, nfcVars
  <2>. QED  BY <2>1, <2>2
<1>2. is_paired' = is_paired /\ link' = link
  BY <1>1 DEF is_paired, envVars
<1>3. CASE \/ nfc_callback \/ sn_counter_update_again \/ fmna_serial_number_lookup_enable
           \/ sn_lookup_timeout_work_handle
  <2>1. UNCHANGED <<batch, events, job>>
    BY <1>3, Zenon
    DEF nfc_callback, sn_counter_update_again, fmna_serial_number_lookup_enable,
        sn_lookup_timeout_work_handle, queueVars
  <2>2. CalmQueue
    BY <2>1, CalmSame DEF Backlog
  <2>. QED  BY <1>1, <1>2, <2>1, <2>2, TagCalm
<1>4. CASE sn_counter_update_work_handle
  <2>1. QueueStep(0, <<>>) /\ Idle /\ job'.then = "counting"
    BY <1>4, Ran, OrderFacts DEF sn_counter_update_work_handle, Start
  <2>2. CalmQueue
    <3>1. <<>> \in Seq(KeyEvent) /\ IdsOf(<<>>) \cap PairingCommands = {}
      BY PostEmpty
    <3>2. QueuesTyped /\ 0 \in {0, 1} /\ 0 # 1
      BY OrderFacts
    <3>. QED  BY <2>1, <3>1, <3>2, CalmStep
  <2>. QED  BY <1>1, <1>2, <2>1, <2>2, OrderFacts, TagCalm DEF OtherThen, Jobs
<1>5. CASE sn_counter_update
  <2>1. job.then = "counting" /\ UNCHANGED queueVars
    BY <1>5, Zenon DEF sn_counter_update
  <2>2. job'.then \in {"none", "counted"}
    <3>1. CASE ~paired_state \/ counter = None
      BY <1>5, <3>1, NoJobType DEF sn_counter_update
    <3>2. CASE ~(~paired_state \/ counter = None)
      BY <1>5, <3>2 DEF sn_counter_update, Start
    <3>. QED  BY <3>1, <3>2
  <2>3. CalmQueue
    BY <2>1, CalmSame DEF queueVars, Backlog
  <2>. QED  BY <1>1, <1>2, <2>1, <2>2, <2>3, TagCalm DEF OtherThen, Jobs
<1>6. CASE factory_reset_ends
  <2>1. job.then = "erased" /\ job'.then = "none" /\ UNCHANGED queueVars
    BY <1>6, NoJobType DEF factory_reset_ends, Ending
  <2>2. CalmQueue
    BY <2>1, CalmSame DEF queueVars, Backlog
  <2>. QED  BY <1>1, <1>2, <2>1, <2>2, TagCalm DEF OtherThen, Jobs
<1>. QED  BY <1>3, <1>4, <1>5, <1>6

LEMMA TagCounts ==
  ASSUME OrderInv,
         serial_number_request_handle \/ sn_counter_updated \/ serial_number_request_ends
  PROVE  TagQuiet
<1>1. UNCHANGED <<envVars, stored, ready, paired_state, tag>>
  BY Zenon DEF serial_number_request_handle, sn_counter_updated, serial_number_request_ends,
               snVars, nfcVars
<1>2. is_paired' = is_paired /\ link' = link
  BY <1>1 DEF is_paired, envVars
<1>3. CASE serial_number_request_handle
  <2>1. /\ Idle /\ Handling("GET_SERIAL_NUMBER")
        /\ Post(<<>>) \/ UNCHANGED <<workq, events>>
    BY <1>3, Zenon DEF serial_number_request_handle
  <2>2. job'.then = job.then \/ job'.then = "served"
    <3>1. CASE is_paired /\ is_lookup_enabled /\ counter # None
      BY <1>3, <3>1 DEF serial_number_request_handle, Start
    <3>2. CASE ~(is_paired /\ is_lookup_enabled /\ counter # None)
      BY <1>3, <3>2, Zenon DEF serial_number_request_handle
    <3>. QED  BY <3>1, <3>2
  <2>3. CalmQueue
    BY <2>1, PostEmpty, CalmHandled
  <2>. QED  BY <1>1, <1>2, <2>1, <2>2, <2>3, OrderFacts, TagCalm DEF OtherThen, Jobs
<1>4. CASE sn_counter_updated \/ serial_number_request_ends
  <2>. DEFINE q == IF increment # job.arg THEN Submitted(workq, "sn") ELSE workq
              evs == <<Ev("SERIAL_NUMBER_CNT_CHANGED", NULL)>>
  <2>1. q \in Seq(SerialWorkItems) /\ (Queued(q, "keys") => Queued(workq, "keys"))
        /\ workq \in Seq(SerialWorkItems)
    BY SubmittedIn, OrderFacts DEF QueuesTyped, SerialWorkItems
  <2>2. /\ evs \in Seq(KeyEvent) /\ IdsOf(evs) \cap PairingCommands = {}
        /\ "SERIAL_NUMBER_CNT_CHANGED" \in IdsOf(evs)
    BY TagEvents
  <2>3. /\ PostOn(q, evs) \/ PostOn(workq, evs)
        /\ Ending("counted") \/ Ending("served")
        /\ batch' = batch
    BY <1>4, Zenon DEF sn_counter_updated, serial_number_request_ends, Post
  <2>. HIDE DEF q, evs
  <2>4. CalmQueue /\ IdsOf(evs) \subseteq WaitingIds'
    BY <2>1, <2>2, <2>3, CalmPosts
  <2>5. job.then \in {"counted", "served"} /\ job'.then = "none"
    BY <2>3, NoJobType DEF Ending
  <2>. QED  BY <1>1, <1>2, <2>2, <2>4, <2>5, TagCalm DEF OtherThen, Jobs
<1>. QED  BY <1>3, <1>4

LEMMA TagOff ==
  ASSUME ~ready', job'.then # "unpaired" \/ link' = "down"
  PROVE  TagInv'
BY DEF TagInv

LEMMA TagDisabled ==
  ASSUME OrderInv, fmna_disable \/ power_loss \/ fmna_factory_reset
  PROVE  TagInv'
<1>1. CASE fmna_disable
  <2>1. ready' = FALSE /\ link' = "down"
    BY <1>1, Zenon DEF fmna_disable
  <2>. QED  BY <2>1, TagOff
<1>2. CASE power_loss
  <2>1. ready' = FALSE /\ link' = "down"
    BY <1>2, Zenon DEF power_loss
  <2>. QED  BY <2>1, TagOff
<1>3. CASE fmna_factory_reset
  <2>1. ~ready /\ ready' = ready /\ job'.then = "erased"
    BY <1>3 DEF fmna_factory_reset, snVars, Start
  <2>. QED  BY <2>1, TagOff
<1>. QED  BY <1>1, <1>2, <1>3

LEMMA TagEnabled ==
  ASSUME OrderInv, fmna_enable
  PROVE  TagInv'
<1>. DEFINE paired == fmna_storage_pairing_data_check
<1>1. /\ Idle /\ job' = job /\ stored' = stored /\ link' = "down"
      /\ ready' = TRUE /\ paired_state' = paired /\ tag' = fmna_nfc_buffer_setup(paired)
      /\ state' = IF paired THEN "SEPARATED" ELSE "UNPAIRED"
  <2>1. Idle /\ job' = job /\ stored' = stored /\ link = "down" /\ UNCHANGED link
    BY Zenon DEF fmna_enable
  <2>2. /\ ready' = TRUE /\ paired_state' = paired /\ tag' = fmna_nfc_buffer_setup(paired)
        /\ state' = IF paired THEN "SEPARATED" ELSE "UNPAIRED"
    BY Zenon DEF fmna_enable
  <2>. QED  BY <2>1, <2>2
<1>2. job'.then = "none"
  BY <1>1, OrderFacts
<1>3. CASE paired
  <2>1. paired_state' = TRUE /\ is_paired' = TRUE /\ tag' = fmna_nfc_buffer_setup(TRUE)
    BY <1>1, <1>3 DEF is_paired
  <2>2. fmna_nfc_buffer_setup(TRUE)' = fmna_nfc_buffer_setup(TRUE)
    BY <1>1 DEF fmna_nfc_buffer_setup, counter
  <2>. QED  BY <1>1, <1>2, <2>1, <2>2 DEF TagInv, TagUp
<1>4. CASE ~paired
  <2>0. paired = FALSE
    BY <1>4 DEF fmna_storage_pairing_data_check
  <2>1. paired_state' = FALSE /\ is_paired' = FALSE /\ tag' = fmna_nfc_buffer_setup(FALSE)
    BY <1>1, <2>0 DEF is_paired
  <2>2. tag' = Tag("unpaired", 0)
    BY <2>1 DEF fmna_nfc_buffer_setup
  <2>. QED  BY <1>1, <1>2, <2>1, <2>2 DEF TagInv
<1>. QED  BY <1>3, <1>4

(* The news of the serial number, and of the state. *)
LEMMA TagCounted ==
  ASSUME OrderInv, TagInv, serial_number_cnt_changed
  PROVE  TagInv'
<1>1. /\ Idle /\ Handling("SERIAL_NUMBER_CNT_CHANGED") /\ Post(<<>>)
      /\ UNCHANGED <<envVars, stored, job, ready, paired_state>>
      /\ tag' = IF ready THEN fmna_nfc_buffer_setup(paired_state) ELSE tag
  BY Zenon DEF serial_number_cnt_changed
<1>2. job.then = "none" /\ job'.then = "none" /\ is_paired' = is_paired
  BY <1>1, OrderFacts DEF is_paired, envVars
<1>3. CASE ~ready
  BY <1>1, <1>2, <1>3, TagOff
<1>4. CASE ready
  <2>1. tag' = fmna_nfc_buffer_setup(paired_state)
    BY <1>1, <1>4
  <2>2. QueueStep(1, <<>>) /\ 1 \in 1..Len(Backlog) /\ Backlog[1].id = "SERIAL_NUMBER_CNT_CHANGED"
    BY <1>1, PostEmpty, Handled, OrderFacts
  <2>3. <<>> \in Seq(KeyEvent) /\ IdsOf(<<>>) \cap PairingCommands = {}
    BY PostEmpty
  <2>4. "STATE_CHANGED" \in WaitingIds => "STATE_CHANGED" \in WaitingIds'
    BY <2>2, <2>3, IdsRemain, OrderFacts
  <2>5. Behind => Behind'
    <3>1. QueuesTyped /\ 1 \in {0, 1} /\ Backlog[1].id # "STATE_CHANGED"
      BY <2>2, OrderFacts
    <3>. QED  BY <2>2, <2>3, <3>1, BehindKept
  <2>6. ~paired_state => tag' = Tag("unpaired", 0)
    BY <2>1, OrderFacts DEF fmna_nfc_buffer_setup, RestOK
  <2>7. paired_state => TagUp'
    <3>. SUFFICES ASSUME paired_state PROVE TagUp'
      OBVIOUS
    <3>1. paired_state = TRUE
      BY OrderFacts DEF RestOK
    <3>2. tag' = fmna_nfc_buffer_setup(TRUE)
      BY <2>1, <3>1
    <3>3. fmna_nfc_buffer_setup(TRUE)' = fmna_nfc_buffer_setup(TRUE)
      BY <1>1 DEF fmna_nfc_buffer_setup, counter
    <3>. QED  BY <3>2, <3>3 DEF TagUp
  <2>. QED  BY <1>1, <1>2, <2>4, <2>5, <2>6, <2>7 DEF TagInv, envVars
<1>. QED  BY <1>3, <1>4

LEMMA TagChanged ==
  ASSUME OrderInv, TagInv, state_changed
  PROVE  TagInv'
<1>1. /\ Idle /\ Handling("STATE_CHANGED") /\ Post(<<>>)
      /\ UNCHANGED <<envVars, stored, job, ready>>
      /\ paired_state' = IF ready THEN is_paired ELSE paired_state
      /\ tag' = IF paired_state' # paired_state THEN fmna_nfc_buffer_setup(paired_state') ELSE tag
  BY Zenon DEF state_changed
<1>2. job.then = "none" /\ job'.then = "none" /\ is_paired' = is_paired
  BY <1>1, OrderFacts DEF is_paired, envVars
<1>3. CASE ~ready
  BY <1>1, <1>2, <1>3, TagOff
<1>4. CASE ready
  <2>1. paired_state' = is_paired
    BY <1>1, <1>4, Zenon
  <2>2. "SERIAL_NUMBER_CNT_CHANGED" \in WaitingIds => "SERIAL_NUMBER_CNT_CHANGED" \in WaitingIds'
    <3>1. QueueStep(1, <<>>) /\ 1 \in 1..Len(Backlog) /\ Backlog[1].id = "STATE_CHANGED"
      BY <1>1, PostEmpty, Handled, OrderFacts
    <3>. QED  BY <3>1, PostEmpty, IdsRemain, OrderFacts
  <2>3. paired_state \in BOOLEAN /\ is_paired \in BOOLEAN
    BY OrderFacts DEF RestOK, is_paired
  <2>4. CASE ~is_paired
    <3>1. paired_state' = FALSE /\ is_paired' = FALSE
      BY <1>2, <2>1, <2>3, <2>4
    <3>2. tag' = Tag("unpaired", 0)
      <4>1. CASE paired_state
        <5>1. tag' = fmna_nfc_buffer_setup(FALSE)
          BY <1>1, <3>1, <4>1
        <5>. QED  BY <5>1 DEF fmna_nfc_buffer_setup
      <4>2. CASE ~paired_state
        <5>1. tag' = tag
          BY <1>1, <2>3, <3>1, <4>2
        <5>. QED  BY <1>4, <4>2, <5>1 DEF TagInv
      <4>. QED  BY <4>1, <4>2
    <3>. QED  BY <1>2, <3>1, <3>2 DEF TagInv
  <2>5. CASE is_paired
    <3>1. paired_state' = TRUE /\ is_paired' = TRUE
      BY <1>2, <2>1, <2>3, <2>5
    <3>2. fmna_nfc_buffer_setup(TRUE)' = fmna_nfc_buffer_setup(TRUE)
      BY <1>1 DEF fmna_nfc_buffer_setup, counter
    <3>3. TagUp' \/ "SERIAL_NUMBER_CNT_CHANGED" \in WaitingIds'
      <4>1. CASE paired_state
        <5>1. tag' = tag
          BY <1>1, <2>3, <3>1, <4>1
        <5>2. TagUp \/ "SERIAL_NUMBER_CNT_CHANGED" \in WaitingIds
          BY <1>2, <1>4, <2>5, <4>1 DEF TagInv
        <5>. QED  BY <2>2, <3>2, <5>1, <5>2 DEF TagUp
      <4>2. CASE ~paired_state
        <5>1. tag' = fmna_nfc_buffer_setup(TRUE)
          BY <1>1, <3>1, <4>2
        <5>. QED  BY <3>2, <5>1 DEF TagUp
      <4>. QED  BY <4>1, <4>2
    <3>. QED  BY <1>2, <3>1, <3>3 DEF TagInv
  <2>. QED  BY <2>4, <2>5
<1>. QED  BY <1>3, <1>4

(* The end of a pairing. *)
LEMMA TagUnpaired ==
  ASSUME OrderInv, TagInv, owner_unpaired, UNCHANGED snVars
  PROVE  TagInv'
<1>1. /\ Idle /\ Handling("PEER_DISCONNECTED") /\ state' = "UNPAIRED" /\ job'.then = "unpaired"
      /\ UNCHANGED <<workq, events, link>>
  BY DEF owner_unpaired, Start
<1>2. is_paired
  BY OrderUnpaired
<1>3. link = "down"
  <2>1. CalmQueue /\ "PEER_DISCONNECTED" \in WaitingIds
    BY <1>1, PostEmpty, CalmHandled
  <2>. QED  BY <2>1 DEF OrderInv, LinkOrder
<1>4. WaitingIds' \cap PairingCommands = {}
  <2>1. CalmQueue
    BY <1>1, PostEmpty, CalmHandled
  <2>. QED  BY <1>2, <2>1 DEF CalmQueue, OrderInv, LinkOrder, is_paired
<1>5. Behind'
  BY <1>4 DEF Behind, WaitingIds
<1>6. ~is_paired'
  BY <1>1 DEF is_paired
<1>. QED  BY <1>1, <1>3, <1>4, <1>5, <1>6 DEF TagInv, snVars, nfcVars

LEMMA TagUnpairingEnds ==
  ASSUME OrderInv, TagInv, unpairing_ends, UNCHANGED snVars
  PROVE  TagInv'
<1>. DEFINE evs == <<Ev("STATE_CHANGED", NULL)>>
<1>1. /\ job.then = "unpaired" /\ job'.then = "none" /\ PostOn(workq, evs)
      /\ UNCHANGED <<batch, state, link>>
  BY NoJobType DEF unpairing_ends, Post, Ending
<1>2. /\ evs \in Seq(KeyEvent) /\ IdsOf(evs) \cap PairingCommands = {}
      /\ "STATE_CHANGED" \in IdsOf(evs)
  BY TagEvents
<1>. HIDE DEF evs
<1>3. CalmQueue /\ "STATE_CHANGED" \in WaitingIds'
  BY <1>1, <1>2, CalmPosts, OrderFacts DEF QueuesTyped
<1>4. is_paired' = is_paired /\ ~is_paired
  BY <1>1 DEF is_paired, OrderInv, JobOrder
<1>. QED  BY <1>1, <1>3, <1>4 DEF TagInv, CalmQueue, snVars, nfcVars

(* A pairing begins. *)
LEMMA TagPairingWrites ==
  ASSUME OrderInv, TagInv, pairing_cp_write, UNCHANGED snVars
  PROVE  TagInv'
<1>1. /\ state = "UNPAIRED" /\ job.then # "finalized" /\ ~Pending("PEER_SECURITY_CHANGED", 1)
      /\ ~Pending("FINALIZE_PAIRING", 1) /\ ~Pending("PAIRING_COMPLETE", 1)
      /\ link \in {"up", "finalized"}
      /\ Write("FINALIZE_PAIRING", 0) \/ Write("PAIRING_COMPLETE", 0)
  BY Zenon DEF pairing_cp_write
<1>2. PICK id \in PairingCommands : Write(id, 0)
  BY <1>1 DEF PairingCommands
<1>3. id \in LinkWrites
  BY <1>2 DEF LinkWrites, PairingCommands
<1>4. WaitingIds \cap PairingCommands = {} /\ "PEER_SECURITY_CHANGED" \notin WaitingIds
  BY <1>1, PendingIs, OrderFacts DEF PeerIds, LinkWrites, PairingCommands
<1>5. job.then # "unpaired"
  BY <1>1, <1>4 DEF TagInv
<1>. DEFINE evs == <<EvArg(id, 1, 0)>>
<1>6. /\ QueueStep(0, evs) /\ evs \in Seq(KeyEvent) /\ Len(evs) = 1
      /\ UNCHANGED <<envVars, stored, job>>
  BY <1>1, <1>2, <1>3, <1>4, Written
<1>. HIDE DEF evs
<1>7. is_paired' = is_paired /\ ~is_paired
  BY <1>1, <1>6 DEF is_paired, envVars
<1>8. WaitingIds \subseteq WaitingIds'
  BY <1>6, IdsKept, OrderFacts
<1>9. "STATE_CHANGED" \in WaitingIds => Behind'
  <2>. SUFFICES ASSUME "STATE_CHANGED" \in WaitingIds PROVE Behind'
    OBVIOUS
  <2>1. PICK i \in 1..Len(Backlog) : Backlog[i].id = "STATE_CHANGED"
    BY DEF WaitingIds
  <2>2. Len(Backlog) \in Nat
    BY BacklogTyped, OrderFacts
  <2>3. /\ Len(Backlog') = Len(Backlog) + 1
        /\ \A m \in 1..Len(Backlog) : Backlog'[m] = Backlog[m]
    BY <1>6, <2>2 DEF QueueStep, Flow
  <2>. SUFFICES ASSUME NEW j \in 1..Len(Backlog'), Backlog'[j].id \in PairingCommands
                PROVE  i \in 1..Len(Backlog') /\ i < j /\ Backlog'[i].id = "STATE_CHANGED"
    BY DEF Behind
  <2>4. j \notin 1..Len(Backlog)
    BY <1>4, <2>3, WaitingAs
  <2>. QED  BY <2>1, <2>2, <2>3, <2>4
<1>. QED  BY <1>1, <1>5, <1>6, <1>7, <1>8, <1>9 DEF TagInv, envVars, snVars, nfcVars

LEMMA NotPaired ==
  ASSUME OrderInv, TagInv, NEW id \in PairingCommands, 1 \in 1..Len(Backlog), Backlog[1].id = id
  PROVE  ready /\ ~is_paired /\ ~paired_state /\ state = "UNPAIRED"
<1>1. id \in WaitingIds
  BY WaitingAs
<1>2. ready /\ state = "UNPAIRED" /\ ~is_paired
  BY <1>1 DEF OrderInv, LinkOrder, ReadyOrder, is_paired
<1>3. ~Behind
  BY BacklogTyped, OrderFacts DEF Behind
<1>. QED  BY <1>2, <1>3 DEF TagInv

LEMMA TagFinalize ==
  ASSUME OrderInv, TagInv, finalize_pairing_cmd_handle, UNCHANGED snVars
  PROVE  TagInv'
<1>1. /\ Idle /\ Handling("FINALIZE_PAIRING") /\ job'.then = "finalized"
      /\ UNCHANGED <<workq, events, state>>
  BY DEF finalize_pairing_cmd_handle, Start
<1>2. 1 \in 1..Len(Backlog) /\ Backlog[1].id = "FINALIZE_PAIRING"
  BY <1>1, PostEmpty, Handled, OrderFacts
<1>3. ready /\ ~is_paired /\ ~paired_state /\ is_paired' = is_paired
  BY <1>1, <1>2, NotPaired DEF PairingCommands, is_paired
<1>4. /\ paired_state' = FALSE /\ is_paired' = FALSE /\ UNCHANGED <<ready, tag>>
      /\ tag = Tag("unpaired", 0)
  BY <1>3, OrderFacts DEF RestOK, is_paired, TagInv, snVars, nfcVars
<1>. QED  BY <1>1, <1>4 DEF TagInv

LEMMA TagComplete ==
  ASSUME OrderInv, TagInv, pairing_complete_cmd_handle, UNCHANGED snVars
  PROVE  TagInv'
<1>. DEFINE evs == <<Ev("STATE_CHANGED", NULL)>>
<1>1. /\ Idle /\ Handling("PAIRING_COMPLETE") /\ Post(evs) /\ job'.then = "started"
      /\ state' = "CONNECTED"
  BY DEF pairing_complete_cmd_handle, Start
<1>2. evs \in Seq(KeyEvent) /\ IdsOf(evs) \cap PairingCommands = {}
      /\ "STATE_CHANGED" \in IdsOf(evs)
  BY TagEvents
<1>. HIDE DEF evs
<1>3. "STATE_CHANGED" \in WaitingIds'
  BY <1>1, <1>2, CalmHandled
<1>4. 1 \in 1..Len(Backlog) /\ Backlog[1].id = "PAIRING_COMPLETE"
  BY <1>1, <1>2, Handled, OrderFacts
<1>5. ready /\ ~paired_state /\ is_paired'
  BY <1>1, <1>4, NotPaired DEF PairingCommands, is_paired
<1>. QED  BY <1>1, <1>3, <1>5 DEF TagInv, snVars, nfcVars

LEMMA TagStutters ==
  ASSUME OrderInv, TagInv, UNCHANGED vars
  PROVE  TagInv'
<1>1. CalmQueue /\ is_paired' = is_paired
  BY CalmSame DEF vars, queueVars, envVars, Backlog, is_paired
<1>2. TagQuiet
  BY <1>1, TagCalm DEF vars, envVars, snVars, nfcVars
<1>. QED  BY <1>2, TagKept

LEMMA TagNext ==
  ASSUME OrderInv, KeysInv, JobsInv, TagInv, [Next]_vars
  PROVE  TagInv'
<1>1. CASE UNCHANGED vars
  BY <1>1, TagStutters
<1>2. CASE KeysNext /\ UNCHANGED snVars
  <2>1. CASE \/ owner_unpaired \/ unpairing_ends \/ pairing_cp_write
             \/ finalize_pairing_cmd_handle \/ pairing_complete_cmd_handle
    BY <1>2, <2>1, TagUnpaired, TagUnpairingEnds, TagPairingWrites, TagFinalize, TagComplete
  <2>2. CASE ~(\/ owner_unpaired \/ unpairing_ends \/ pairing_cp_write
               \/ finalize_pairing_cmd_handle \/ pairing_complete_cmd_handle)
    <3>1. TagQuiet
      BY <1>2, <2>2, TagHandlers, TagOwner, TagPeer, TagOwnerWrites, TagStored, TagJobs, Zenon
      DEF KeysNext
    <3>. QED  BY <3>1, TagKept
  <2>. QED  BY <2>1, <2>2
<1>3. CASE owner_query
  BY <1>3, TagOwnerWrites, TagKept DEF owner_query
<1>4. CASE \/ nfc_callback \/ sn_counter_update_again \/ fmna_serial_number_lookup_enable
           \/ sn_lookup_timeout_work_handle \/ sn_counter_update_work_handle
           \/ sn_counter_update \/ factory_reset_ends
  BY <1>4, TagReads, TagKept
<1>5. CASE serial_number_request_handle \/ sn_counter_updated \/ serial_number_request_ends
  BY <1>5, TagCounts, TagKept
<1>6. CASE serial_number_cnt_changed
  BY <1>6, TagCounted
<1>7. CASE state_changed
  BY <1>7, TagChanged
<1>8. CASE fmna_enable
  BY <1>8, TagEnabled
<1>9. CASE fmna_disable \/ power_loss \/ fmna_factory_reset
  BY <1>9, TagDisabled
<1>. QED
  BY <1>1, <1>2, <1>3, <1>4, <1>5, <1>6, <1>7, <1>8, <1>9, Zenon DEF Next

LEMMA TagInitially ==
  ASSUME Init
  PROVE  SignedInv /\ JobsInv /\ TagInv
<1>1. ready = FALSE /\ state = "DISABLED" /\ job = NoJob /\ link = "down"
  BY DEF Init, KeysInit
<1>. QED  BY <1>1, NoJobType DEF SignedInv, JobsInv, KeyJobs, TagInv, Finalized, is_paired

(* fmna_nfc.c: whatever was paired, queried, written and reset in between,  *)
(* an accessory at rest serves the tag of its state, with the counter that  *)
(* is stored.                                                               *)
THEOREM TagIsCurrent ==
  ASSUME InTime
  PROVE  Spec => []TagCurrent
<1>1. Init => SignedInv /\ JobsInv /\ TagInv
  BY TagInitially
<1>2. OrderInv /\ KeysInv /\ SignedInv /\ JobsInv /\ TagInv /\ [Next]_vars
        => SignedInv' /\ JobsInv' /\ TagInv'
  BY OrderNext, OrderStutters, SignedNext, JobsNext, TagNext
<1>3. OrderInv /\ SignedInv /\ TagInv => TagCurrent
  <2>. SUFFICES ASSUME OrderInv, SignedInv, TagInv, ready, Idle, NothingQueued
                PROVE  tag = IF is_paired THEN Tag("paired", counter.n) ELSE Tag("unpaired", 0)
    BY DEF TagCurrent
  <2>1. WaitingIds = {} /\ job.then = "none" /\ job.writes = <<>>
    BY EmptyBacklog, IdleWrites DEF NothingQueued
  <2>2. paired_state = is_paired
    BY <2>1 DEF TagInv
  <2>3. CASE ~is_paired
    BY <2>2, <2>3 DEF TagInv
  <2>4. CASE is_paired
    <3>1. TagUp
      BY <2>1, <2>2, <2>4 DEF TagInv
    <3>2. \A i \in TagItems : stored[i] # None
      <4>. SUFFICES ASSUME NEW i \in TagItems PROVE stored[i] # None
        OBVIOUS
      <4>1. PICK v \in Keys \ {None} : <<i, v>> \in Outcome
        BY <2>4 DEF SignedInv, Signed
      <4>. QED  BY <2>1, <4>1, TagItemsOther, StoredIs
    <3>3. tag = Tag("paired", counter.n)
      BY <3>1, <3>2 DEF TagUp, fmna_nfc_buffer_setup, TagItems, counter
    <3>. QED  BY <2>4, <3>3
  <2>. QED  BY <2>3, <2>4
<1>. QED  BY <1>1, <1>2, <1>3, KeysAreInvariant, OrderIsInvariant, PTL DEF Spec

=============================================================================
