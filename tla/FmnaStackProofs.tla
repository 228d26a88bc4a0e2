-------------------------- MODULE FmnaStackProofs --------------------------
(***************************************************************************)
(* Safety of FmnaStack, for every value of its constants: every variable   *)
(* has its type, temporary modes end, references balance, unencrypted      *)
(* links are timed, the connection records of fmna_conn.c agree with the   *)
(* links; then the pairing candidate, the owners, the nearby timer, the    *)
(* keys, the location reports, findability, the payload on air and the     *)
(* transitions of the state machine.                                       *)
(*                                                                         *)
(* For the types the variables are split in two: what a transition of      *)
(* fmna_state.c touches, proved once for state_set() and cited by every    *)
(* handler that calls it, and the rest.  Then there is one lemma per       *)
(* action.  The later invariants lean on one another: LinkInv on           *)
(* RecordsInv, OwnerInv on LinkInv, and KeysInv, LocationInv, FindInv and  *)
(* MatchInv on OwnerInv.                                                   *)
(***************************************************************************)
EXTENDS FmnaStack, FmnaEventsProofs, TLAPS, SequenceTheorems, FiniteSetTheorems

-----------------------------------------------------------------------------
(* The queues. *)

(* k_work_submit() keeps a workqueue of work items, adds the item and no    *)
(* other.                                                                   *)
LEMMA SubmittedProperties ==
  ASSUME NEW q \in Seq(WorkItems), NEW item \in WorkItems
  PROVE  /\ Submitted(q, item) \in Seq(WorkItems)
         /\ \A w \in WorkItems :
              Queued(Submitted(q, item), w) => Queued(q, w) \/ w = item
<1>1. CASE Queued(q, item)
  BY <1>1 DEF Submitted
<1>2. CASE ~Queued(q, item)
  <2>1. Submitted(q, item) = Append(q, item)
    BY <1>2 DEF Submitted
  <2>2. /\ Append(q, item) \in Seq(WorkItems)
        /\ Len(Append(q, item)) = Len(q) + 1
        /\ \A i \in 1..Len(q) : Append(q, item)[i] = q[i]
        /\ Append(q, item)[Len(q) + 1] = item
    BY AppendProperties
  <2>3. ASSUME NEW w \in WorkItems, Queued(Append(q, item), w)
        PROVE  Queued(q, w) \/ w = item
    <3>1. PICK i \in 1..Len(q) + 1 : Append(q, item)[i] = w
      BY <2>2, <2>3 DEF Queued
    <3>2. Len(q) \in Nat
      BY LenProperties
    <3>3. CASE i = Len(q) + 1
      BY <3>1, <3>3, <2>2
    <3>4. CASE i \in 1..Len(q)
      BY <3>1, <3>4, <2>2 DEF Queued
    <3>. QED  BY <3>2, <3>3, <3>4
  <2>. QED  BY <2>1, <2>2, <2>3
<1>. QED  BY <1>1, <1>2

(* k_work_cancel() leaves a workqueue of work items. *)
LEMMA CancelledType ==
  ASSUME NEW q \in Seq(WorkItems), NEW item
  PROVE  Cancelled(q, item) \in Seq(WorkItems)
<1>1. CASE Queued(q, item)
  <2>. DEFINE i == CHOOSE i \in 1..Len(q) : q[i] = item
  <2>1. i \in 1..Len(q)
    BY <1>1 DEF Queued
  <2>2. Len(q) \in Nat
    BY LenProperties
  <2>. HIDE DEF i
  <2>3. SubSeq(q, 1, i - 1) \in Seq(WorkItems)
    <3>1. \A j \in 1..(i - 1) : q[j] \in WorkItems
      BY <2>1, <2>2, ElementOfSeq
    <3>. QED  BY <2>1, <2>2, <3>1, SubSeqProperties
  <2>4. SubSeq(q, i + 1, Len(q)) \in Seq(WorkItems)
    <3>1. \A j \in (i + 1)..Len(q) : q[j] \in WorkItems
      BY <2>1, <2>2, ElementOfSeq
    <3>. QED  BY <2>1, <2>2, <3>1, SubSeqProperties
  <2>5. Cancelled(q, item) = SubSeq(q, 1, i - 1) \o SubSeq(q, i + 1, Len(q))
    BY <1>1 DEF Cancelled, i
  <2>. QED  BY <2>3, <2>4, <2>5, ConcatProperties
<1>2. CASE ~Queued(q, item)
  BY <1>2 DEF Cancelled
<1>. QED  BY <1>1, <1>2

(* Posting events keeps both queues well-formed. *)
LEMMA PostType ==
  ASSUME NEW q \in Seq(WorkItems), NEW evs \in Seq(Event), events \in Seq(Event),
         PostOn(q, evs)
  PROVE  workq' \in Seq(WorkItems) /\ events' \in Seq(Event)
<1>1. Submitted(q, "events") \in Seq(WorkItems)
  BY SubmittedProperties DEF WorkItems
<1>2. events \o evs \in Seq(Event)
  BY ConcatProperties
<1>. QED  BY <1>1, <1>2 DEF PostOn

(* The events the stack posts are events. *)
LEMMA EventType ==
  /\ \A s \in Slots : \A id \in PeerEvents : \A n \in Nat :
       EvArg(id, s, n) \in Event /\ Ev(id, s) \in Event
  /\ \A id \in StackEvents : \A n \in Nat :
       EvArg(id, NULL, n) \in Event /\ Ev(id, NULL) \in Event
  /\ <<>> \in Seq(Event)
  /\ \A e \in Event : <<e>> \in Seq(Event)
BY DEF Event, EvArg, Ev

-----------------------------------------------------------------------------
(* Types. *)

(* What advertising may be after a step that does not use it for a link: as *)
(* before, off, or on a connection object that is free.                     *)
AdvStep ==
  \/ adv' = adv
  \/ adv' = NoAdv
  \/ /\ adv' \in [kind : AdvKinds, slot : Slots]
     /\ adv'.slot \notin Live
     /\ refs[adv'.slot] <= 0

(* bt_le_ext_adv_start() reserves a connection object nobody holds.         *)
LEMMA AdvOnAirStep ==
  ASSUME NEW kind \in AdvKinds, adv' = AdvOnAir(kind)
  PROVE  AdvStep
<1>. DEFINE free == {s \in Slots : s \notin Live /\ refs[s] <= 0}
            chosen == CHOOSE s \in free : TRUE
<1>1. CASE free = {}
  BY <1>1 DEF AdvOnAir, AdvStep
<1>2. CASE free # {}
  <2>1. chosen \in free
    BY <1>2
  <2>2. adv' = [kind |-> kind, slot |-> chosen]
    BY <1>2 DEF AdvOnAir
  <2>. QED  BY <2>1, <2>2 DEF AdvStep
<1>. QED  BY <1>1, <1>2

(* Every way the state machine starts or restarts advertising.              *)
LEMMA AdvertiseStep ==
  ASSUME state \in States, NEW below \in BOOLEAN,
         \/ adv' = advertise_restart(below)
         \/ adv' = unpaired_adv_start
         \/ \E kind \in AdvKinds : adv' = paired_adv_start(kind)
  PROVE  AdvStep
<1>1. ASSUME adv' = unpaired_adv_start PROVE AdvStep
  BY <1>1, AdvOnAirStep DEF unpaired_adv_start, AdvKinds, AdvStep
<1>2. ASSUME NEW kind \in AdvKinds, adv' = paired_adv_start(kind) PROVE AdvStep
  BY <1>2, AdvOnAirStep DEF paired_adv_start, AdvStep
<1>3. ASSUME adv' = advertise_restart(below) PROVE AdvStep
  <2>1. CASE ~below
    BY <2>1, <1>3 DEF advertise_restart, AdvStep
  <2>2. CASE below /\ state = "UNPAIRED"
    BY <2>2, <1>1, <1>3 DEF advertise_restart
  <2>3. CASE below /\ state \in {"CONNECTED", "NEARBY"}
    BY <2>3, <1>2, <1>3 DEF advertise_restart, AdvKinds
  <2>4. CASE below /\ state = "SEPARATED"
    BY <2>4, <1>2, <1>3 DEF advertise_restart, AdvKinds
  <2>5. CASE below /\ state = "DISABLED"
    BY <2>5, <1>3 DEF advertise_restart, AdvStep
  <2>. QED  BY <2>1, <2>2, <2>3, <2>4, <2>5 DEF States
<1>. QED  BY <1>1, <1>2, <1>3

(* An advertising step keeps the type of adv. *)
LEMMA AdvStepType ==
  ASSUME adv \in Adv, AdvStep
  PROVE  adv' \in Adv
BY DEF AdvStep, Adv

(* What a transition of the state machine may change is of its type.        *)
TransitionTypeOK ==
  /\ workq \in Seq(WorkItems)
  /\ events \in Seq(Event)
  /\ adv \in Adv
  /\ state \in States
  /\ is_maintained \in BOOLEAN
  /\ unpair_pending \in BOOLEAN
  /\ persistent_conn_adv \in BOOLEAN
  /\ persistent_work \in BOOLEAN
  /\ pairing_mode \in BOOLEAN
  /\ pairing_timer \in BOOLEAN
  /\ nearby_separated_timeout \in 0..NEARBY_SEPARATED_TIMEOUT_MAX
  /\ nearby_timer \in BOOLEAN
  /\ location_reported \in BOOLEAN
  /\ paired_reported \in BOOLEAN
  /\ announced \in States
  /\ keys_running \in BOOLEAN
  /\ pairing_items \subseteq PairingItems

(* The end of state_set() keeps the types and posts onto the workqueue.     *)
LEMMA ReportedType ==
  ASSUME TransitionTypeOK, NEW q \in Seq(WorkItems), NEW ok \in BOOLEAN,
         NEW new \in States, NEW n \in 1..2, reported_if(ok, q, new, n)
  PROVE  /\ workq' \in Seq(WorkItems)
         /\ events' \in Seq(Event)
         /\ location_reported' \in BOOLEAN
         /\ paired_reported' \in BOOLEAN
         /\ announced' \in States
<1>1. CASE ok
  <2>1. reported(q, new, n)
    BY <1>1 DEF reported_if
  <2>2. \A i \in 1..n : Ev("STATE_CHANGED", NULL) \in Event
    BY EventType DEF StackEvents
  <2>3. [i \in 1..n |-> Ev("STATE_CHANGED", NULL)] \in Seq(Event)
    BY <2>2, IsASeq
  <2>4. workq' \in Seq(WorkItems) /\ events' \in Seq(Event)
    BY <2>1, <2>3, PostType DEF reported, TransitionTypeOK
  <2>5. location_reported' \in BOOLEAN /\ announced' \in States
    BY <2>1 DEF reported, is_location_available
  <2>6. paired_reported' \in BOOLEAN
    BY <2>1, Zenon DEF reported, TransitionTypeOK
  <2>. QED  BY <2>4, <2>5, <2>6
<1>2. CASE ~ok
  <2>1. unreported(q)
    BY <1>2 DEF reported_if
  <2>2. workq' \in Seq(WorkItems) /\ events' \in Seq(Event)
    BY <2>1, EventType, PostType DEF unreported, TransitionTypeOK
  <2>. QED  BY <2>1, <2>2 DEF unreported, reportVars, TransitionTypeOK
<1>. QED  BY <1>1, <1>2

(* Each transition keeps the types of what it changes. *)
LEMMA UnchangedStateType ==
  ASSUME TransitionTypeOK, NEW q \in Seq(WorkItems), NEW below \in BOOLEAN,
         NEW new \in States, unchanged_state(q, below, new)
  PROVE  /\ AdvStep
         /\ keys_running' \in BOOLEAN /\ pairing_items' \subseteq PairingItems
              => TransitionTypeOK'
<1>1. AdvStep
  BY AdvertiseStep DEF unchanged_state, TransitionTypeOK
<1>2. workq' \in Seq(WorkItems) /\ events' \in Seq(Event)
  BY EventType, PostType DEF unchanged_state, unreported, TransitionTypeOK
<1>3. adv' \in Adv
  BY <1>1, AdvStepType DEF TransitionTypeOK
<1>4. UNCHANGED <<state, modeVars, nearbyVars, reportVars>>
  BY DEF unchanged_state, unreported
<1>. QED
  BY <1>1, <1>2, <1>3, <1>4 DEF TransitionTypeOK, modeVars, nearbyVars, reportVars

LEMMA ForbiddenType ==
  ASSUME TransitionTypeOK, NEW q \in Seq(WorkItems), NEW new \in States,
         forbidden_transition(q, new)
  PROVE  /\ AdvStep
         /\ keys_running' \in BOOLEAN /\ pairing_items' \subseteq PairingItems
              => TransitionTypeOK'
<1>1. workq' \in Seq(WorkItems) /\ events' \in Seq(Event)
  BY EventType, PostType DEF forbidden_transition, unreported, TransitionTypeOK
<1>2. state' = new /\ UNCHANGED <<adv, modeVars, nearbyVars, reportVars>>
  BY DEF forbidden_transition, unreported
<1>. QED
  BY <1>1, <1>2 DEF TransitionTypeOK, AdvStep, modeVars, nearbyVars, reportVars

LEMMA EnterUnpairedType ==
  ASSUME TransitionTypeOK, NEW q \in Seq(WorkItems), NEW new \in States,
         enter_unpaired(q, new)
  PROVE  TransitionTypeOK' /\ AdvStep
<1>1. AdvStep
  BY AdvOnAirStep DEF enter_unpaired, AdvStep, AdvKinds
<1>2. /\ workq' \in Seq(WorkItems)
      /\ events' \in Seq(Event)
      /\ location_reported' \in BOOLEAN
      /\ paired_reported' \in BOOLEAN
      /\ announced' \in States
  <2>1. (AUTO_ENTER => free_conn) \in BOOLEAN
    BY DEF free_conn
  <2>2. reported_if(AUTO_ENTER => free_conn, q, new, 1)
    BY Zenon DEF enter_unpaired
  <2>. QED  BY <2>1, <2>2, 1 \in 1..2, ReportedType
<1>3. adv' \in Adv
  BY <1>1, AdvStepType DEF TransitionTypeOK
<1>4. nearby_separated_timeout' \in 0..NEARBY_SEPARATED_TIMEOUT_MAX
  BY DEF enter_unpaired, TransitionTypeOK, NEARBY_SEPARATED_TIMEOUT_MAX,
         NEARBY_SEPARATED_TIMEOUT_DEFAULT
<1>5. state' \in States /\ pairing_items' \subseteq PairingItems
  BY DEF enter_unpaired, fmna_storage_pairing_data_delete, TransitionTypeOK
<1>6. /\ is_maintained' \in BOOLEAN
      /\ unpair_pending' \in BOOLEAN
      /\ persistent_conn_adv' \in BOOLEAN
      /\ persistent_work' \in BOOLEAN
      /\ pairing_mode' \in BOOLEAN
      /\ pairing_timer' \in BOOLEAN
      /\ nearby_timer' \in BOOLEAN
      /\ keys_running' \in BOOLEAN
  BY Zenon DEF enter_unpaired, TransitionTypeOK, fmna_keys_service_stop
<1>. QED  BY <1>1, <1>2, <1>3, <1>4, <1>5, <1>6 DEF TransitionTypeOK

LEMMA EnterConnectedType ==
  ASSUME TransitionTypeOK, NEW q \in Seq(WorkItems), NEW below \in BOOLEAN,
         NEW new \in States, enter_connected(q, below, new)
  PROVE  /\ AdvStep
         /\ keys_running' \in BOOLEAN /\ pairing_items' \subseteq PairingItems
              => TransitionTypeOK'
<1>1. AdvStep
  BY AdvertiseStep DEF enter_connected, AdvStep, AdvKinds, TransitionTypeOK
<1>2. /\ workq' \in Seq(WorkItems)
      /\ events' \in Seq(Event)
      /\ location_reported' \in BOOLEAN
      /\ paired_reported' \in BOOLEAN
      /\ announced' \in States
  <2>1. (state # "UNPAIRED" /\ below => paired_adv_ok) \in BOOLEAN
    BY DEF paired_adv_ok, free_conn
  <2>2. reported_if(state # "UNPAIRED" /\ below => paired_adv_ok, q, new, 1)
    BY Zenon DEF enter_connected
  <2>. QED  BY <2>1, <2>2, 1 \in 1..2, ReportedType
<1>3. adv' \in Adv
  BY <1>1, AdvStepType DEF TransitionTypeOK
<1>4. state' \in States
  BY DEF enter_connected
<1>5. /\ nearby_timer' \in BOOLEAN
      /\ pairing_mode' \in BOOLEAN
      /\ pairing_timer' \in BOOLEAN
      /\ is_maintained' \in BOOLEAN
  BY Zenon DEF enter_connected, TransitionTypeOK, nearby_timer_stop, pairing_mode_exit
<1>6. UNCHANGED <<unpair_pending, persistent_conn_adv, persistent_work,
                  nearby_separated_timeout>>
  BY DEF enter_connected
<1>. QED  BY <1>1, <1>2, <1>3, <1>4, <1>5, <1>6 DEF TransitionTypeOK

LEMMA EnterNearbyType ==
  ASSUME TransitionTypeOK, NEW q \in Seq(WorkItems), NEW c,
         NEW new \in States, enter_nearby(q, c, new), UNCHANGED keyVars
  PROVE  TransitionTypeOK' /\ AdvStep
<1>1. AdvStep
  <2>1. PICK kind \in AdvKinds : adv' = paired_adv_start(kind)
    BY DEF enter_nearby, AdvKinds
  <2>. QED  BY <2>1, AdvertiseStep DEF TransitionTypeOK
<1>2. state' \in States
  BY DEF enter_nearby, States
<1>3. /\ workq' \in Seq(WorkItems)
      /\ events' \in Seq(Event)
      /\ location_reported' \in BOOLEAN
      /\ paired_reported' \in BOOLEAN
      /\ announced' \in States
  <2>1. paired_adv_ok \in BOOLEAN
    BY DEF paired_adv_ok, free_conn
  <2>2. PICK n \in 1..2 : reported_if(paired_adv_ok, q, state', n)
    BY DEF enter_nearby
  <2>. QED  BY <1>2, <2>1, <2>2, ReportedType
<1>4. adv' \in Adv
  BY <1>1, AdvStepType DEF TransitionTypeOK
<1>5. /\ persistent_work' \in BOOLEAN
      /\ persistent_conn_adv' \in BOOLEAN
      /\ nearby_timer' \in BOOLEAN
  BY Zenon DEF enter_nearby, TransitionTypeOK
<1>6. UNCHANGED <<is_maintained, unpair_pending, pairing_mode, pairing_timer,
                  nearby_separated_timeout, keyVars>>
  BY DEF enter_nearby
<1>. QED
  BY <1>1, <1>2, <1>3, <1>4, <1>5, <1>6 DEF TransitionTypeOK, keyVars

LEMMA EnterSeparatedType ==
  ASSUME TransitionTypeOK, NEW q \in Seq(WorkItems), NEW new \in States,
         enter_separated(q, new)
  PROVE  /\ AdvStep
         /\ keys_running' \in BOOLEAN /\ pairing_items' \subseteq PairingItems
              => TransitionTypeOK'
<1>1. AdvStep
  BY AdvertiseStep DEF enter_separated, AdvKinds, TransitionTypeOK
<1>2. /\ workq' \in Seq(WorkItems)
      /\ events' \in Seq(Event)
      /\ location_reported' \in BOOLEAN
      /\ paired_reported' \in BOOLEAN
      /\ announced' \in States
  <2>1. paired_adv_ok \in BOOLEAN
    BY DEF paired_adv_ok, free_conn
  <2>. QED  BY <2>1, ReportedType DEF enter_separated
<1>3. adv' \in Adv
  BY <1>1, AdvStepType DEF TransitionTypeOK
<1>4. state' = new /\ UNCHANGED <<modeVars, nearbyVars>>
  BY DEF enter_separated
<1>. QED
  BY <1>1, <1>2, <1>3, <1>4 DEF TransitionTypeOK, modeVars, nearbyVars

LEMMA EnterDisabledType ==
  ASSUME TransitionTypeOK, NEW q \in Seq(WorkItems), NEW new \in States,
         enter_disabled(q, new)
  PROVE  TransitionTypeOK' /\ AdvStep
<1>1. AdvStep
  BY DEF enter_disabled, AdvStep
<1>2. Cancelled(q, "nearby") \in Seq(WorkItems)
  BY CancelledType
<1>3. /\ workq' \in Seq(WorkItems)
      /\ events' \in Seq(Event)
      /\ location_reported' \in BOOLEAN
      /\ paired_reported' \in BOOLEAN
      /\ announced' \in States
  <2>1. reported_if(TRUE, Cancelled(q, "nearby"), new, 1)
    BY Zenon DEF enter_disabled, reported_if
  <2>. QED  BY <1>2, <2>1, 1 \in 1..2, ReportedType
<1>4. adv' \in Adv
  BY <1>1, AdvStepType DEF TransitionTypeOK
<1>5. keys_running' \in BOOLEAN
  BY Zenon DEF enter_disabled, TransitionTypeOK, fmna_keys_service_stop
<1>. QED
  BY <1>1, <1>3, <1>4, <1>5 DEF TransitionTypeOK, enter_disabled

(* state_set() as a whole. *)
LEMMA StateSetType ==
  ASSUME TransitionTypeOK, NEW q \in Seq(WorkItems), NEW below \in BOOLEAN,
         NEW c, NEW new \in States, state_set(q, below, c, new)
  PROVE  TransitionTypeOK' /\ AdvStep
BY UnchangedStateType, ForbiddenType, EnterUnpairedType, EnterConnectedType,
   EnterNearbyType, EnterSeparatedType, EnterDisabledType
DEF state_set, TransitionTypeOK, keyVars

(* The rest of the types: what a transition of the state machine does not   *)
(* touch.                                                                   *)
RestTypeOK ==
  /\ batch \in Seq(Event)
  /\ connected \subseteq Slots
  /\ closing \subseteq Slots
  /\ encrypted \subseteq Slots
  /\ le_keys \in [Slots -> {"none", "ltk", "pairing"}]
  /\ refs \in [Slots -> Int]
  /\ is_valid \subseteq Slots
  /\ is_disconnecting \subseteq Slots
  /\ owner \subseteq Slots
  /\ persistent \subseteq Slots
  /\ conn_timeout \subseteq Slots
  /\ max_connections \in Nat
  /\ max_work \in [conn : Conns, waiting : SUBSET Slots, scheduled : BOOLEAN]
  /\ is_paired_adv_paused \in BOOLEAN
  /\ PairTypeOK
  /\ ready \in BOOLEAN

(* The type invariant is the conjunction of the two. *)
LEMMA TypeSplit ==
  /\ TypeOK <=> TransitionTypeOK /\ RestTypeOK
  /\ TypeOK' <=> TransitionTypeOK' /\ RestTypeOK'
BY DEF TypeOK, TransitionTypeOK, RestTypeOK, QueueTypeOK, ConnTypeOK, StateTypeOK

(* The event that is handled has the type its id says. *)
LEMMA HandlingType ==
  ASSUME RestTypeOK, NEW id, Handling(id)
  PROVE  /\ Head(batch) \in Event
         /\ batch' \in Seq(Event)
         /\ Head(batch).arg \in Nat
         /\ id \in PeerEvents => Head(batch).conn \in Slots
         /\ id \in StackEvents => Head(batch).conn = NULL
<1>1. Head(batch) \in Event /\ batch' \in Seq(Event)
  BY HeadTailProperties DEF RestTypeOK, Handling
<1>2. Head(batch).id = id
  BY DEF Handling
<1>3. PeerEvents \cap StackEvents = {}
  BY DEF PeerEvents, StackEvents, LinkEvents, ConfigEvents, PairEvents
<1>. QED  BY <1>1, <1>2, <1>3 DEF Event

(* Running a work item takes it off the queue. *)
LEMMA RunningType ==
  ASSUME TransitionTypeOK, RestTypeOK, NEW w, Running(w)
  PROVE  Tail(workq) \in Seq(WorkItems) /\ batch' \in Seq(Event)
BY HeadTailProperties DEF Running, TransitionTypeOK, RestTypeOK

(* Posting from a handler. *)
LEMMA PostedType ==
  ASSUME TransitionTypeOK,
         \/ Post(<<>>)
         \/ \E e \in Event : Post(<<e>>)
  PROVE  workq' \in Seq(WorkItems) /\ events' \in Seq(Event)
BY EventType, PostType DEF Post, TransitionTypeOK

LEMMA DisconnectType ==
  ASSUME RestTypeOK, NEW S, Disconnect(S)
  PROVE  connected' \subseteq Slots /\ closing' \subseteq Slots
BY DEF RestTypeOK, Disconnect

-----------------------------------------------------------------------------
(* Type correctness of the steps of the Bluetooth host. *)

(* What fmna_conn.c leaves alone of the state machine and of fmna_pair.c.   *)
LEMMA AboveConn ==
  ASSUME TransitionTypeOK, RestTypeOK, UNCHANGED aboveConn,
         workq' \in Seq(WorkItems), events' \in Seq(Event),
         adv' \in Adv
  PROVE  /\ TransitionTypeOK'
         /\ is_paired_adv_paused' \in BOOLEAN
         /\ PairTypeOK'
         /\ ready' \in BOOLEAN
<1>1. UNCHANGED <<stateVars, pairVars, ready>>
  BY DEF aboveConn
<1>. QED
  BY <1>1
  DEF stateVars, modeVars, nearbyVars, reportVars, keyVars, pairVars,
      TransitionTypeOK, RestTypeOK, PairTypeOK

LEMMA LinkUpType ==
  ASSUME TypeOK, link_up
  PROVE  TypeOK'
<1>. DEFINE s == adv.slot
<1>1. TransitionTypeOK /\ RestTypeOK
  BY TypeSplit
<1>2. connected_cb /\ UNCHANGED aboveConn
  BY DEF link_up
<1>3. s \in Slots
  BY <1>1, <1>2 DEF connected_cb, TransitionTypeOK, Adv, NoAdv
<1>4. workq' \in Seq(WorkItems) /\ events' \in Seq(Event)
  <2>1. Ev("PEER_CONNECTED", s) \in Event
    BY <1>3, EventType DEF PeerEvents, LinkEvents
  <2>2. CASE is_enabled
    BY <1>1, <1>2, <2>1, <2>2, PostedType DEF connected_cb
  <2>3. CASE ~is_enabled
    BY <1>1, <1>2, <2>3 DEF connected_cb, TransitionTypeOK
  <2>. QED  BY <2>2, <2>3
<1>5. adv' \in Adv
  BY <1>2 DEF connected_cb, Adv
<1>6. /\ connected' \subseteq Slots
      /\ encrypted' \subseteq Slots
      /\ le_keys' \in [Slots -> {"none", "ltk", "pairing"}]
      /\ refs' \in [Slots -> Int]
      /\ is_valid' \subseteq Slots
      /\ conn_timeout' \subseteq Slots
  BY <1>1, <1>2, <1>3 DEF connected_cb, RestTypeOK, conn_timeout_work_schedule
<1>7. UNCHANGED <<batch, closing, is_disconnecting, owner, persistent, limitVars>>
  BY <1>2 DEF connected_cb
<1>. QED
  BY <1>1, <1>2, <1>4, <1>5, <1>6, <1>7, AboveConn, TypeSplit DEF RestTypeOK, limitVars

LEMMA LinkDownType ==
  ASSUME TypeOK, NEW s \in Slots, link_down(s)
  PROVE  TypeOK'
<1>1. TransitionTypeOK /\ RestTypeOK
  BY TypeSplit
<1>2. disconnected_cb(s) /\ UNCHANGED aboveConn
  BY DEF link_down
<1>3. workq' \in Seq(WorkItems) /\ events' \in Seq(Event)
  <2>1. Ev("PEER_DISCONNECTED", s) \in Event
    BY EventType DEF PeerEvents, LinkEvents
  <2>2. CASE is_enabled
    BY <1>1, <1>2, <2>1, <2>2, PostedType DEF disconnected_cb
  <2>3. CASE ~is_enabled
    BY <1>1, <1>2, <2>3 DEF disconnected_cb, TransitionTypeOK
  <2>. QED  BY <2>2, <2>3
<1>4. /\ connected' \subseteq Slots
      /\ closing' \subseteq Slots
      /\ encrypted' \subseteq Slots
      /\ is_disconnecting' \subseteq Slots
      /\ conn_timeout' \subseteq Slots
      /\ refs' \in [Slots -> Int]
  BY <1>1, <1>2 DEF disconnected_cb, RestTypeOK, conn_timeout_work_cancel, bt_conn_unref
<1>5. UNCHANGED <<batch, le_keys, adv, is_valid, owner, persistent, limitVars>>
  BY <1>2 DEF disconnected_cb
<1>. QED
  BY <1>1, <1>2, <1>3, <1>4, <1>5, AboveConn, TypeSplit
  DEF RestTypeOK, limitVars, TransitionTypeOK

LEMMA LinkSecuredType ==
  ASSUME TypeOK, NEW s \in Slots, link_secured(s)
  PROVE  TypeOK'
<1>1. TransitionTypeOK /\ RestTypeOK
  BY TypeSplit
<1>2. secured_cb(s) /\ UNCHANGED aboveConn
  BY DEF link_secured
<1>3. workq' \in Seq(WorkItems) /\ events' \in Seq(Event)
  <2>1. EvArg("PEER_SECURITY_CHANGED", s, 0) \in Event
    BY EventType DEF PeerEvents, LinkEvents
  <2>2. CASE is_enabled
    BY <1>1, <1>2, <2>1, <2>2, PostedType DEF secured_cb
  <2>3. CASE ~is_enabled
    BY <1>1, <1>2, <2>3 DEF secured_cb, TransitionTypeOK
  <2>. QED  BY <2>2, <2>3
<1>4. /\ encrypted' \subseteq Slots
      /\ le_keys' \in [Slots -> {"none", "ltk", "pairing"}]
      /\ conn_timeout' \subseteq Slots
  BY <1>1, <1>2 DEF secured_cb, RestTypeOK, conn_timeout_work_cancel
<1>5. UNCHANGED <<batch, connected, closing, refs, adv, recordVars, limitVars>>
  BY <1>2 DEF secured_cb
<1>. QED
  BY <1>1, <1>2, <1>3, <1>4, <1>5, AboveConn, TypeSplit
  DEF RestTypeOK, limitVars, recordVars, TransitionTypeOK

LEMMA SecurityErrorType ==
  ASSUME TypeOK, NEW s \in Slots, security_error(s)
  PROVE  TypeOK'
<1>1. TransitionTypeOK /\ RestTypeOK
  BY TypeSplit
<1>2. security_failed_cb(s) /\ UNCHANGED aboveConn
  BY DEF security_error
<1>3. workq' \in Seq(WorkItems) /\ events' \in Seq(Event)
  <2>1. EvArg("PEER_SECURITY_CHANGED", s, 1) \in Event
    BY EventType DEF PeerEvents, LinkEvents
  <2>. QED  BY <1>1, <1>2, <2>1, PostedType DEF security_failed_cb
<1>4. connected' \subseteq Slots /\ closing' \subseteq Slots
  BY <1>1, <1>2, DisconnectType DEF security_failed_cb
<1>5. conn_timeout' \subseteq Slots
  BY <1>1, <1>2 DEF security_failed_cb, RestTypeOK, conn_timeout_work_cancel
<1>6. UNCHANGED <<batch, encrypted, le_keys, refs, adv, recordVars, limitVars>>
  BY <1>2 DEF security_failed_cb
<1>. QED
  BY <1>1, <1>2, <1>3, <1>4, <1>5, <1>6, AboveConn, TypeSplit
  DEF RestTypeOK, limitVars, recordVars, TransitionTypeOK

LEMMA ConnTimeoutType ==
  ASSUME TypeOK, NEW s \in Slots, conn_timeout_work(s)
  PROVE  TypeOK'
<1>1. TransitionTypeOK /\ RestTypeOK
  BY TypeSplit
<1>2. conn_timeout_work_handle(s) /\ UNCHANGED aboveConn
  BY DEF conn_timeout_work
<1>3. connected' \subseteq Slots /\ closing' \subseteq Slots
  BY <1>1, <1>2, DisconnectType DEF conn_timeout_work_handle
<1>4. conn_timeout' \subseteq Slots
  BY <1>1, <1>2 DEF conn_timeout_work_handle, RestTypeOK
<1>5. UNCHANGED <<queueVars, encrypted, le_keys, refs, adv, recordVars, limitVars>>
  BY <1>2 DEF conn_timeout_work_handle
<1>. QED
  BY <1>1, <1>2, <1>3, <1>4, <1>5, AboveConn, TypeSplit
  DEF RestTypeOK, limitVars, recordVars, queueVars, TransitionTypeOK

LEMMA MaxConnWorkType ==
  ASSUME TypeOK, max_conn_work
  PROVE  TypeOK'
<1>1. TransitionTypeOK /\ RestTypeOK
  BY TypeSplit
<1>2. max_conn_work_handle /\ UNCHANGED aboveConn
  BY DEF max_conn_work
<1>3. max_work' \in [conn : Conns, waiting : SUBSET Slots, scheduled : BOOLEAN]
  BY <1>1, <1>2 DEF max_conn_work_handle, RestTypeOK, Conns
<1>4. UNCHANGED <<queueVars, hostVars, adv, recordVars, conn_timeout, max_connections>>
  BY <1>2 DEF max_conn_work_handle
<1>. QED
  BY <1>1, <1>2, <1>3, <1>4, AboveConn, TypeSplit
  DEF RestTypeOK, hostVars, recordVars, queueVars, TransitionTypeOK

-----------------------------------------------------------------------------
(* Type correctness of the timers, their work items and the application.    *)

(* What fmna_state.c leaves alone of the connections and of fmna_pair.c.    *)
LEMMA AboveState ==
  ASSUME RestTypeOK, UNCHANGED <<connVars, is_paired_adv_paused, aboveState>>,
         batch' \in Seq(Event)
  PROVE  RestTypeOK'
BY DEF connVars, hostVars, recordVars, limitVars, aboveState, pairVars, RestTypeOK,
       PairTypeOK

LEMMA EventWorkType ==
  ASSUME TypeOK, event_work
  PROVE  TypeOK'
<1>1. TransitionTypeOK /\ RestTypeOK
  BY TypeSplit
<1>2. TakeEvents /\ UNCHANGED <<connVars, adv, stateVars, pairVars, ready>>
  BY DEF event_work
<1>3. /\ workq' \in Seq(WorkItems)
      /\ batch' \in Seq(Event)
      /\ events' \in Seq(Event)
  BY <1>1, <1>2, HeadTailProperties, EventType DEF TakeEvents, TransitionTypeOK
<1>4. UNCHANGED <<connVars, is_paired_adv_paused, aboveState>>
  BY <1>2 DEF stateVars, aboveState
<1>5. TransitionTypeOK'
  BY <1>1, <1>2, <1>3
  DEF stateVars, modeVars, nearbyVars, reportVars, keyVars, TransitionTypeOK
<1>. QED  BY <1>1, <1>3, <1>4, <1>5, AboveState, TypeSplit

LEMMA NearbyTimeoutType ==
  ASSUME TypeOK, nearby_timeout
  PROVE  TypeOK'
<1>1. TransitionTypeOK /\ RestTypeOK
  BY TypeSplit
<1>2. nearby_separated_timeout_handle /\ UNCHANGED aboveState
  BY DEF nearby_timeout
<1>3. workq' \in Seq(WorkItems)
  BY <1>1, <1>2, SubmittedProperties
  DEF nearby_separated_timeout_handle, WorkItems, TransitionTypeOK
<1>4. RestTypeOK'
  BY <1>1, <1>2, AboveState DEF nearby_separated_timeout_handle, RestTypeOK
<1>5. TransitionTypeOK'
  BY <1>1, <1>2, <1>3
  DEF nearby_separated_timeout_handle, modeVars, reportVars, keyVars, TransitionTypeOK
<1>. QED  BY <1>4, <1>5, TypeSplit

LEMMA NearbyWorkType ==
  ASSUME TypeOK, nearby_work
  PROVE  TypeOK' /\ AdvStep
<1>1. TransitionTypeOK /\ RestTypeOK
  BY TypeSplit
<1>2. nearby_separated_work_handle /\ UNCHANGED aboveState
  BY DEF nearby_work
<1>3. Tail(workq) \in Seq(WorkItems) /\ batch' \in Seq(Event)
  BY <1>1, <1>2, RunningType DEF nearby_separated_work_handle
<1>4. TransitionTypeOK' /\ AdvStep
  <2>1. state_set(Tail(workq), limit_check, NULL, "SEPARATED")
    BY <1>2 DEF nearby_separated_work_handle
  <2>2. limit_check \in BOOLEAN
    BY DEF limit_check
  <2>. QED  BY <1>1, <1>3, <2>1, <2>2, StateSetType DEF States
<1>5. RestTypeOK'
  BY <1>1, <1>2, <1>3, AboveState DEF nearby_separated_work_handle
<1>. QED  BY <1>4, <1>5, TypeSplit

(* The actions of fmna_state.c that only restart or stop advertising and    *)
(* set flags: the Boolean variables keep their type.                        *)
LEMMA RestartType ==
  ASSUME TypeOK, AdvStep,
         UNCHANGED <<queueVars, connVars, state, nearbyVars, reportVars, keyVars,
                     pairVars, ready>>,
         is_paired_adv_paused' \in BOOLEAN,
         is_maintained' \in BOOLEAN,
         unpair_pending' \in BOOLEAN,
         persistent_conn_adv' \in BOOLEAN,
         persistent_work' \in BOOLEAN,
         pairing_mode' \in BOOLEAN,
         pairing_timer' \in BOOLEAN
  PROVE  TypeOK'
<1>1. TransitionTypeOK /\ RestTypeOK
  BY TypeSplit
<1>2. adv' \in Adv
  BY <1>1, AdvStepType DEF TransitionTypeOK
<1>3. TransitionTypeOK'
  BY <1>1, <1>2 DEF queueVars, nearbyVars, reportVars, keyVars, TransitionTypeOK
<1>4. RestTypeOK'
  BY <1>1
  DEF queueVars, connVars, hostVars, recordVars, limitVars, pairVars, RestTypeOK, PairTypeOK
<1>. QED  BY <1>3, <1>4, TypeSplit

LEMMA LimitCheckType == limit_check \in BOOLEAN
BY DEF limit_check

LEMMA PersistentConnWorkType ==
  ASSUME TypeOK, persistent_conn_work
  PROVE  TypeOK' /\ AdvStep
<1>1. TransitionTypeOK /\ RestTypeOK
  BY TypeSplit
<1>2. persistent_conn_work_handle /\ UNCHANGED aboveState
  BY DEF persistent_conn_work
<1>3. AdvStep
  BY <1>1, <1>2, AdvertiseStep, LimitCheckType
  DEF persistent_conn_work_handle, AdvStep, TransitionTypeOK
<1>. QED
  BY <1>1, <1>2, <1>3, RestartType
  DEF persistent_conn_work_handle, aboveState, TransitionTypeOK, RestTypeOK

LEMMA PairingModeWorkType ==
  ASSUME TypeOK, pairing_mode_work
  PROVE  TypeOK' /\ AdvStep
<1>1. TransitionTypeOK /\ RestTypeOK
  BY TypeSplit
<1>2. pairing_mode_timeout_work_handle /\ UNCHANGED aboveState
  BY DEF pairing_mode_work
<1>3. AdvStep
  BY <1>2 DEF pairing_mode_timeout_work_handle, AdvStep
<1>. QED
  BY <1>1, <1>2, <1>3, RestartType
  DEF pairing_mode_timeout_work_handle, aboveState, TransitionTypeOK, RestTypeOK

LEMMA KeyTimeoutType ==
  ASSUME TypeOK, key_timeout
  PROVE  TypeOK'
<1>1. TransitionTypeOK /\ RestTypeOK
  BY TypeSplit
<1>2. key_rotation_timeout_handle /\ UNCHANGED aboveState
  BY DEF key_timeout
<1>3. workq' \in Seq(WorkItems)
  BY <1>1, <1>2, SubmittedProperties
  DEF key_rotation_timeout_handle, WorkItems, TransitionTypeOK
<1>4. RestTypeOK'
  BY <1>1, <1>2, AboveState DEF key_rotation_timeout_handle, stateVars, RestTypeOK
<1>5. TransitionTypeOK'
  BY <1>1, <1>2, <1>3
  DEF key_rotation_timeout_handle, stateVars, modeVars, nearbyVars, reportVars,
      keyVars, TransitionTypeOK
<1>. QED  BY <1>4, <1>5, TypeSplit

LEMMA KeyWorkType ==
  ASSUME TypeOK, key_work
  PROVE  TypeOK'
<1>1. TransitionTypeOK /\ RestTypeOK
  BY TypeSplit
<1>2. key_rotation_work_handle /\ UNCHANGED aboveState
  BY DEF key_work
<1>3. Tail(workq) \in Seq(WorkItems) /\ batch' \in Seq(Event)
  BY <1>1, <1>2, RunningType DEF key_rotation_work_handle
<1>4. workq' \in Seq(WorkItems) /\ events' \in Seq(Event)
  <2>1. PICK evs \in {<<>>} \cup {<<EvArg("PUBLIC_KEYS_CHANGED", NULL, a)>> : a \in {0, 1}} :
          PostOn(Tail(workq), evs)
    BY <1>2 DEF key_rotation_work_handle
  <2>2. \A a \in {0, 1} : EvArg("PUBLIC_KEYS_CHANGED", NULL, a) \in Event
    BY EventType DEF StackEvents
  <2>3. evs \in Seq(Event)
    BY <2>2, EventType
  <2>. QED  BY <1>1, <1>3, <2>1, <2>3, PostType DEF TransitionTypeOK
<1>5. RestTypeOK'
  BY <1>1, <1>2, <1>3, AboveState DEF key_rotation_work_handle, stateVars
<1>6. TransitionTypeOK'
  BY <1>1, <1>2, <1>4
  DEF key_rotation_work_handle, stateVars, modeVars, nearbyVars, reportVars,
      keyVars, TransitionTypeOK
<1>. QED  BY <1>5, <1>6, TypeSplit

LEMMA PairedAdvType ==
  ASSUME TypeOK, paired_adv
  PROVE  TypeOK' /\ AdvStep
<1>1. TransitionTypeOK /\ RestTypeOK
  BY TypeSplit
<1>2. AdvStep
  <2>1. CASE fmna_paired_adv_disable
    BY <2>1 DEF fmna_paired_adv_disable, AdvStep
  <2>2. CASE fmna_paired_adv_enable
    <3>1. CASE ~is_paired
      BY <2>2, <3>1 DEF fmna_paired_adv_enable, AdvStep
    <3>2. CASE is_paired /\ ~limit_check
      BY <2>2, <3>2 DEF fmna_paired_adv_enable, AdvStep
    <3>3. CASE is_paired /\ limit_check
      BY <2>2, <3>3, AdvOnAirStep DEF fmna_paired_adv_enable, AdvKinds
    <3>. QED  BY <3>1, <3>2, <3>3
  <2>. QED  BY <2>1, <2>2 DEF paired_adv
<1>. QED
  BY <1>1, <1>2, RestartType
  DEF paired_adv, fmna_paired_adv_disable, fmna_paired_adv_enable, modeVars,
      TransitionTypeOK

LEMMA PairingModeRequestType ==
  ASSUME TypeOK, pairing_mode_request
  PROVE  TypeOK' /\ AdvStep
<1>1. TransitionTypeOK /\ RestTypeOK
  BY TypeSplit
<1>2. AdvStep
  BY AdvOnAirStep
  DEF pairing_mode_request, fmna_pairing_mode_cancel, fmna_pairing_mode_enter,
      AdvStep, AdvKinds
<1>. QED
  BY <1>1, <1>2, RestartType
  DEF pairing_mode_request, fmna_pairing_mode_cancel, fmna_pairing_mode_enter,
      TransitionTypeOK, RestTypeOK

-----------------------------------------------------------------------------
(* Type correctness of the writes of peers and of the events. *)

(* A step that only posts an event. *)
LEMMA WriteType ==
  ASSUME TypeOK, NEW e \in Event, Post(<<e>>),
         UNCHANGED <<batch, connVars, adv, stateVars, pairVars, ready>>
  PROVE  TypeOK'
<1>1. TransitionTypeOK /\ RestTypeOK
  BY TypeSplit
<1>2. workq' \in Seq(WorkItems) /\ events' \in Seq(Event)
  BY <1>1, PostedType
<1>3. TransitionTypeOK'
  BY <1>1, <1>2
  DEF stateVars, modeVars, nearbyVars, reportVars, keyVars, TransitionTypeOK
<1>4. RestTypeOK'
  BY <1>1, AboveState DEF stateVars, aboveState, RestTypeOK
<1>. QED  BY <1>3, <1>4, TypeSplit

LEMMA ConfigWriteType ==
  ASSUME TypeOK, NEW s \in Slots, config_cp_write(s)
  PROVE  TypeOK'
<1>1. PICK id \in ConfigEvents : \E n \in Args(id) : Post(<<EvArg(id, s, n)>>)
  BY DEF config_cp_write
<1>2. PICK n \in Args(id) : Post(<<EvArg(id, s, n)>>)
  BY <1>1
<1>3. n \in Nat
  BY EnvironmentAssumption DEF Args
<1>4. EvArg(id, s, n) \in Event
  BY <1>3, EventType DEF PeerEvents
<1>. QED  BY <1>2, <1>4, WriteType DEF config_cp_write

LEMMA PairingWriteType ==
  ASSUME TypeOK, NEW s \in Slots, pairing_cp_write(s)
  PROVE  TypeOK'
<1>1. PICK id \in PairEvents : Post(<<Ev(id, s)>>)
  BY DEF pairing_cp_write
<1>2. Ev(id, s) \in Event
  BY EventType DEF PeerEvents
<1>. QED  BY <1>1, <1>2, WriteType DEF pairing_cp_write

(* Types of what a handler of an event does not leave to state_set(): the   *)
(* rest of the state, with the transition's part already typed.             *)
LEMMA PeerConnectedType ==
  ASSUME TypeOK, peer_connected
  PROVE  TypeOK' /\ AdvStep
<1>. DEFINE s == Head(batch).conn
<1>1. TransitionTypeOK /\ RestTypeOK
  BY TypeSplit
<1>2. batch' \in Seq(Event) /\ s \in Slots
  BY <1>1, HandlingType DEF peer_connected, PeerEvents, LinkEvents
<1>3. workq' \in Seq(WorkItems) /\ events' \in Seq(Event)
  BY <1>1, PostedType DEF peer_connected
<1>4. AdvStep
  BY <1>1, AdvertiseStep, LimitCheckType DEF peer_connected, TransitionTypeOK
<1>5. adv' \in Adv
  BY <1>1, <1>4, AdvStepType DEF TransitionTypeOK
<1>6. le_keys' \in [Slots -> {"none", "ltk", "pairing"}]
  BY <1>1, <1>2 DEF peer_connected, bt_ltk_set, RestTypeOK
<1>7. UNCHANGED <<connected, closing, encrypted, refs, recordVars, conn_timeout,
                  limitVars, stateVars, pairVars, ready>>
  BY DEF peer_connected
<1>8. TransitionTypeOK'
  BY <1>1, <1>3, <1>5, <1>7
  DEF stateVars, modeVars, nearbyVars, reportVars, keyVars, TransitionTypeOK
<1>9. RestTypeOK'
  BY <1>1, <1>2, <1>6, <1>7
  DEF stateVars, recordVars, limitVars, pairVars, RestTypeOK, PairTypeOK
<1>. QED  BY <1>4, <1>8, <1>9, TypeSplit

LEMMA PeerDisconnectedType ==
  ASSUME TypeOK, peer_disconnected
  PROVE  TypeOK' /\ AdvStep
<1>. DEFINE s == Head(batch).conn
<1>1. TransitionTypeOK /\ RestTypeOK
  BY TypeSplit
<1>2. batch' \in Seq(Event) /\ s \in Slots
  BY <1>1, HandlingType DEF peer_disconnected, PeerEvents, LinkEvents
<1>3. TransitionTypeOK' /\ AdvStep
  <2>1. ASSUME state_set(workq, limit_check, s, IF unpair_pending THEN "UNPAIRED" ELSE "NEARBY")
        PROVE  TransitionTypeOK' /\ AdvStep
    <3>1. (IF unpair_pending THEN "UNPAIRED" ELSE "NEARBY") \in States
      BY DEF States
    <3>2. workq \in Seq(WorkItems)
      BY <1>1 DEF TransitionTypeOK
    <3>. QED  BY <1>1, <2>1, <3>1, <3>2, StateSetType, LimitCheckType
  <2>2. ASSUME adv' = advertise_restart(limit_check), Post(<<>>),
               UNCHANGED <<state, modeVars, nearbyVars, reportVars, keyVars>>
        PROVE  TransitionTypeOK' /\ AdvStep
    <3>1. workq' \in Seq(WorkItems) /\ events' \in Seq(Event)
      BY <1>1, <2>2, PostedType
    <3>2. AdvStep
      BY <1>1, <2>2, AdvertiseStep, LimitCheckType DEF TransitionTypeOK
    <3>3. adv' \in Adv
      BY <1>1, <3>2, AdvStepType DEF TransitionTypeOK
    <3>. QED
      BY <1>1, <2>2, <3>1, <3>2, <3>3
      DEF modeVars, nearbyVars, reportVars, keyVars, TransitionTypeOK
  <2>. QED  BY <2>1, <2>2 DEF peer_disconnected
<1>4. /\ connected' \subseteq Slots
      /\ closing' \subseteq Slots
      /\ le_keys' \in [Slots -> {"none", "ltk", "pairing"}]
  BY <1>1, DisconnectType DEF peer_disconnected, unpaired_peer, RestTypeOK
<1>5. /\ is_valid' \subseteq Slots
      /\ is_disconnecting' \subseteq Slots
      /\ owner' \subseteq Slots
      /\ persistent' \subseteq Slots
  BY <1>1 DEF peer_disconnected, record_cleared, RestTypeOK
<1>6. pairing_conn' \in Conns
  BY <1>1 DEF peer_disconnected, pairing_ended, RestTypeOK, PairTypeOK, Conns
<1>7. UNCHANGED <<encrypted, refs, conn_timeout, limitVars, is_paired_adv_paused,
                  session, ready>>
  BY DEF peer_disconnected
<1>8. RestTypeOK'
  BY <1>1, <1>2, <1>4, <1>5, <1>6, <1>7 DEF limitVars, RestTypeOK, PairTypeOK
<1>. QED  BY <1>3, <1>8, TypeSplit

LEMMA OwnerSecuredType ==
  ASSUME TypeOK, owner_secured
  PROVE  TypeOK'
<1>. DEFINE s == Head(batch).conn
<1>1. TransitionTypeOK /\ RestTypeOK
  BY TypeSplit
<1>2. batch' \in Seq(Event) /\ s \in Slots
  BY <1>1, HandlingType DEF owner_secured, PeerEvents, LinkEvents
<1>3. workq' \in Seq(WorkItems) /\ events' \in Seq(Event)
  <2>1. Ev("OWNER_CONNECTED", s) \in Event
    BY <1>2, EventType DEF PeerEvents, LinkEvents
  <2>. QED  BY <1>1, <2>1, PostedType DEF owner_secured
<1>4. owner' \subseteq Slots
  BY <1>1 DEF owner_secured, RestTypeOK
<1>5. UNCHANGED <<hostVars, is_valid, is_disconnecting, persistent, conn_timeout,
                  limitVars, adv, stateVars, pairVars, ready>>
  BY DEF owner_secured
<1>6. TransitionTypeOK'
  BY <1>1, <1>3, <1>5
  DEF stateVars, modeVars, nearbyVars, reportVars, keyVars, TransitionTypeOK
<1>7. RestTypeOK'
  BY <1>1, <1>2, <1>4, <1>5
  DEF hostVars, stateVars, limitVars, pairVars, RestTypeOK, PairTypeOK
<1>. QED  BY <1>6, <1>7, TypeSplit

LEMMA CandidateSecuredType ==
  ASSUME TypeOK, candidate_secured
  PROVE  TypeOK'
<1>. DEFINE s == Head(batch).conn
<1>1. TransitionTypeOK /\ RestTypeOK
  BY TypeSplit
<1>2. batch' \in Seq(Event) /\ s \in Slots
  BY <1>1, HandlingType DEF candidate_secured, PeerEvents, LinkEvents
<1>3. workq' \in Seq(WorkItems) /\ events' \in Seq(Event)
  BY <1>1, PostedType DEF candidate_secured
<1>4. /\ connected' \subseteq Slots
      /\ closing' \subseteq Slots
      /\ le_keys' \in [Slots -> {"none", "ltk", "pairing"}]
  BY <1>1, DisconnectType DEF candidate_secured, unpaired_peer, RestTypeOK
<1>5. PairTypeOK'
  BY <1>1, <1>2 DEF candidate_secured, RestTypeOK, PairTypeOK, Conns
<1>6. UNCHANGED <<encrypted, refs, recordVars, conn_timeout, limitVars, adv,
                  stateVars, ready>>
  BY DEF candidate_secured
<1>7. TransitionTypeOK'
  BY <1>1, <1>3, <1>6
  DEF stateVars, modeVars, nearbyVars, reportVars, keyVars, TransitionTypeOK
<1>8. RestTypeOK'
  BY <1>1, <1>2, <1>4, <1>5, <1>6 DEF recordVars, stateVars, limitVars, RestTypeOK
<1>. QED  BY <1>7, <1>8, TypeSplit

LEMMA OwnerConnectedType ==
  ASSUME TypeOK, owner_connected
  PROVE  TypeOK' /\ AdvStep
<1>. DEFINE s == Head(batch).conn
<1>1. TransitionTypeOK /\ RestTypeOK
  BY TypeSplit
<1>2. batch' \in Seq(Event) /\ s \in Slots
  BY <1>1, HandlingType DEF owner_connected, PeerEvents, LinkEvents
<1>3. TransitionTypeOK' /\ AdvStep
  <2>1. workq \in Seq(WorkItems)
    BY <1>1 DEF TransitionTypeOK
  <2>. QED
    BY <1>1, <2>1, StateSetType, LimitCheckType DEF owner_connected, States
<1>4. owner' \subseteq Slots
  BY <1>1 DEF owner_connected, RestTypeOK
<1>5. UNCHANGED <<hostVars, is_valid, is_disconnecting, persistent, conn_timeout,
                  limitVars, is_paired_adv_paused, pairVars, ready>>
  BY DEF owner_connected
<1>6. RestTypeOK'
  BY <1>1, <1>2, <1>4, <1>5 DEF hostVars, limitVars, pairVars, RestTypeOK, PairTypeOK
<1>. QED  BY <1>3, <1>6, TypeSplit

LEMMA MaxConnChangedType ==
  ASSUME TypeOK, max_conn_changed
  PROVE  TypeOK' /\ AdvStep
<1>1. TransitionTypeOK /\ RestTypeOK
  BY TypeSplit
<1>2. batch' \in Seq(Event)
  BY <1>1, HandlingType DEF max_conn_changed
<1>3. workq' \in Seq(WorkItems) /\ events' \in Seq(Event)
  BY <1>1, PostedType DEF max_conn_changed
<1>4. AdvStep
  BY <1>1, AdvertiseStep, LimitCheckType DEF max_conn_changed, TransitionTypeOK
<1>5. adv' \in Adv
  BY <1>1, <1>4, AdvStepType DEF TransitionTypeOK
<1>6. UNCHANGED <<connVars, stateVars, pairVars, ready>>
  BY DEF max_conn_changed
<1>7. TransitionTypeOK'
  BY <1>1, <1>3, <1>5, <1>6
  DEF stateVars, modeVars, nearbyVars, reportVars, keyVars, TransitionTypeOK
<1>8. RestTypeOK'
  BY <1>1, <1>2, <1>6, AboveState DEF stateVars, aboveState
<1>. QED  BY <1>4, <1>7, <1>8, TypeSplit

LEMMA StateChangedType ==
  ASSUME TypeOK, state_changed
  PROVE  TypeOK'
<1>1. TransitionTypeOK /\ RestTypeOK
  BY TypeSplit
<1>2. batch' \in Seq(Event)
  BY <1>1, HandlingType DEF state_changed
<1>3. workq' \in Seq(WorkItems) /\ events' \in Seq(Event)
  BY <1>1, PostedType DEF state_changed
<1>4. max_connections' \in Nat
  BY <1>1, ConnAssumption, LimitAssumption DEF state_changed, RestTypeOK
<1>5. UNCHANGED <<hostVars, recordVars, conn_timeout, max_work, adv, stateVars,
                  pairVars, ready>>
  BY DEF state_changed
<1>6. TransitionTypeOK'
  BY <1>1, <1>3, <1>5
  DEF stateVars, modeVars, nearbyVars, reportVars, keyVars, TransitionTypeOK
<1>7. RestTypeOK'
  BY <1>1, <1>2, <1>4, <1>5
  DEF hostVars, recordVars, stateVars, pairVars, RestTypeOK, PairTypeOK
<1>. QED  BY <1>6, <1>7, TypeSplit

LEMMA PublicKeysChangedType ==
  ASSUME TypeOK, public_keys_changed
  PROVE  TypeOK' /\ AdvStep
<1>1. TransitionTypeOK /\ RestTypeOK
  BY TypeSplit
<1>2. /\ batch' \in Seq(Event)
      /\ fmna_public_keys_changed(Head(batch).arg)
      /\ UNCHANGED <<pairVars, ready>>
  BY <1>1, HandlingType DEF public_keys_changed
<1>3. workq' \in Seq(WorkItems) /\ events' \in Seq(Event)
  BY <1>1, <1>2, PostedType DEF fmna_public_keys_changed
<1>4. AdvStep
  BY <1>1, <1>2, AdvertiseStep, LimitCheckType
  DEF fmna_public_keys_changed, AdvStep, TransitionTypeOK
<1>5. adv' \in Adv
  BY <1>1, <1>4, AdvStepType DEF TransitionTypeOK
<1>6. TransitionTypeOK'
  BY <1>1, <1>2, <1>3, <1>5
  DEF fmna_public_keys_changed, nearbyVars, reportVars, keyVars, TransitionTypeOK
<1>7. RestTypeOK'
  BY <1>1, <1>2, AboveState DEF fmna_public_keys_changed, aboveState
<1>. QED  BY <1>4, <1>6, <1>7, TypeSplit

(* The four requests of an owner. *)
LEMMA ConfigEventType ==
  ASSUME TypeOK, config_event
  PROVE  TypeOK'
<1>. DEFINE s == Head(batch).conn
            n == Head(batch).arg
<1>1. TransitionTypeOK /\ RestTypeOK
  BY TypeSplit
<1>2. UNCHANGED <<pairVars, ready>>
  BY DEF config_event
<1>3. ASSUME NEW id \in ConfigEvents, Handling(id)
      PROVE  batch' \in Seq(Event) /\ s \in Slots /\ n \in Nat
  BY <1>1, <1>3, HandlingType DEF PeerEvents
<1>4. ASSUME UNCHANGED <<adv, stateVars>>, Post(<<>>) \/ \E e \in Event : Post(<<e>>)
      PROVE  TransitionTypeOK'
  <2>1. workq' \in Seq(WorkItems) /\ events' \in Seq(Event)
    BY <1>1, <1>4, PostedType
  <2>. QED
    BY <1>1, <1>4, <2>1
    DEF stateVars, modeVars, nearbyVars, reportVars, keyVars, TransitionTypeOK
<1>5. ASSUME Handling("SET_PERSISTENT_CONN_STATUS"),
             persistent_conn_request_handle(s, n), UNCHANGED stateVars
      PROVE  TypeOK'
  <2>1. batch' \in Seq(Event) /\ s \in Slots
    BY <1>3, <1>5 DEF ConfigEvents
  <2>2. TransitionTypeOK'
    BY <1>4, <1>5 DEF persistent_conn_request_handle
  <2>3. persistent' \subseteq Slots
    BY <1>1, <1>5, <2>1 DEF persistent_conn_request_handle, RestTypeOK
  <2>4. UNCHANGED <<hostVars, adv, is_valid, is_disconnecting, owner, conn_timeout, limitVars>>
    BY <1>5 DEF persistent_conn_request_handle
  <2>5. RestTypeOK'
    BY <1>1, <1>2, <1>5, <2>1, <2>3, <2>4
    DEF hostVars, limitVars, stateVars, pairVars, RestTypeOK, PairTypeOK
  <2>. QED  BY <2>2, <2>5, TypeSplit
<1>6. ASSUME Handling("SET_MAX_CONNECTIONS"),
             max_connections_request_handle(s, n), UNCHANGED stateVars
      PROVE  TypeOK'
  <2>1. batch' \in Seq(Event) /\ s \in Slots /\ n \in Nat
    BY <1>3, <1>6 DEF ConfigEvents
  <2>2. TransitionTypeOK'
    <3>1. Ev("MAX_CONN_CHANGED", s) \in Event
      BY <2>1, EventType DEF PeerEvents, LinkEvents
    <3>. QED  BY <1>4, <1>6, <3>1 DEF max_connections_request_handle
  <2>3. connected' \subseteq Slots /\ closing' \subseteq Slots /\ conn_timeout' \subseteq Slots
    <3>1. \A k : Disconnect(Cut(s, k)) => connected' \subseteq Slots /\ closing' \subseteq Slots
      BY <1>1, DisconnectType
    <3>. QED  BY <1>1, <1>6, <3>1 DEF max_connections_request_handle, RestTypeOK
  <2>4. max_connections' \in Nat
    BY <1>1, <1>6, <2>1, ConnAssumption, LimitAssumption
    DEF max_connections_request_handle, limitVars, RestTypeOK
  <2>5. max_work' \in [conn : Conns, waiting : SUBSET Slots, scheduled : BOOLEAN]
    <3>1. \A k : Cut(s, k) \subseteq Slots
      BY DEF Cut, Visited, Others
    <3>2. \/ max_work' = max_work
          \/ max_work' = [conn |-> s, waiting |-> {}, scheduled |-> TRUE]
          \/ \E k : max_work' = [max_work EXCEPT !.waiting = @ \cup Cut(s, k)]
      BY <1>6 DEF max_connections_request_handle, limitVars
    <3>3. max_work \in [conn : Conns, waiting : SUBSET Slots, scheduled : BOOLEAN]
      BY <1>1 DEF RestTypeOK
    <3>4. CASE \E k : max_work' = [max_work EXCEPT !.waiting = @ \cup Cut(s, k)]
      <4>. PICK k : max_work' = [max_work EXCEPT !.waiting = @ \cup Cut(s, k)]
        BY <3>4
      <4>1. max_work.waiting \cup Cut(s, k) \in SUBSET Slots
        BY <3>1, <3>3
      <4>2. \A W \in SUBSET Slots :
              [max_work EXCEPT !.waiting = W]
                \in [conn : Conns, waiting : SUBSET Slots, scheduled : BOOLEAN]
        BY <3>3
      <4>3. max_work' = [max_work EXCEPT !.waiting = max_work.waiting \cup Cut(s, k)]
        OBVIOUS
      <4>. QED  BY <4>1, <4>2, <4>3
    <3>5. CASE max_work' = [conn |-> s, waiting |-> {}, scheduled |-> TRUE]
      BY <2>1, <3>5 DEF Conns
    <3>. QED  BY <3>2, <3>3, <3>4, <3>5
  <2>6. UNCHANGED <<encrypted, le_keys, refs, adv, recordVars>>
    BY <1>6 DEF max_connections_request_handle
  <2>7. RestTypeOK'
    BY <1>1, <1>2, <1>6, <2>1, <2>3, <2>4, <2>5, <2>6
    DEF recordVars, stateVars, pairVars, RestTypeOK, PairTypeOK
  <2>. QED  BY <2>2, <2>7, TypeSplit
<1>7. ASSUME Handling("SET_NEARBY_TIMEOUT"), nearby_timeout_set_request_handle(n)
      PROVE  TypeOK'
  <2>1. batch' \in Seq(Event) /\ n \in Nat
    BY <1>3, <1>7 DEF ConfigEvents
  <2>2. workq' \in Seq(WorkItems) /\ events' \in Seq(Event)
    BY <1>1, <1>7, PostedType DEF nearby_timeout_set_request_handle
  <2>3. nearby_separated_timeout' \in 0..NEARBY_SEPARATED_TIMEOUT_MAX
    <3>1. \A k \in Nat : k > NEARBY_SEPARATED_TIMEOUT_MAX
                           \/ k \in 0..NEARBY_SEPARATED_TIMEOUT_MAX
      BY DEF NEARBY_SEPARATED_TIMEOUT_MAX
    <3>2. nearby_separated_timeout \in 0..NEARBY_SEPARATED_TIMEOUT_MAX
      BY <1>1 DEF TransitionTypeOK
    <3>. QED  BY <1>7, <2>1, <3>1, <3>2 DEF nearby_timeout_set_request_handle
  <2>4. TransitionTypeOK'
    BY <1>1, <1>7, <2>2, <2>3
    DEF nearby_timeout_set_request_handle, modeVars, reportVars, keyVars, TransitionTypeOK
  <2>5. RestTypeOK'
    BY <1>1, <1>2, <1>7, <2>1, AboveState
    DEF nearby_timeout_set_request_handle, aboveState
  <2>. QED  BY <2>4, <2>5, TypeSplit
<1>8. ASSUME Handling("UNPAIR"), unpair_request_handle
      PROVE  TypeOK'
  <2>1. batch' \in Seq(Event)
    BY <1>3, <1>8 DEF ConfigEvents
  <2>2. workq' \in Seq(WorkItems) /\ events' \in Seq(Event)
    BY <1>1, <1>8, PostedType DEF unpair_request_handle
  <2>3. TransitionTypeOK'
    BY <1>1, <1>8, <2>2
    DEF unpair_request_handle, nearbyVars, reportVars, keyVars, TransitionTypeOK
  <2>4. RestTypeOK'
    BY <1>1, <1>2, <1>8, <2>1, AboveState DEF unpair_request_handle, aboveState
  <2>. QED  BY <2>3, <2>4, TypeSplit
<1>. QED  BY <1>5, <1>6, <1>7, <1>8 DEF config_event

(* The commands of the pairing. *)
LEMMA PairRejectedType ==
  ASSUME TypeOK, NEW id \in PairEvents, pairing_cmd_rejected(id), UNCHANGED ready
  PROVE  TypeOK'
<1>. DEFINE s == Head(batch).conn
<1>1. TransitionTypeOK /\ RestTypeOK
  BY TypeSplit
<1>2. batch' \in Seq(Event)
  BY <1>1, HandlingType DEF pairing_cmd_rejected
<1>3. workq' \in Seq(WorkItems) /\ events' \in Seq(Event)
  BY <1>1, PostedType DEF pairing_cmd_rejected
<1>4. connected' \subseteq Slots /\ closing' \subseteq Slots
  BY <1>1, DisconnectType DEF pairing_cmd_rejected
<1>5. UNCHANGED <<encrypted, le_keys, refs, recordVars, conn_timeout, limitVars, adv,
                  stateVars, pairVars>>
  BY DEF pairing_cmd_rejected
<1>6. TransitionTypeOK'
  BY <1>1, <1>3, <1>5
  DEF stateVars, modeVars, nearbyVars, reportVars, keyVars, TransitionTypeOK
<1>7. RestTypeOK'
  BY <1>1, <1>2, <1>4, <1>5
  DEF recordVars, stateVars, limitVars, pairVars, RestTypeOK, PairTypeOK
<1>. QED  BY <1>6, <1>7, TypeSplit

LEMMA InitiateType ==
  ASSUME TypeOK, initiate_pairing_cmd_handle, UNCHANGED ready
  PROVE  TypeOK'
<1>1. TransitionTypeOK /\ RestTypeOK
  BY TypeSplit
<1>2. batch' \in Seq(Event)
  BY <1>1, HandlingType DEF initiate_pairing_cmd_handle
<1>3. workq' \in Seq(WorkItems) /\ events' \in Seq(Event)
  BY <1>1, PostedType DEF initiate_pairing_cmd_handle
<1>4. session' \in {"none", "initiated", "finalized"}
  BY <1>1 DEF initiate_pairing_cmd_handle, RestTypeOK, PairTypeOK
<1>5. UNCHANGED <<connVars, adv, stateVars, pairing_conn>>
  BY DEF initiate_pairing_cmd_handle
<1>6. TransitionTypeOK'
  BY <1>1, <1>3, <1>5
  DEF stateVars, modeVars, nearbyVars, reportVars, keyVars, TransitionTypeOK
<1>7. RestTypeOK'
  BY <1>1, <1>2, <1>4, <1>5
  DEF connVars, hostVars, recordVars, stateVars, limitVars, RestTypeOK, PairTypeOK
<1>. QED  BY <1>6, <1>7, TypeSplit

LEMMA FinalizeType ==
  ASSUME TypeOK, finalize_pairing_cmd_handle, UNCHANGED ready
  PROVE  TypeOK'
<1>. DEFINE s == Head(batch).conn
<1>1. TransitionTypeOK /\ RestTypeOK
  BY TypeSplit
<1>2. batch' \in Seq(Event)
  BY <1>1, HandlingType DEF finalize_pairing_cmd_handle
<1>3. workq' \in Seq(WorkItems) /\ events' \in Seq(Event)
  BY <1>1, PostedType DEF finalize_pairing_cmd_handle
<1>4. /\ pairing_items' \subseteq PairingItems
      /\ session' \in {"none", "initiated", "finalized"}
  BY <1>1
  DEF finalize_pairing_cmd_handle, pairing_status_generate, PairingItems, TransitionTypeOK,
      RestTypeOK, PairTypeOK
<1>5. connected' \subseteq Slots /\ closing' \subseteq Slots
  BY <1>1, DisconnectType DEF finalize_pairing_cmd_handle, RestTypeOK
<1>6. UNCHANGED <<encrypted, le_keys, refs, recordVars, conn_timeout, limitVars, adv,
                  state, is_paired_adv_paused, modeVars, nearbyVars, reportVars,
                  keys_running, pairing_conn>>
  BY DEF finalize_pairing_cmd_handle
<1>7. TransitionTypeOK'
  BY <1>1, <1>3, <1>4, <1>6 DEF modeVars, nearbyVars, reportVars, TransitionTypeOK
<1>8. RestTypeOK'
  BY <1>1, <1>2, <1>4, <1>5, <1>6 DEF recordVars, limitVars, RestTypeOK, PairTypeOK
<1>. QED  BY <1>7, <1>8, TypeSplit

LEMMA CompleteType ==
  ASSUME TypeOK, pairing_complete_cmd_handle, UNCHANGED ready
  PROVE  TypeOK' /\ AdvStep
<1>. DEFINE s == Head(batch).conn
<1>1. TransitionTypeOK /\ RestTypeOK
  BY TypeSplit
<1>2. batch' \in Seq(Event)
  BY <1>1, HandlingType DEF pairing_complete_cmd_handle
<1>3. keys_running' \in BOOLEAN /\ pairing_items' \subseteq PairingItems
  <2>1. pairing_items' \subseteq PairingItems
    BY <1>1
    DEF pairing_complete_cmd_handle, fmna_keys_service_start, PairingItems, TransitionTypeOK
  <2>2. keys_running' \in BOOLEAN
    BY <1>1, Zenon
    DEF pairing_complete_cmd_handle, fmna_keys_service_start, TransitionTypeOK
  <2>. QED  BY <2>1, <2>2
<1>4. TransitionTypeOK' /\ AdvStep
  <2>1. workq \in Seq(WorkItems)
    BY <1>1 DEF TransitionTypeOK
  <2>. QED
    BY <1>1, <1>3, <2>1, EnterConnectedType, LimitCheckType
    DEF pairing_complete_cmd_handle, States
<1>5. owner' \subseteq Slots /\ PairTypeOK'
  BY <1>1 DEF pairing_complete_cmd_handle, RestTypeOK, PairTypeOK, Conns
<1>6. UNCHANGED <<hostVars, is_valid, is_disconnecting, persistent, conn_timeout,
                  limitVars, is_paired_adv_paused>>
  BY DEF pairing_complete_cmd_handle
<1>7. RestTypeOK'
  BY <1>1, <1>2, <1>5, <1>6 DEF hostVars, limitVars, RestTypeOK
<1>. QED  BY <1>4, <1>7, TypeSplit

LEMMA PairEventType ==
  ASSUME TypeOK, pair_event
  PROVE  TypeOK'
BY PairRejectedType, InitiateType, FinalizeType, CompleteType DEF pair_event

-----------------------------------------------------------------------------
(* Type correctness of fmna_enable() and fmna_disable(). *)

(* Each way to enter the first state. *)
LEMMA FirstStateType ==
  ASSUME TransitionTypeOK, NEW first \in States,
         NEW stored \in BOOLEAN,
         \/ /\ fmna_keys_init(stored)
            /\ \/ unchanged_state(workq, TRUE, first) /\ ready' = TRUE
               \/ forbidden_transition(workq, first)  /\ ready' = FALSE
               \/ enter_separated(workq, first)       /\ ready' = paired_adv_ok
         \/ enter_unpaired(workq, first) /\ ready' = (AUTO_ENTER => free_conn)
  PROVE  TransitionTypeOK' /\ AdvStep /\ ready' \in BOOLEAN
<1>1. workq \in Seq(WorkItems)
  BY DEF TransitionTypeOK
<1>2. ready' \in BOOLEAN
  BY DEF paired_adv_ok, free_conn
<1>3. fmna_keys_init(stored) =>
        keys_running' \in BOOLEAN /\ pairing_items' \subseteq PairingItems
  BY DEF fmna_keys_init, TransitionTypeOK
<1>. QED
  BY <1>1, <1>2, <1>3, UnchangedStateType, ForbiddenType, EnterSeparatedType,
     EnterUnpairedType

LEMMA EnableType ==
  ASSUME TypeOK, fmna_enable
  PROVE  TypeOK' /\ AdvStep
<1>. DEFINE stored == fmna_storage_pairing_data_check
            first  == IF stored THEN "SEPARATED" ELSE "UNPAIRED"
<1>1. TransitionTypeOK /\ RestTypeOK
  BY TypeSplit
<1>2. first \in States /\ stored \in BOOLEAN
  BY DEF States, fmna_storage_pairing_data_check
<1>3. TransitionTypeOK' /\ AdvStep /\ ready' \in BOOLEAN
  BY <1>1, <1>2, FirstStateType DEF fmna_enable
<1>4. /\ is_valid' = {} /\ is_disconnecting' = {} /\ owner' = {} /\ persistent' = {}
      /\ max_connections' = FMNA_MAX_CONN
      /\ max_work' \in {max_work, [max_work EXCEPT !.scheduled = FALSE]}
      /\ conn_timeout' \in SUBSET conn_timeout
      /\ UNCHANGED <<batch, hostVars, is_paired_adv_paused, pairVars>>
  BY DEF fmna_enable, fmna_conn_init
<1>5. max_work' \in [conn : Conns, waiting : SUBSET Slots, scheduled : BOOLEAN]
  BY <1>1, <1>4 DEF RestTypeOK
<1>6. max_connections' \in Nat
  BY <1>4, ConnAssumption, LimitAssumption
<1>7. RestTypeOK'
  BY <1>1, <1>3, <1>4, <1>5, <1>6 DEF hostVars, pairVars, RestTypeOK, PairTypeOK
<1>. QED  BY <1>3, <1>7, TypeSplit

LEMMA DisableType ==
  ASSUME TypeOK, fmna_disable
  PROVE  TypeOK'
<1>1. TransitionTypeOK /\ RestTypeOK
  BY TypeSplit
<1>2. TransitionTypeOK'
  <2>1. workq \in Seq(WorkItems)
    BY <1>1 DEF TransitionTypeOK
  <2>. QED  BY <1>1, <2>1, EnterDisabledType DEF fmna_disable, States
<1>3. connected' \subseteq Slots /\ closing' \subseteq Slots
  BY <1>1, DisconnectType DEF fmna_disable, fmna_conn_uninit
<1>4. refs' \in [Slots -> Int] /\ conn_timeout' \subseteq Slots
  BY <1>1 DEF fmna_disable, fmna_conn_uninit, RestTypeOK
<1>5. /\ ready' = FALSE
      /\ UNCHANGED <<batch, encrypted, le_keys, recordVars, limitVars,
                     is_paired_adv_paused, pairVars>>
  BY DEF fmna_disable
<1>6. RestTypeOK'
  BY <1>1, <1>3, <1>4, <1>5 DEF recordVars, limitVars, pairVars, RestTypeOK, PairTypeOK
<1>. QED  BY <1>2, <1>6, TypeSplit

-----------------------------------------------------------------------------
(* Type correctness. *)

LEMMA TypeInit == Init => TypeOK
<1>. SUFFICES ASSUME Init PROVE TypeOK
  OBVIOUS
<1>1. QueueTypeOK
  BY EventType DEF Init, QueueTypeOK
<1>2. ConnTypeOK
  BY ConnAssumption, LimitAssumption DEF Init, ConnTypeOK, Adv, States, Conns
<1>3. StateTypeOK
  <2>1. NEARBY_SEPARATED_TIMEOUT_DEFAULT \in 0..NEARBY_SEPARATED_TIMEOUT_MAX
    BY DEF NEARBY_SEPARATED_TIMEOUT_MAX, NEARBY_SEPARATED_TIMEOUT_DEFAULT
  <2>2. pairing_items \subseteq PairingItems
    BY DEF Init
  <2>. QED  BY <2>1, <2>2 DEF Init, StateTypeOK, States
<1>. QED  BY <1>1, <1>2, <1>3 DEF Init, TypeOK, PairTypeOK, Conns

LEMMA TypeEvent ==
  ASSUME TypeOK, HandleEvent
  PROVE  TypeOK'
BY PeerConnectedType, PeerDisconnectedType, OwnerSecuredType, CandidateSecuredType,
   OwnerConnectedType, MaxConnChangedType, StateChangedType, PublicKeysChangedType,
   ConfigEventType, PairEventType
DEF HandleEvent

LEMMA TypeStutter ==
  ASSUME TypeOK, UNCHANGED vars
  PROVE  TypeOK'
BY DEF vars, queueVars, connVars, hostVars, recordVars, limitVars, stateVars, modeVars,
       nearbyVars, reportVars, keyVars, pairVars, TypeOK, QueueTypeOK, ConnTypeOK,
       StateTypeOK, PairTypeOK

LEMMA TypeNext == TypeOK /\ [Next]_vars => TypeOK'
<1>. SUFFICES ASSUME TypeOK, [Next]_vars PROVE TypeOK'
  OBVIOUS
<1>1. CASE Next
  BY <1>1, EventWorkType, TypeEvent, LinkUpType, LinkDownType, LinkSecuredType,
     SecurityErrorType, ConnTimeoutType, ConfigWriteType, PairingWriteType,
     MaxConnWorkType, NearbyTimeoutType, NearbyWorkType, PersistentConnWorkType,
     PairingModeWorkType, KeyTimeoutType, KeyWorkType, EnableType, DisableType,
     PairedAdvType, PairingModeRequestType
  DEF Next
<1>2. CASE UNCHANGED vars
  BY <1>2, TypeStutter
<1>. QED  BY <1>1, <1>2

(* The queues hold the work items and events of the code, connections are   *)
(* connection objects of the host, and the nearby timeout stays in range,   *)
(* whatever the peers write and whatever interleavings are allowed.         *)
THEOREM TypeCorrect == Spec => []TypeOK
BY TypeInit, TypeNext, PTL DEF Spec

-----------------------------------------------------------------------------
(* The temporary modes always have the timer that ends them.  The property  *)
(* is inductive as it stands: every handler sets, clears or keeps a mode    *)
(* and its timer together.                                                  *)

LEMMA ModesKept ==
  ASSUME TemporaryModesEnd, UNCHANGED modeVars
  PROVE  TemporaryModesEnd'
BY DEF TemporaryModesEnd, modeVars

LEMMA ModesUnpaired ==
  ASSUME TemporaryModesEnd, NEW q, NEW new, enter_unpaired(q, new)
  PROVE  TemporaryModesEnd'
<1>1. CASE AUTO_ENTER
  BY <1>1, Zenon DEF enter_unpaired, TemporaryModesEnd
<1>2. CASE ~AUTO_ENTER
  BY <1>2, Zenon DEF enter_unpaired, TemporaryModesEnd
<1>. QED  BY <1>1, <1>2

LEMMA ModesConnected ==
  ASSUME TemporaryModesEnd, NEW q, NEW below, NEW new, enter_connected(q, below, new)
  PROVE  TemporaryModesEnd'
BY Zenon DEF enter_connected, pairing_mode_exit, TemporaryModesEnd

LEMMA ModesStateSet ==
  ASSUME TemporaryModesEnd, NEW q, NEW below, NEW c, NEW new,
         state_set(q, below, c, new)
  PROVE  TemporaryModesEnd'
<1>1. CASE unchanged_state(q, below, new)
  BY <1>1, ModesKept DEF unchanged_state
<1>2. CASE forbidden_transition(q, new)
  BY <1>2, ModesKept DEF forbidden_transition
<1>3. CASE enter_unpaired(q, new)
  BY <1>3, ModesUnpaired
<1>4. CASE enter_connected(q, below, new)
  BY <1>4, ModesConnected
<1>5. CASE enter_nearby(q, c, new)
  BY <1>5, Zenon DEF enter_nearby, TemporaryModesEnd
<1>6. CASE enter_separated(q, new)
  BY <1>6, ModesKept DEF enter_separated
<1>7. CASE enter_disabled(q, new)
  BY <1>7 DEF enter_disabled, TemporaryModesEnd
<1>. QED  BY <1>1, <1>2, <1>3, <1>4, <1>5, <1>6, <1>7 DEF state_set

LEMMA ModesEvent ==
  ASSUME TemporaryModesEnd, HandleEvent
  PROVE  TemporaryModesEnd'
<1>1. CASE peer_connected
  BY <1>1, ModesKept DEF peer_connected, stateVars
<1>2. CASE peer_disconnected
  BY <1>2, ModesStateSet, ModesKept DEF peer_disconnected
<1>3. CASE owner_secured
  BY <1>3, ModesKept DEF owner_secured, stateVars
<1>4. CASE candidate_secured
  BY <1>4, ModesKept DEF candidate_secured, stateVars
<1>5. CASE owner_connected
  BY <1>5, ModesStateSet DEF owner_connected
<1>6. CASE max_conn_changed
  BY <1>6, ModesKept DEF max_conn_changed, stateVars
<1>7. CASE state_changed
  BY <1>7, ModesKept DEF state_changed, stateVars
<1>8. CASE public_keys_changed
  BY <1>8 DEF public_keys_changed, fmna_public_keys_changed, TemporaryModesEnd
<1>9. CASE config_event
  <2>1. CASE UNCHANGED stateVars
    BY <2>1, ModesKept DEF stateVars
  <2>2. ASSUME NEW n, nearby_timeout_set_request_handle(n) PROVE TemporaryModesEnd'
    BY <2>2, ModesKept DEF nearby_timeout_set_request_handle
  <2>3. CASE unpair_request_handle
    BY <2>3 DEF unpair_request_handle, TemporaryModesEnd
  <2>. QED  BY <1>9, <2>1, <2>2, <2>3 DEF config_event
<1>10. CASE pair_event
  <2>1. ASSUME NEW id, pairing_cmd_rejected(id) PROVE TemporaryModesEnd'
    BY <2>1, ModesKept DEF pairing_cmd_rejected, stateVars
  <2>2. CASE initiate_pairing_cmd_handle
    BY <2>2, ModesKept DEF initiate_pairing_cmd_handle, stateVars
  <2>3. CASE finalize_pairing_cmd_handle
    BY <2>3, ModesKept DEF finalize_pairing_cmd_handle
  <2>4. CASE pairing_complete_cmd_handle
    BY <2>4, ModesConnected DEF pairing_complete_cmd_handle
  <2>. QED  BY <1>10, <2>1, <2>2, <2>3, <2>4 DEF pair_event
<1>. QED
  BY <1>1, <1>2, <1>3, <1>4, <1>5, <1>6, <1>7, <1>8, <1>9, <1>10 DEF HandleEvent

LEMMA ModesLink ==
  ASSUME TemporaryModesEnd,
         \/ link_up
         \/ max_conn_work
         \/ \E s \in Slots : \/ link_down(s) \/ link_secured(s) \/ security_error(s)
                             \/ conn_timeout_work(s)
                             \/ config_cp_write(s) \/ pairing_cp_write(s)
  PROVE  TemporaryModesEnd'
BY ModesKept
DEF link_up, max_conn_work, link_down, link_secured, security_error, conn_timeout_work,
    config_cp_write, pairing_cp_write, aboveConn, stateVars

LEMMA ModesEnable ==
  ASSUME TemporaryModesEnd, fmna_enable
  PROVE  TemporaryModesEnd'
<1>. DEFINE first == IF fmna_storage_pairing_data_check THEN "SEPARATED" ELSE "UNPAIRED"
<1>1. CASE unchanged_state(workq, TRUE, first)
  BY <1>1, ModesKept DEF unchanged_state
<1>2. CASE forbidden_transition(workq, first)
  BY <1>2, ModesKept DEF forbidden_transition
<1>3. CASE enter_separated(workq, first)
  BY <1>3, ModesKept DEF enter_separated
<1>4. CASE enter_unpaired(workq, first)
  BY <1>4, ModesUnpaired
<1>. QED  BY <1>1, <1>2, <1>3, <1>4 DEF fmna_enable

LEMMA ModesNext == TemporaryModesEnd /\ [Next]_vars => TemporaryModesEnd'
<1>. SUFFICES ASSUME TemporaryModesEnd, [Next]_vars PROVE TemporaryModesEnd'
  OBVIOUS
<1>1. CASE UNCHANGED vars
  BY <1>1, ModesKept DEF vars, stateVars
<1>2. CASE event_work
  BY <1>2, ModesKept DEF event_work, stateVars
<1>3. CASE nearby_timeout
  BY <1>3, ModesKept DEF nearby_timeout, nearby_separated_timeout_handle
<1>4. CASE nearby_work
  BY <1>4, ModesStateSet DEF nearby_work, nearby_separated_work_handle
<1>5. CASE persistent_conn_work
  BY <1>5 DEF persistent_conn_work, persistent_conn_work_handle, TemporaryModesEnd
<1>6. CASE pairing_mode_work
  BY <1>6 DEF pairing_mode_work, pairing_mode_timeout_work_handle, TemporaryModesEnd
<1>7. CASE key_timeout
  BY <1>7, ModesKept DEF key_timeout, key_rotation_timeout_handle, stateVars
<1>8. CASE key_work
  BY <1>8, ModesKept DEF key_work, key_rotation_work_handle, stateVars
<1>9. CASE fmna_disable
  BY <1>9 DEF fmna_disable, enter_disabled, TemporaryModesEnd
<1>10. CASE paired_adv
  BY <1>10, ModesKept DEF paired_adv, fmna_paired_adv_disable, fmna_paired_adv_enable
<1>11. CASE pairing_mode_request
  BY <1>11
  DEF pairing_mode_request, fmna_pairing_mode_cancel, fmna_pairing_mode_enter,
      TemporaryModesEnd
<1>. QED
  BY <1>1, <1>2, <1>3, <1>4, <1>5, <1>6, <1>7, <1>8, <1>9, <1>10, <1>11,
     ModesEvent, ModesLink, ModesEnable
  DEF Next

(* The pairing mode never runs without its timeout, and the advertising for *)
(* a lost persistent connection never without its own, however requests,    *)
(* events and time-outs interleave.                                         *)
THEOREM ModesAreTimed == Spec => []TemporaryModesEnd
<1>1. Init => TemporaryModesEnd
  BY DEF Init, TemporaryModesEnd
<1>. QED  BY <1>1, ModesNext, PTL DEF Spec

-----------------------------------------------------------------------------
(* One reference per link.  The invariant needs two more facts: advertising *)
(* reserves an object without a link, so that a new link starts without a   *)
(* reference; and nothing that is left over from before fmna_disable() can  *)
(* bring a disabled stack back to life.  The second one is what busy        *)
(* disabling breaks, the first what links of the time before fmna_disable() *)
(* break.                                                                   *)

AdvSlotFree == adv.kind # "off" => adv.slot \notin Live

QuietDisabled ==
  state = "DISABLED" =>
    /\ adv = NoAdv
    /\ ~nearby_timer
    /\ ~Queued(workq, "nearby")
    /\ \A i \in 1..Len(batch)  : batch[i].id \in StackEvents
    /\ \A i \in 1..Len(events) : events[i].id \in StackEvents

ReferenceInv ==
  /\ TypeOK
  /\ OneReferencePerLink
  /\ AdvSlotFree
  /\ QuietDisabled

CarefulDisable ==
  /\ "busy_disable" \notin Races
  /\ "early_enable" \notin Races
  /\ "closing_disable" \notin Races

LEMMA DisconnectLive ==
  ASSUME NEW S, Disconnect(S)
  PROVE  Live' = Live
BY DEF Disconnect, Live

(* What most steps do to an enabled stack. *)
Steady ==
  /\ refs' = refs
  /\ Live' = Live
  /\ AdvStep
  /\ state # "DISABLED" => state' # "DISABLED"

LEMMA SteadyReferences ==
  ASSUME TypeOK, OneReferencePerLink, AdvSlotFree, Steady, state # "DISABLED"
  PROVE  OneReferencePerLink' /\ AdvSlotFree' /\ QuietDisabled'
<1>1. OneReferencePerLink'
  BY DEF OneReferencePerLink, Steady, is_enabled
<1>2. AdvSlotFree'
  BY DEF AdvSlotFree, Steady, AdvStep, NoAdv
<1>. QED  BY <1>1, <1>2 DEF QuietDisabled, Steady

(* state_set() enters DISABLED only when it is told to. *)
LEMMA StateSetEnabled ==
  ASSUME NEW q, NEW below, NEW c, NEW new, new # "DISABLED",
         state_set(q, below, c, new)
  PROVE  state' # "DISABLED"
BY DEF state_set, unchanged_state, forbidden_transition, enter_unpaired,
       enter_connected, enter_nearby, enter_separated, enter_disabled

LEMMA SteadyEvents ==
  ASSUME TypeOK, HandleEvent
  PROVE  Steady
<1>1. CASE peer_connected
  BY <1>1, PeerConnectedType DEF peer_connected, Steady, stateVars, Live
<1>2. CASE peer_disconnected
  <2>1. AdvStep /\ refs' = refs
    BY <1>2, PeerDisconnectedType DEF peer_disconnected
  <2>2. Live' = Live
    BY <1>2, DisconnectLive DEF peer_disconnected, unpaired_peer
  <2>3. state # "DISABLED" => state' # "DISABLED"
    BY <1>2, StateSetEnabled DEF peer_disconnected
  <2>. QED  BY <2>1, <2>2, <2>3 DEF Steady
<1>3. CASE owner_secured
  BY <1>3 DEF owner_secured, Steady, hostVars, stateVars, Live, AdvStep
<1>4. CASE candidate_secured
  <2>1. Live' = Live
    BY <1>4, DisconnectLive DEF candidate_secured, unpaired_peer
  <2>. QED  BY <1>4, <2>1 DEF candidate_secured, Steady, stateVars, AdvStep
<1>5. CASE owner_connected
  <2>1. state' # "DISABLED"
    BY <1>5, StateSetEnabled DEF owner_connected
  <2>. QED  BY <1>5, <2>1, OwnerConnectedType DEF owner_connected, Steady, hostVars, Live
<1>6. CASE max_conn_changed
  BY <1>6, MaxConnChangedType
  DEF max_conn_changed, Steady, connVars, hostVars, stateVars, Live
<1>7. CASE state_changed
  BY <1>7 DEF state_changed, Steady, hostVars, stateVars, Live, AdvStep
<1>8. CASE public_keys_changed
  BY <1>8, PublicKeysChangedType
  DEF public_keys_changed, fmna_public_keys_changed, Steady, connVars, hostVars, Live
<1>9. CASE config_event
  <2>. DEFINE s == Head(batch).conn
              n == Head(batch).arg
  <2>1. CASE persistent_conn_request_handle(s, n) /\ UNCHANGED stateVars
    BY <2>1 DEF persistent_conn_request_handle, Steady, hostVars, stateVars, Live, AdvStep
  <2>2. CASE max_connections_request_handle(s, n) /\ UNCHANGED stateVars
    <3>1. Live' = Live
      BY <2>2, DisconnectLive DEF max_connections_request_handle, Live
    <3>. QED
      BY <2>2, <3>1 DEF max_connections_request_handle, Steady, stateVars, AdvStep
  <2>3. CASE nearby_timeout_set_request_handle(n)
    BY <2>3 DEF nearby_timeout_set_request_handle, Steady, connVars, hostVars, Live, AdvStep
  <2>4. CASE unpair_request_handle
    BY <2>4 DEF unpair_request_handle, Steady, connVars, hostVars, Live, AdvStep
  <2>. QED  BY <1>9, <2>1, <2>2, <2>3, <2>4 DEF config_event
<1>10. CASE pair_event
  <2>1. ASSUME NEW id, pairing_cmd_rejected(id) PROVE Steady
    <3>1. Live' = Live
      BY <2>1, DisconnectLive DEF pairing_cmd_rejected
    <3>. QED  BY <2>1, <3>1 DEF pairing_cmd_rejected, Steady, stateVars, AdvStep
  <2>2. CASE initiate_pairing_cmd_handle
    BY <2>2 DEF initiate_pairing_cmd_handle, Steady, connVars, hostVars, stateVars, Live, AdvStep
  <2>3. CASE finalize_pairing_cmd_handle
    <3>1. Live' = Live
      BY <2>3, DisconnectLive DEF finalize_pairing_cmd_handle, Live
    <3>. QED  BY <2>3, <3>1 DEF finalize_pairing_cmd_handle, Steady, AdvStep
  <2>4. CASE pairing_complete_cmd_handle
    <3>1. AdvStep
      BY <1>10, <2>4, CompleteType DEF pair_event
    <3>2. state' # "DISABLED"
      BY <2>4 DEF pairing_complete_cmd_handle, enter_connected
    <3>. QED  BY <2>4, <3>1, <3>2 DEF pairing_complete_cmd_handle, Steady, hostVars, Live
  <2>. QED  BY <1>10, <2>1, <2>2, <2>3, <2>4 DEF pair_event
<1>. QED
  BY <1>1, <1>2, <1>3, <1>4, <1>5, <1>6, <1>7, <1>8, <1>9, <1>10 DEF HandleEvent

(* The steps that neither begin nor end a link nor come from fmna.c.        *)
InnerStep ==
  \/ event_work \/ HandleEvent
  \/ max_conn_work \/ nearby_timeout \/ nearby_work
  \/ persistent_conn_work \/ pairing_mode_work \/ key_timeout \/ key_work
  \/ paired_adv \/ pairing_mode_request
  \/ \E s \in Slots : \/ link_secured(s) \/ security_error(s)
                      \/ conn_timeout_work(s)
                      \/ config_cp_write(s) \/ pairing_cp_write(s)
  \/ UNCHANGED vars

LEMMA SteadySteps ==
  ASSUME TypeOK, InnerStep
  PROVE  Steady
<1>1. CASE event_work
  BY <1>1 DEF event_work, Steady, connVars, hostVars, stateVars, Live, AdvStep
<1>2. CASE max_conn_work
  BY <1>2
  DEF max_conn_work, max_conn_work_handle, Steady, hostVars, aboveConn, stateVars, Live,
      AdvStep
<1>3. CASE nearby_timeout
  BY <1>3
  DEF nearby_timeout, nearby_separated_timeout_handle, Steady, connVars, hostVars, Live,
      AdvStep
<1>4. CASE nearby_work
  <2>1. state' # "DISABLED"
    BY <1>4, StateSetEnabled DEF nearby_work, nearby_separated_work_handle
  <2>. QED
    BY <1>4, <2>1, NearbyWorkType
    DEF nearby_work, nearby_separated_work_handle, Steady, connVars, hostVars, Live
<1>5. CASE persistent_conn_work
  BY <1>5, PersistentConnWorkType
  DEF persistent_conn_work, persistent_conn_work_handle, Steady, connVars, hostVars, Live
<1>6. CASE pairing_mode_work
  BY <1>6, PairingModeWorkType
  DEF pairing_mode_work, pairing_mode_timeout_work_handle, Steady, connVars, hostVars, Live
<1>7. CASE key_timeout
  BY <1>7
  DEF key_timeout, key_rotation_timeout_handle, Steady, connVars, hostVars, stateVars,
      Live, AdvStep
<1>8. CASE key_work
  BY <1>8
  DEF key_work, key_rotation_work_handle, Steady, connVars, hostVars, stateVars, Live,
      AdvStep
<1>9. CASE paired_adv
  BY <1>9, PairedAdvType
  DEF paired_adv, fmna_paired_adv_disable, fmna_paired_adv_enable, Steady, connVars,
      hostVars, Live
<1>10. CASE pairing_mode_request
  BY <1>10, PairingModeRequestType
  DEF pairing_mode_request, fmna_pairing_mode_cancel, fmna_pairing_mode_enter, Steady,
      connVars, hostVars, Live
<1>11. ASSUME NEW s \in Slots, link_secured(s) PROVE Steady
  BY <1>11 DEF link_secured, secured_cb, Steady, aboveConn, stateVars, Live, AdvStep
<1>12. ASSUME NEW s \in Slots, security_error(s) PROVE Steady
  BY <1>12, DisconnectLive
  DEF security_error, security_failed_cb, Steady, aboveConn, stateVars, AdvStep
<1>13. ASSUME NEW s \in Slots, conn_timeout_work(s) PROVE Steady
  BY <1>13, DisconnectLive
  DEF conn_timeout_work, conn_timeout_work_handle, Steady, aboveConn, stateVars, AdvStep
<1>14. ASSUME NEW s \in Slots, config_cp_write(s) \/ pairing_cp_write(s) PROVE Steady
  BY <1>14
  DEF config_cp_write, pairing_cp_write, Steady, connVars, hostVars, stateVars, Live,
      AdvStep
<1>15. CASE UNCHANGED vars
  BY <1>15 DEF vars, Steady, connVars, hostVars, stateVars, Live, AdvStep
<1>. QED
  BY <1>1, <1>2, <1>3, <1>4, <1>5, <1>6, <1>7, <1>8, <1>9, <1>10, <1>11, <1>12, <1>13,
     <1>14, <1>15, SteadyEvents
  DEF InnerStep

(* A disabled stack stays quiet: no peer event waits, so that only the      *)
(* events of the stack itself are handled, and none of them advertises.     *)

LEMMA TailQueued ==
  ASSUME NEW q \in Seq(WorkItems), q # <<>>, NEW w, Queued(Tail(q), w)
  PROVE  Queued(q, w)
<1>1. /\ Len(Tail(q)) = Len(q) - 1
      /\ \A i \in 1..Len(Tail(q)) : Tail(q)[i] = q[i + 1]
  BY HeadTailProperties
<1>2. Len(q) \in Nat
  BY LenProperties
<1>3. PICK i \in 1..Len(Tail(q)) : Tail(q)[i] = w
  BY DEF Queued
<1>4. i + 1 \in 1..Len(q) /\ q[i + 1] = w
  BY <1>1, <1>2, <1>3
<1>. QED  BY <1>4 DEF Queued

LEMMA TailEvents ==
  ASSUME NEW evs \in Seq(Event), evs # <<>>,
         \A i \in 1..Len(evs) : evs[i].id \in StackEvents
  PROVE  /\ Head(evs).id \in StackEvents
         /\ \A i \in 1..Len(Tail(evs)) : Tail(evs)[i].id \in StackEvents
<1>1. /\ Len(Tail(evs)) = Len(evs) - 1
      /\ \A i \in 1..Len(Tail(evs)) : Tail(evs)[i] = evs[i + 1]
  BY HeadTailProperties
<1>2. Len(evs) \in Nat \ {0}
  BY EmptySeq
<1>3. Head(evs) = evs[1]
  OBVIOUS
<1>4. ASSUME NEW i \in 1..Len(Tail(evs)) PROVE Tail(evs)[i].id \in StackEvents
  <2>1. i + 1 \in 1..Len(evs)
    BY <1>1, <1>2
  <2>. QED  BY <1>1, <2>1
<1>. QED  BY <1>2, <1>3, <1>4

LEMMA PostNothing ==
  ASSUME TypeOK, Post(<<>>)
  PROVE  workq' = workq /\ events' = events
BY ConcatEmptySeq DEF Post, PostOn, TypeOK, QueueTypeOK

LEMMA RestartDisabled ==
  ASSUME state = "DISABLED", NEW below \in BOOLEAN
  PROVE  advertise_restart(below) \in {adv, NoAdv}
BY DEF advertise_restart

LEMMA QuietEvents ==
  ASSUME TypeOK, QuietDisabled, state = "DISABLED", HandleEvent
  PROVE  state' = "DISABLED" /\ QuietDisabled'
<1>1. /\ batch \in Seq(Event)
      /\ adv = NoAdv
      /\ ~nearby_timer
      /\ ~Queued(workq, "nearby")
      /\ \A i \in 1..Len(batch)  : batch[i].id \in StackEvents
      /\ \A i \in 1..Len(events) : events[i].id \in StackEvents
  BY DEF QuietDisabled, TypeOK, QueueTypeOK
<1>2. ASSUME NEW id, Handling(id)
      PROVE  /\ id \in StackEvents
             /\ \A i \in 1..Len(batch') : batch'[i].id \in StackEvents
  BY <1>1, <1>2, TailEvents DEF Handling
<1>3. StackEvents \cap PeerEvents = {}
  BY DEF PeerEvents, StackEvents, LinkEvents, ConfigEvents, PairEvents
<1>4. ASSUME NEW id \in PeerEvents PROVE ~Handling(id)
  BY <1>2, <1>3, <1>4
<1>5. CASE state_changed
  <2>1. workq' = workq /\ events' = events
    BY <1>5, PostNothing DEF state_changed
  <2>2. \A i \in 1..Len(batch') : batch'[i].id \in StackEvents
    BY <1>2, <1>5 DEF state_changed
  <2>3. UNCHANGED <<adv, state, nearby_timer>>
    BY <1>5 DEF state_changed, stateVars, nearbyVars
  <2>. QED  BY <1>1, <2>1, <2>2, <2>3 DEF QuietDisabled, Queued
<1>6. CASE public_keys_changed
  <2>1. workq' = workq /\ events' = events
    BY <1>6, PostNothing DEF public_keys_changed, fmna_public_keys_changed
  <2>2. \A i \in 1..Len(batch') : batch'[i].id \in StackEvents
    BY <1>2, <1>6 DEF public_keys_changed
  <2>3. adv' = NoAdv
    BY <1>1, <1>6, RestartDisabled, LimitCheckType
    DEF public_keys_changed, fmna_public_keys_changed
  <2>4. UNCHANGED <<state, nearby_timer>>
    BY <1>6 DEF public_keys_changed, fmna_public_keys_changed, nearbyVars
  <2>. QED  BY <1>1, <2>1, <2>2, <2>3, <2>4 DEF QuietDisabled, Queued
<1>7. ~(peer_connected \/ peer_disconnected \/ owner_secured \/ candidate_secured
         \/ owner_connected \/ max_conn_changed)
  BY <1>4
  DEF peer_connected, peer_disconnected, owner_secured, candidate_secured,
      owner_connected, max_conn_changed, PeerEvents, LinkEvents
<1>8. ~config_event
  BY <1>4 DEF config_event, PeerEvents, ConfigEvents
<1>9. ~pair_event
  BY <1>4
  DEF pair_event, pairing_cmd_rejected, initiate_pairing_cmd_handle,
      finalize_pairing_cmd_handle, pairing_complete_cmd_handle, PeerEvents, PairEvents
<1>. QED  BY <1>5, <1>6, <1>7, <1>8, <1>9 DEF HandleEvent

(* Steps that leave the queues and the nearby timer alone. *)
LEMMA QuietKept ==
  ASSUME QuietDisabled, state = "DISABLED", UNCHANGED <<queueVars, state, nearby_timer>>,
         adv' \in {adv, NoAdv}
  PROVE  state' = "DISABLED" /\ QuietDisabled'
BY DEF QuietDisabled, queueVars, Queued

LEMMA QuietSteps ==
  ASSUME TypeOK, QuietDisabled, state = "DISABLED", InnerStep
  PROVE  state' = "DISABLED" /\ QuietDisabled'
<1>1. /\ workq \in Seq(WorkItems)
      /\ events \in Seq(Event)
      /\ adv = NoAdv
      /\ ~nearby_timer
      /\ ~Queued(workq, "nearby")
      /\ \A i \in 1..Len(batch)  : batch[i].id \in StackEvents
      /\ \A i \in 1..Len(events) : events[i].id \in StackEvents
      /\ ~is_enabled /\ ~is_paired
  BY DEF QuietDisabled, TypeOK, QueueTypeOK, is_enabled, is_paired
<1>2. CASE event_work
  <2>1. /\ workq # <<>>
        /\ workq' = Tail(workq)
        /\ batch' = events
        /\ events' = <<>>
        /\ UNCHANGED <<adv, stateVars>>
    BY <1>2 DEF event_work, TakeEvents
  <2>2. ~Queued(Tail(workq), "nearby")
    BY <1>1, <2>1, TailQueued
  <2>3. Len(<<>>) = 0
    OBVIOUS
  <2>. QED
    BY <1>1, <2>1, <2>2, <2>3 DEF QuietDisabled, stateVars, nearbyVars, Queued
<1>3. CASE max_conn_work
  BY <1>3, QuietKept
  DEF max_conn_work, max_conn_work_handle, aboveConn, stateVars, nearbyVars
<1>4. CASE nearby_timeout
  BY <1>1, <1>4 DEF nearby_timeout, nearby_separated_timeout_handle
<1>5. CASE nearby_work
  <2>1. Running("nearby")
    BY <1>5 DEF nearby_work, nearby_separated_work_handle
  <2>2. Len(workq) \in Nat \ {0} /\ workq[1] = "nearby"
    BY <1>1, <2>1, EmptySeq DEF Running
  <2>3. Queued(workq, "nearby")
    BY <2>2 DEF Queued
  <2>. QED  BY <1>1, <2>3
<1>6. CASE persistent_conn_work
  <2>1. adv' \in {adv, NoAdv}
    BY <1>6, RestartDisabled, LimitCheckType
    DEF persistent_conn_work, persistent_conn_work_handle
  <2>. QED
    BY <1>6, <2>1, QuietKept
    DEF persistent_conn_work, persistent_conn_work_handle, nearbyVars
<1>7. CASE pairing_mode_work
  BY <1>7, QuietKept DEF pairing_mode_work, pairing_mode_timeout_work_handle, nearbyVars
<1>8. CASE key_timeout
  <2>1. /\ workq' = Submitted(workq, "keys")
        /\ UNCHANGED <<batch, events, adv, stateVars>>
    BY <1>8 DEF key_timeout, key_rotation_timeout_handle
  <2>2. ~Queued(workq', "nearby")
    BY <1>1, <2>1, SubmittedProperties DEF WorkItems
  <2>. QED  BY <1>1, <2>1, <2>2 DEF QuietDisabled, stateVars, nearbyVars, Queued
<1>9. CASE key_work
  <2>1. PICK evs \in {<<>>} \cup {<<EvArg("PUBLIC_KEYS_CHANGED", NULL, a)>> : a \in {0, 1}} :
          PostOn(Tail(workq), evs)
    BY <1>9 DEF key_work, key_rotation_work_handle
  <2>2. workq # <<>> /\ UNCHANGED <<batch, adv, stateVars>>
    BY <1>9 DEF key_work, key_rotation_work_handle, Running
  <2>3. Tail(workq) \in Seq(WorkItems) /\ ~Queued(Tail(workq), "nearby")
    BY <1>1, <2>2, TailQueued, HeadTailProperties
  <2>4. ~Queued(workq', "nearby")
    <3>1. workq' = Tail(workq) \/ workq' = Submitted(Tail(workq), "events")
      BY <2>1 DEF PostOn
    <3>. QED  BY <2>3, <3>1, SubmittedProperties DEF WorkItems
  <2>5. /\ evs \in Seq(Event)
        /\ \A i \in 1..Len(evs) : evs[i].id \in StackEvents
    <3>1. CASE evs = <<>>
      BY <3>1, EventType
    <3>2. ASSUME NEW a \in {0, 1}, evs = <<EvArg("PUBLIC_KEYS_CHANGED", NULL, a)>>
          PROVE  evs \in Seq(Event) /\ \A i \in 1..Len(evs) : evs[i].id \in StackEvents
      <4>1. EvArg("PUBLIC_KEYS_CHANGED", NULL, a) \in Event
        BY EventType DEF StackEvents
      <4>2. EvArg("PUBLIC_KEYS_CHANGED", NULL, a).id \in StackEvents
        BY DEF EvArg, StackEvents
      <4>. QED  BY <3>2, <4>1, <4>2
    <3>. QED  BY <3>1, <3>2
  <2>6. \A i \in 1..Len(events') : events'[i].id \in StackEvents
    <3>1. events' = events \o evs
      BY <2>1 DEF PostOn
    <3>2. /\ Len(events') = Len(events) + Len(evs)
          /\ \A i \in 1..Len(events) + Len(evs) :
               events'[i] = IF i <= Len(events) THEN events[i] ELSE evs[i - Len(events)]
      BY <1>1, <2>5, <3>1, ConcatProperties
    <3>3. Len(events) \in Nat /\ Len(evs) \in Nat
      BY <1>1, <2>5, LenProperties
    <3>4. ASSUME NEW i \in 1..Len(events') PROVE events'[i].id \in StackEvents
      <4>1. CASE i <= Len(events)
        BY <1>1, <3>2, <3>3, <4>1
      <4>2. CASE ~(i <= Len(events))
        <5>1. i - Len(events) \in 1..Len(evs)
          BY <3>2, <3>3, <4>2
        <5>. QED  BY <2>5, <3>2, <3>3, <4>2, <5>1
      <4>. QED  BY <4>1, <4>2
    <3>. QED  BY <3>4
  <2>. QED  BY <1>1, <2>2, <2>4, <2>6 DEF QuietDisabled, stateVars, nearbyVars, Queued
<1>10. CASE paired_adv
  BY <1>1, <1>10, QuietKept
  DEF paired_adv, fmna_paired_adv_disable, fmna_paired_adv_enable, nearbyVars
<1>11. CASE pairing_mode_request
  BY <1>11 DEF pairing_mode_request, fmna_pairing_mode_cancel, fmna_pairing_mode_enter
<1>12. ASSUME NEW s \in Slots, link_secured(s) PROVE state' = "DISABLED" /\ QuietDisabled'
  BY <1>1, <1>12, QuietKept
  DEF link_secured, secured_cb, aboveConn, stateVars, nearbyVars, queueVars
<1>13. ASSUME NEW s \in Slots, conn_timeout_work(s)
       PROVE  state' = "DISABLED" /\ QuietDisabled'
  BY <1>13, QuietKept
  DEF conn_timeout_work, conn_timeout_work_handle, aboveConn, stateVars, nearbyVars
<1>14. ASSUME NEW s \in Slots,
              security_error(s) \/ config_cp_write(s) \/ pairing_cp_write(s)
       PROVE  FALSE
  BY <1>1, <1>14 DEF security_error, security_failed_cb, config_cp_write, pairing_cp_write
<1>15. CASE UNCHANGED vars
  BY <1>15, QuietKept DEF vars, stateVars, nearbyVars
<1>. QED
  BY <1>2, <1>3, <1>4, <1>5, <1>6, <1>7, <1>8, <1>9, <1>10, <1>11, <1>12, <1>13, <1>14,
     <1>15, QuietEvents
  DEF InnerStep

LEMMA LinkUpReferences ==
  ASSUME ReferenceInv, link_up
  PROVE  OneReferencePerLink' /\ AdvSlotFree' /\ QuietDisabled'
<1>. DEFINE s == adv.slot
<1>1. TypeOK /\ OneReferencePerLink /\ AdvSlotFree /\ QuietDisabled
  BY DEF ReferenceInv
<1>2. connected_cb /\ UNCHANGED <<state, nearby_timer>>
  BY DEF link_up, aboveConn, stateVars, nearbyVars
<1>3. adv.kind # "off" /\ s \notin Live
  BY <1>1, <1>2 DEF connected_cb, AdvSlotFree
<1>4. state # "DISABLED"
  BY <1>1, <1>3 DEF QuietDisabled, NoAdv
<1>5. s \in Slots
  BY <1>1, <1>3 DEF TypeOK, ConnTypeOK, Adv, NoAdv
<1>6. /\ connected' = connected \cup {s}
      /\ closing' = closing
      /\ refs' = [refs EXCEPT ![s] = @ + 1]
      /\ adv' = NoAdv
  BY <1>2, <1>4 DEF connected_cb, is_enabled
<1>7. refs \in [Slots -> Int] /\ refs[s] = 0
  BY <1>1, <1>3, <1>5 DEF TypeOK, ConnTypeOK, OneReferencePerLink
<1>8. OneReferencePerLink'
  BY <1>1, <1>2, <1>4, <1>5, <1>6, <1>7 DEF OneReferencePerLink, is_enabled, Live
<1>. QED  BY <1>2, <1>4, <1>6, <1>8 DEF AdvSlotFree, QuietDisabled, NoAdv

LEMMA LinkDownReferences ==
  ASSUME ReferenceInv, NEW s \in Slots, link_down(s)
  PROVE  OneReferencePerLink' /\ AdvSlotFree' /\ QuietDisabled'
<1>1. TypeOK /\ OneReferencePerLink /\ AdvSlotFree /\ QuietDisabled
  BY DEF ReferenceInv
<1>2. disconnected_cb(s) /\ UNCHANGED <<state, nearby_timer>>
  BY DEF link_down, aboveConn, stateVars, nearbyVars
<1>3. s \in Live /\ Live' = Live \ {s} /\ adv' = adv /\ batch' = batch
  BY <1>2 DEF disconnected_cb, Live
<1>4. refs \in [Slots -> Int]
  BY <1>1 DEF TypeOK, ConnTypeOK
<1>5. CASE state = "DISABLED"
  <2>1. UNCHANGED <<refs, workq, events>>
    BY <1>2, <1>5 DEF disconnected_cb, is_enabled
  <2>. QED
    BY <1>1, <1>2, <1>3, <1>5, <2>1
    DEF OneReferencePerLink, is_enabled, AdvSlotFree, QuietDisabled, Queued
<1>6. CASE state # "DISABLED"
  <2>1. refs' = [refs EXCEPT ![s] = @ - 1]
    BY <1>2, <1>6 DEF disconnected_cb, is_enabled, bt_conn_unref
  <2>2. OneReferencePerLink'
    BY <1>1, <1>2, <1>3, <1>4, <1>6, <2>1 DEF OneReferencePerLink, is_enabled
  <2>. QED
    BY <1>1, <1>2, <1>3, <1>6, <2>2 DEF AdvSlotFree, QuietDisabled
<1>. QED  BY <1>5, <1>6

(* fmna_enable() finds no link, and leaves DISABLED if it was there.        *)
LEMMA EnableReferences ==
  ASSUME ReferenceInv, CarefulDisable, fmna_enable
  PROVE  OneReferencePerLink' /\ AdvSlotFree' /\ QuietDisabled'
<1>1. TypeOK /\ OneReferencePerLink
  BY DEF ReferenceInv
<1>2. Live = {} /\ Live' = Live /\ refs' = refs
  BY DEF fmna_enable, CarefulDisable, hostVars, Live
<1>3. state' # "DISABLED"
  BY DEF fmna_enable, unchanged_state, forbidden_transition, enter_separated,
         enter_unpaired
<1>4. OneReferencePerLink'
  BY <1>1, <1>2 DEF OneReferencePerLink
<1>5. AdvSlotFree'
  BY <1>2 DEF AdvSlotFree
<1>. QED  BY <1>3, <1>4, <1>5 DEF QuietDisabled

(* fmna_disable() finds no event waiting and no link going down, and gives  *)
(* the reference of every link back.                                        *)
LEMMA DisableReferences ==
  ASSUME ReferenceInv, CarefulDisable, fmna_disable
  PROVE  OneReferencePerLink' /\ AdvSlotFree' /\ QuietDisabled'
<1>1. TypeOK /\ OneReferencePerLink
  BY DEF ReferenceInv
<1>2. /\ NothingQueued
      /\ closing = {}
      /\ enter_disabled(workq, "DISABLED")
      /\ Disconnect(connected)
      /\ refs' = [s \in Slots |-> IF s \in connected THEN refs[s] - 1 ELSE refs[s]]
      /\ batch' = batch
  BY DEF fmna_disable, fmna_conn_uninit, CarefulDisable
<1>3. /\ state' = "DISABLED" /\ state # "DISABLED"
      /\ adv' = NoAdv
      /\ nearby_timer' = FALSE
      /\ reported(Cancelled(workq, "nearby"), "DISABLED", 1)
  BY <1>2 DEF enter_disabled
<1>4. OneReferencePerLink'
  <2>1. Live = connected /\ refs \in [Slots -> Int]
    BY <1>1, <1>2 DEF Live, TypeOK, ConnTypeOK
  <2>. QED  BY <1>1, <1>2, <1>3, <2>1 DEF OneReferencePerLink, is_enabled
<1>5. QuietDisabled'
  <2>. DEFINE evs == [i \in 1..1 |-> Ev("STATE_CHANGED", NULL)]
  <2>1. workq = <<>> /\ batch = <<>> /\ events = <<>>
    BY <1>2 DEF NothingQueued
  <2>2. ~Queued(<<>>, "nearby")
    BY DEF Queued
  <2>3. Cancelled(workq, "nearby") = <<>>
    BY <2>1, <2>2 DEF Cancelled
  <2>4. evs \in Seq(Event) /\ Len(evs) = 1
    <3>1. \A i \in 1..1 : Ev("STATE_CHANGED", NULL) \in Event
      BY EventType DEF StackEvents
    <3>2. evs \in Seq(Event)
      BY <3>1, IsASeq
    <3>. QED  BY <3>2
  <2>5. PostOn(<<>>, evs)
    BY <1>3, <2>3 DEF reported
  <2>6. events' = evs
    BY <2>1, <2>4, <2>5, ConcatEmptySeq DEF PostOn
  <2>7. ~Queued(workq', "nearby")
    <3>1. workq' = <<>> \/ workq' = Submitted(<<>>, "events")
      BY <2>5 DEF PostOn
    <3>2. <<>> \in Seq(WorkItems)
      BY EmptySeq
    <3>. QED  BY <2>2, <3>1, <3>2, SubmittedProperties DEF WorkItems
  <2>8. \A i \in 1..Len(evs) : evs[i].id \in StackEvents
    BY <2>4 DEF Ev, StackEvents
  <2>9. \A i \in 1..Len(batch') : batch'[i].id \in StackEvents
    BY <1>2, <2>1
  <2>. QED  BY <1>3, <2>6, <2>7, <2>8, <2>9 DEF QuietDisabled, Queued
<1>. QED  BY <1>3, <1>4, <1>5 DEF AdvSlotFree, NoAdv

LEMMA ReferenceNext ==
  ASSUME CarefulDisable, ReferenceInv, [Next]_vars
  PROVE  ReferenceInv'
<1>1. TypeOK /\ OneReferencePerLink /\ AdvSlotFree /\ QuietDisabled
  BY DEF ReferenceInv
<1>2. TypeOK'
  BY <1>1, TypeNext
<1>3. CASE link_up
  BY <1>2, <1>3, LinkUpReferences DEF ReferenceInv
<1>4. CASE \E s \in Slots : link_down(s)
  BY <1>2, <1>4, LinkDownReferences DEF ReferenceInv
<1>5. CASE fmna_enable
  BY <1>2, <1>5, EnableReferences DEF ReferenceInv
<1>6. CASE fmna_disable
  BY <1>2, <1>6, DisableReferences DEF ReferenceInv
<1>7. CASE InnerStep
  <2>1. Steady
    BY <1>1, <1>7, SteadySteps
  <2>2. CASE state # "DISABLED"
    BY <1>1, <1>2, <2>1, <2>2, SteadyReferences DEF ReferenceInv
  <2>3. CASE state = "DISABLED"
    <3>1. state' = "DISABLED" /\ QuietDisabled'
      BY <1>1, <1>7, <2>3, QuietSteps
    <3>2. OneReferencePerLink'
      BY <1>1, <2>1, <2>3, <3>1 DEF OneReferencePerLink, Steady, is_enabled
    <3>3. AdvSlotFree'
      BY <3>1 DEF QuietDisabled, AdvSlotFree, NoAdv
    <3>. QED  BY <1>2, <3>1, <3>2, <3>3 DEF ReferenceInv
  <2>. QED  BY <2>2, <2>3
<1>. QED  BY <1>3, <1>4, <1>5, <1>6, <1>7 DEF Next, InnerStep

(* As long as the application disables the stack when no event waits and no *)
(* link is going down, and enables it when the old links are gone, the      *)
(* stack holds exactly one reference on the object of every link: each      *)
(* bt_conn_ref() of connected() is matched by one bt_conn_unref() of        *)
(* disconnected() or fmna_conn_uninit(), in every other interleaving.       *)
THEOREM ReferencesBalance ==
  ASSUME CarefulDisable
  PROVE  Spec => []OneReferencePerLink
<1>1. Init => ReferenceInv
  <2>. SUFFICES ASSUME Init PROVE ReferenceInv
    OBVIOUS
  <2>1. OneReferencePerLink
    BY DEF Init, OneReferencePerLink, Live
  <2>2. AdvSlotFree
    BY DEF Init, AdvSlotFree, NoAdv
  <2>3. QuietDisabled
    BY DEF Init, QuietDisabled, Queued
  <2>. QED  BY <2>1, <2>2, <2>3, TypeInit DEF ReferenceInv
<1>2. ReferenceInv /\ [Next]_vars => ReferenceInv'
  BY ReferenceNext
<1>3. ReferenceInv => OneReferencePerLink
  BY DEF ReferenceInv
<1>. QED  BY <1>1, <1>2, <1>3, PTL DEF Spec

-----------------------------------------------------------------------------
(* Unencrypted links are timed.  Besides the timers the invariant says that *)
(* a disabled stack neither advertises nor has a link that is up: in that   *)
(* state connected() does not start the timer.                              *)

SilentDisabled == state = "DISABLED" => adv = NoAdv /\ connected = {}

TimeoutInv ==
  /\ TypeOK
  /\ UnsecuredLinkTimed
  /\ SilentDisabled

(* A step that ends links, encrypts links or stops their timers, but stops  *)
(* the timer of no other link.                                              *)
LinksShrink ==
  /\ connected' \subseteq connected
  /\ encrypted \subseteq encrypted'
  /\ conn_timeout \ conn_timeout' \subseteq encrypted' \cup (Slots \ connected')

LEMMA DisconnectShrinks ==
  ASSUME NEW S, Disconnect(S), encrypted' = encrypted, conn_timeout' = conn_timeout
  PROVE  LinksShrink
BY DEF Disconnect, LinksShrink

LEMMA LinksKept ==
  ASSUME UNCHANGED <<connected, encrypted, conn_timeout>>
  PROVE  LinksShrink
BY DEF LinksShrink

LEMMA ShrinkEvents ==
  ASSUME TypeOK, HandleEvent
  PROVE  LinksShrink
<1>1. CASE peer_connected
  BY <1>1, LinksKept DEF peer_connected
<1>2. CASE peer_disconnected
  BY <1>2, DisconnectShrinks DEF peer_disconnected, unpaired_peer
<1>3. CASE owner_secured
  BY <1>3, LinksKept DEF owner_secured, hostVars
<1>4. CASE candidate_secured
  BY <1>4, DisconnectShrinks DEF candidate_secured, unpaired_peer
<1>5. CASE owner_connected
  BY <1>5, LinksKept DEF owner_connected, hostVars
<1>6. CASE max_conn_changed
  BY <1>6, LinksKept DEF max_conn_changed, connVars, hostVars
<1>7. CASE state_changed
  BY <1>7, LinksKept DEF state_changed, hostVars
<1>8. CASE public_keys_changed
  BY <1>8, LinksKept
  DEF public_keys_changed, fmna_public_keys_changed, connVars, hostVars
<1>9. CASE config_event
  <2>. DEFINE s == Head(batch).conn
              n == Head(batch).arg
  <2>1. CASE persistent_conn_request_handle(s, n)
    BY <2>1, LinksKept DEF persistent_conn_request_handle, hostVars
  <2>2. CASE max_connections_request_handle(s, n)
    <3>1. encrypted' = encrypted
      BY <2>2 DEF max_connections_request_handle
    <3>2. CASE UNCHANGED <<connected, conn_timeout>>
      BY <3>1, <3>2, LinksKept
    <3>3. ASSUME NEW k, Disconnect(Cut(s, k)), conn_timeout' = conn_timeout \ Visited(s, k)
          PROVE  LinksShrink
      <4>1. connected' = connected \ Cut(s, k)
        BY <3>3 DEF Disconnect
      <4>2. Visited(s, k) \subseteq Slots \ connected'
        BY <4>1 DEF Cut, Visited, Others
      <4>. QED  BY <3>1, <3>3, <4>1, <4>2 DEF LinksShrink
    <3>4. \/ UNCHANGED <<connected, conn_timeout>>
          \/ \E k : Disconnect(Cut(s, k)) /\ conn_timeout' = conn_timeout \ Visited(s, k)
      BY <2>2 DEF max_connections_request_handle
    <3>. QED  BY <3>2, <3>3, <3>4
  <2>3. CASE nearby_timeout_set_request_handle(n)
    BY <2>3, LinksKept DEF nearby_timeout_set_request_handle, connVars, hostVars
  <2>4. CASE unpair_request_handle
    BY <2>4, LinksKept DEF unpair_request_handle, connVars, hostVars
  <2>. QED  BY <1>9, <2>1, <2>2, <2>3, <2>4 DEF config_event
<1>10. CASE pair_event
  <2>1. ASSUME NEW id, pairing_cmd_rejected(id) PROVE LinksShrink
    BY <2>1, DisconnectShrinks DEF pairing_cmd_rejected
  <2>2. CASE initiate_pairing_cmd_handle
    BY <2>2, LinksKept DEF initiate_pairing_cmd_handle, connVars, hostVars
  <2>3. CASE finalize_pairing_cmd_handle
    BY <2>3, DisconnectShrinks, LinksKept DEF finalize_pairing_cmd_handle
  <2>4. CASE pairing_complete_cmd_handle
    BY <2>4, LinksKept DEF pairing_complete_cmd_handle, hostVars
  <2>. QED  BY <1>10, <2>1, <2>2, <2>3, <2>4 DEF pair_event
<1>. QED
  BY <1>1, <1>2, <1>3, <1>4, <1>5, <1>6, <1>7, <1>8, <1>9, <1>10 DEF HandleEvent

LEMMA ShrinkSteps ==
  ASSUME TypeOK, InnerStep
  PROVE  LinksShrink
<1>1. CASE event_work \/ UNCHANGED vars
  BY <1>1, LinksKept DEF event_work, vars, connVars, hostVars
<1>2. CASE max_conn_work
  BY <1>2, LinksKept DEF max_conn_work, max_conn_work_handle, hostVars
<1>3. CASE nearby_timeout \/ nearby_work
  BY <1>3, LinksKept
  DEF nearby_timeout, nearby_separated_timeout_handle, nearby_work,
      nearby_separated_work_handle, connVars, hostVars
<1>4. CASE persistent_conn_work \/ pairing_mode_work
  BY <1>4, LinksKept
  DEF persistent_conn_work, persistent_conn_work_handle, pairing_mode_work,
      pairing_mode_timeout_work_handle, connVars, hostVars
<1>5. CASE key_timeout \/ key_work
  BY <1>5, LinksKept
  DEF key_timeout, key_rotation_timeout_handle, key_work, key_rotation_work_handle,
      connVars, hostVars
<1>6. CASE paired_adv \/ pairing_mode_request
  BY <1>6, LinksKept
  DEF paired_adv, fmna_paired_adv_disable, fmna_paired_adv_enable, pairing_mode_request,
      fmna_pairing_mode_cancel, fmna_pairing_mode_enter, connVars, hostVars
<1>7. ASSUME NEW s \in Slots, link_secured(s) PROVE LinksShrink
  BY <1>7 DEF link_secured, secured_cb, conn_timeout_work_cancel, LinksShrink
<1>8. ASSUME NEW s \in Slots, security_error(s) PROVE LinksShrink
  BY <1>8
  DEF security_error, security_failed_cb, Disconnect, conn_timeout_work_cancel, LinksShrink
<1>9. ASSUME NEW s \in Slots, conn_timeout_work(s) PROVE LinksShrink
  BY <1>9 DEF conn_timeout_work, conn_timeout_work_handle, Disconnect, LinksShrink
<1>10. ASSUME NEW s \in Slots, config_cp_write(s) \/ pairing_cp_write(s) PROVE LinksShrink
  BY <1>10, LinksKept DEF config_cp_write, pairing_cp_write, connVars, hostVars
<1>. QED
  BY <1>1, <1>2, <1>3, <1>4, <1>5, <1>6, <1>7, <1>8, <1>9, <1>10, ShrinkEvents
  DEF InnerStep

(* Nothing but a transition out of DISABLED starts advertising there.       *)
LEMMA SilentEvents ==
  ASSUME TypeOK, state = "DISABLED", adv = NoAdv, HandleEvent, state' = "DISABLED"
  PROVE  adv' = NoAdv
<1>1. \A below \in BOOLEAN : advertise_restart(below) = NoAdv
  BY RestartDisabled
<1>2. CASE peer_connected \/ max_conn_changed
  BY <1>1, <1>2, LimitCheckType DEF peer_connected, max_conn_changed
<1>3. CASE peer_disconnected
  BY <1>1, <1>3, LimitCheckType DEF peer_disconnected, all_owners_disconnected
<1>4. CASE owner_secured \/ candidate_secured \/ state_changed
  BY <1>4 DEF owner_secured, candidate_secured, state_changed
<1>5. CASE owner_connected
  BY <1>5, StateSetEnabled DEF owner_connected
<1>6. CASE public_keys_changed
  BY <1>1, <1>6, LimitCheckType DEF public_keys_changed, fmna_public_keys_changed
<1>7. CASE config_event
  BY <1>7
  DEF config_event, persistent_conn_request_handle, max_connections_request_handle,
      nearby_timeout_set_request_handle, unpair_request_handle
<1>8. CASE pair_event
  BY <1>8
  DEF pair_event, pairing_cmd_rejected, initiate_pairing_cmd_handle,
      finalize_pairing_cmd_handle, pairing_complete_cmd_handle, enter_connected
<1>. QED  BY <1>2, <1>3, <1>4, <1>5, <1>6, <1>7, <1>8 DEF HandleEvent

LEMMA SilentSteps ==
  ASSUME TypeOK, state = "DISABLED", adv = NoAdv, state' = "DISABLED", InnerStep
  PROVE  adv' = NoAdv
<1>1. CASE event_work \/ UNCHANGED vars
  BY <1>1 DEF event_work, vars
<1>2. CASE max_conn_work \/ nearby_timeout \/ key_timeout \/ key_work
  BY <1>2
  DEF max_conn_work, max_conn_work_handle, nearby_timeout,
      nearby_separated_timeout_handle, key_timeout, key_rotation_timeout_handle,
      key_work, key_rotation_work_handle
<1>3. CASE nearby_work
  BY <1>3, StateSetEnabled DEF nearby_work, nearby_separated_work_handle
<1>4. CASE persistent_conn_work
  BY <1>4, RestartDisabled, LimitCheckType
  DEF persistent_conn_work, persistent_conn_work_handle
<1>5. CASE pairing_mode_work
  BY <1>5 DEF pairing_mode_work, pairing_mode_timeout_work_handle
<1>6. CASE paired_adv
  BY <1>6
  DEF paired_adv, fmna_paired_adv_disable, fmna_paired_adv_enable, is_paired
<1>7. CASE pairing_mode_request
  BY <1>7 DEF pairing_mode_request, fmna_pairing_mode_cancel, fmna_pairing_mode_enter
<1>8. CASE \E s \in Slots : \/ link_secured(s) \/ security_error(s)
                           \/ conn_timeout_work(s)
                           \/ config_cp_write(s) \/ pairing_cp_write(s)
  BY <1>8
  DEF link_secured, secured_cb, security_error, security_failed_cb, conn_timeout_work,
      conn_timeout_work_handle, config_cp_write, pairing_cp_write
<1>. QED  BY <1>1, <1>2, <1>3, <1>4, <1>5, <1>6, <1>7, <1>8, SilentEvents
  DEF InnerStep

LEMMA TimeoutNext ==
  ASSUME TimeoutInv, "early_enable" \notin Races, [Next]_vars
  PROVE  TimeoutInv'
<1>1. TypeOK /\ UnsecuredLinkTimed /\ SilentDisabled /\ TypeOK'
  BY TypeNext DEF TimeoutInv
<1>2. CASE link_up
  <2>1. connected_cb /\ UNCHANGED state
    BY <1>2 DEF link_up, aboveConn, stateVars
  <2>2. state # "DISABLED"
    BY <1>1, <2>1 DEF SilentDisabled, connected_cb, NoAdv
  <2>3. /\ connected' = connected \cup {adv.slot}
        /\ encrypted' = encrypted \ {adv.slot}
        /\ conn_timeout' = conn_timeout \cup {adv.slot}
    BY <2>1, <2>2 DEF connected_cb, is_enabled, conn_timeout_work_schedule
  <2>. QED
    BY <1>1, <2>1, <2>2, <2>3 DEF TimeoutInv, UnsecuredLinkTimed, SilentDisabled
<1>3. ASSUME NEW s \in Slots, link_down(s) PROVE TimeoutInv'
  <2>1. disconnected_cb(s) /\ UNCHANGED <<state, adv>>
    BY <1>3 DEF link_down, disconnected_cb, aboveConn, stateVars
  <2>2. /\ connected' = connected \ {s}
        /\ encrypted' = encrypted \ {s}
        /\ conn_timeout \ {s} \subseteq conn_timeout'
    BY <2>1 DEF disconnected_cb, conn_timeout_work_cancel
  <2>. QED  BY <1>1, <2>1, <2>2 DEF TimeoutInv, UnsecuredLinkTimed, SilentDisabled
<1>4. CASE fmna_enable
  <2>1. connected = {} /\ UNCHANGED <<connected, encrypted>>
    BY <1>4 DEF fmna_enable, hostVars, Live
  <2>2. state' # "DISABLED"
    BY <1>4 DEF fmna_enable, unchanged_state, forbidden_transition, enter_separated,
                enter_unpaired
  <2>. QED  BY <1>1, <2>1, <2>2 DEF TimeoutInv, UnsecuredLinkTimed, SilentDisabled
<1>5. CASE fmna_disable
  <2>1. connected' = {} /\ adv' = NoAdv
    BY <1>5 DEF fmna_disable, fmna_conn_uninit, enter_disabled, Disconnect
  <2>. QED  BY <1>1, <2>1 DEF TimeoutInv, UnsecuredLinkTimed, SilentDisabled
<1>6. CASE InnerStep
  <2>1. LinksShrink /\ Steady
    BY <1>1, <1>6, ShrinkSteps, SteadySteps
  <2>2. UnsecuredLinkTimed'
    <3>1. connected \subseteq Slots
      BY <1>1 DEF TypeOK, ConnTypeOK
    <3>. QED  BY <1>1, <2>1, <3>1 DEF UnsecuredLinkTimed, LinksShrink
  <2>3. SilentDisabled'
    <3>1. SUFFICES ASSUME state' = "DISABLED" PROVE adv' = NoAdv /\ connected' = {}
      BY DEF SilentDisabled
    <3>2. state = "DISABLED" /\ adv = NoAdv /\ connected = {}
      BY <1>1, <2>1, <3>1 DEF Steady, SilentDisabled
    <3>3. adv' = NoAdv
      BY <1>1, <1>6, <3>1, <3>2, SilentSteps
    <3>. QED  BY <2>1, <3>2, <3>3 DEF LinksShrink
  <2>. QED  BY <1>1, <2>2, <2>3 DEF TimeoutInv
<1>. QED  BY <1>2, <1>3, <1>4, <1>5, <1>6 DEF Next, InnerStep

(* Every link that is up and not encrypted has its security timeout         *)
(* running, with any number of connection objects and any limit an owner    *)
(* sets, unless the stack is enabled while links of before are up (the race *)
(* "early_enable"): fmna_conn_init() then initializes work items that run.  *)
THEOREM UnsecuredLinksAreTimed ==
  ASSUME "early_enable" \notin Races
  PROVE  Spec => []UnsecuredLinkTimed
<1>1. Init => TimeoutInv
  BY TypeInit DEF Init, TimeoutInv, UnsecuredLinkTimed, SilentDisabled
<1>2. TimeoutInv /\ [Next]_vars => TimeoutInv'
  BY TimeoutNext
<1>3. TimeoutInv => UnsecuredLinkTimed
  BY DEF TimeoutInv
<1>. QED  BY <1>1, <1>2, <1>3, PTL DEF Spec

-----------------------------------------------------------------------------
(* The ends of links that wait to be handled. *)

Ends(evs) ==
  {s \in Slots : \E i \in 1..Len(evs) : evs[i].id = "PEER_DISCONNECTED" /\ evs[i].conn = s}

Ending == Ends(batch) \cup Ends(events)

LEMMA EndsConcat ==
  ASSUME NEW a \in Seq(Event), NEW b \in Seq(Event)
  PROVE  Ends(a \o b) = Ends(a) \cup Ends(b)
<1>1. /\ Len(a \o b) = Len(a) + Len(b)
      /\ \A i \in 1..Len(a) + Len(b) :
           (a \o b)[i] = IF i <= Len(a) THEN a[i] ELSE b[i - Len(a)]
  BY ConcatProperties
<1>2. Len(a) \in Nat /\ Len(b) \in Nat
  BY LenProperties
<1>3. Ends(a \o b) \subseteq Ends(a) \cup Ends(b)
  <2>1. SUFFICES ASSUME NEW s \in Slots, NEW i \in 1..Len(a) + Len(b),
                        (a \o b)[i].id = "PEER_DISCONNECTED", (a \o b)[i].conn = s
                 PROVE  s \in Ends(a) \cup Ends(b)
    BY <1>1 DEF Ends
  <2>2. CASE i <= Len(a)
    BY <1>1, <1>2, <2>1, <2>2 DEF Ends
  <2>3. CASE ~(i <= Len(a))
    <3>1. i - Len(a) \in 1..Len(b)
      BY <1>2, <2>3
    <3>. QED  BY <1>1, <2>1, <2>3, <3>1 DEF Ends
  <2>. QED  BY <2>2, <2>3
<1>4. Ends(a) \subseteq Ends(a \o b)
  <2>1. \A i \in 1..Len(a) : i \in 1..Len(a) + Len(b) /\ (a \o b)[i] = a[i]
    BY <1>1, <1>2
  <2>. QED  BY <1>1, <2>1 DEF Ends
<1>5. Ends(b) \subseteq Ends(a \o b)
  <2>1. \A i \in 1..Len(b) :
          i + Len(a) \in 1..Len(a) + Len(b) /\ (a \o b)[i + Len(a)] = b[i]
    BY <1>1, <1>2
  <2>. QED  BY <1>1, <2>1 DEF Ends
<1>. QED  BY <1>3, <1>4, <1>5

LEMMA EndsOfOne ==
  /\ Ends(<<>>) = {}
  /\ \A e \in Event : Ends(<<e>>) = IF e.id = "PEER_DISCONNECTED" THEN {e.conn} \cap Slots ELSE {}
BY DEF Ends

(* Handling the first event takes its end, if it is one, and no other out.  *)
LEMMA EndsOfTail ==
  ASSUME NEW evs \in Seq(Event), evs # <<>>
  PROVE  /\ Ends(Tail(evs)) \subseteq Ends(evs)
         /\ Ends(evs) \subseteq Ends(Tail(evs)) \cup {Head(evs).conn}
         /\ Head(evs).id # "PEER_DISCONNECTED" => Ends(Tail(evs)) = Ends(evs)
         /\ Head(evs).id = "PEER_DISCONNECTED" /\ Head(evs).conn \in Slots
              => Head(evs).conn \in Ends(evs)
<1>1. /\ Len(Tail(evs)) = Len(evs) - 1
      /\ \A i \in 1..Len(Tail(evs)) : Tail(evs)[i] = evs[i + 1]
  BY HeadTailProperties
<1>2. Len(evs) \in Nat \ {0} /\ Head(evs) = evs[1]
  BY EmptySeq
<1>3. Ends(Tail(evs)) \subseteq Ends(evs)
  <2>1. \A i \in 1..Len(Tail(evs)) : i + 1 \in 1..Len(evs) /\ Tail(evs)[i] = evs[i + 1]
    BY <1>1, <1>2
  <2>. QED  BY <2>1 DEF Ends
<1>4. ASSUME NEW s \in Ends(evs)
      PROVE  \/ s \in Ends(Tail(evs))
             \/ Head(evs).id = "PEER_DISCONNECTED" /\ s = Head(evs).conn
  <2>1. PICK i \in 1..Len(evs) : evs[i].id = "PEER_DISCONNECTED" /\ evs[i].conn = s
    BY <1>4 DEF Ends
  <2>2. CASE i = 1
    BY <1>2, <2>1, <2>2
  <2>3. CASE i # 1
    <3>1. i - 1 \in 1..Len(Tail(evs)) /\ Tail(evs)[i - 1] = evs[i]
      BY <1>1, <1>2, <2>3
    <3>. QED  BY <1>4, <2>1, <3>1 DEF Ends
  <2>. QED  BY <2>2, <2>3
<1>5. Head(evs).id = "PEER_DISCONNECTED" /\ Head(evs).conn \in Slots
        => Head(evs).conn \in Ends(evs)
  <2>1. 1 \in 1..Len(evs)
    BY <1>2
  <2>. QED  BY <1>2, <2>1 DEF Ends
<1>. QED  BY <1>3, <1>4, <1>5

-----------------------------------------------------------------------------
(* Who posts, and that it is never the end of a link but in disconnected(). *)

EndsKept == Ends(events') = Ends(events)

LEMMA PostedOther ==
  ASSUME TypeOK, NEW q,
         \/ PostOn(q, <<>>)
         \/ \E e \in Event : e.id # "PEER_DISCONNECTED" /\ PostOn(q, <<e>>)
  PROVE  EndsKept
<1>1. events \in Seq(Event)
  BY DEF TypeOK, QueueTypeOK
<1>2. CASE PostOn(q, <<>>)
  <2>1. events' = events \o <<>>
    BY <1>2 DEF PostOn
  <2>. QED  BY <1>1, <2>1, ConcatEmptySeq DEF EndsKept
<1>3. CASE \E e \in Event : e.id # "PEER_DISCONNECTED" /\ PostOn(q, <<e>>)
  <2>1. PICK e \in Event : e.id # "PEER_DISCONNECTED" /\ PostOn(q, <<e>>)
    BY <1>3
  <2>2. events' = events \o <<e>> /\ <<e>> \in Seq(Event)
    BY <2>1, EventType DEF PostOn
  <2>3. Ends(<<e>>) = {}
    BY <2>1, EndsOfOne
  <2>4. Ends(events \o <<e>>) = Ends(events) \cup Ends(<<e>>)
    BY <1>1, <2>2, EndsConcat
  <2>. QED  BY <2>2, <2>3, <2>4 DEF EndsKept
<1>. QED  BY <1>2, <1>3

LEMMA ReportedOther ==
  ASSUME TypeOK, NEW q, NEW ok \in BOOLEAN, NEW new, NEW n \in 1..2,
         reported_if(ok, q, new, n)
  PROVE  EndsKept
<1>. DEFINE evs == [i \in 1..n |-> Ev("STATE_CHANGED", NULL)]
<1>1. CASE ok
  <2>1. events' = events \o evs /\ events \in Seq(Event)
    BY <1>1 DEF reported_if, reported, PostOn, TypeOK, QueueTypeOK
  <2>2. Ev("STATE_CHANGED", NULL) \in Event
    BY EventType DEF StackEvents
  <2>3. n \in Nat /\ evs \in Seq(Event) /\ Len(evs) = n
    BY <2>2, IsASeq
  <2>4. \A i \in 1..Len(evs) : evs[i].id # "PEER_DISCONNECTED"
    BY <2>3 DEF Ev
  <2>5. Ends(evs) = {}
    BY <2>4 DEF Ends
  <2>. HIDE DEF evs
  <2>6. Ends(events \o evs) = Ends(events) \cup Ends(evs)
    BY <2>1, <2>3, EndsConcat
  <2>. QED  BY <2>1, <2>5, <2>6 DEF EndsKept
<1>2. CASE ~ok
  BY <1>2, PostedOther DEF reported_if, unreported
<1>. QED  BY <1>1, <1>2

LEMMA StateSetOther ==
  ASSUME TypeOK, NEW q, NEW below \in BOOLEAN, NEW c, NEW new,
         \/ state_set(q, below, c, new)
         \/ unchanged_state(q, below, new)
         \/ forbidden_transition(q, new)
         \/ enter_unpaired(q, new)
         \/ enter_connected(q, below, new)
         \/ enter_separated(q, new)
  PROVE  EndsKept
<1>0. state \in States /\ is_paired_adv_paused \in BOOLEAN /\ AUTO_ENTER \in BOOLEAN
  BY AutoEnterAssumption DEF TypeOK, ConnTypeOK, StateTypeOK
<1>1. CASE unchanged_state(q, below, new)
  BY <1>1, PostedOther DEF unchanged_state, unreported
<1>2. CASE forbidden_transition(q, new)
  BY <1>2, PostedOther DEF forbidden_transition, unreported
<1>3. CASE enter_unpaired(q, new)
  <2>1. PICK ok \in BOOLEAN : reported_if(ok, q, new, 1)
    BY <1>3, Zenon DEF enter_unpaired
  <2>. QED  BY <2>1, ReportedOther
<1>4. CASE enter_connected(q, below, new)
  <2>1. PICK ok \in BOOLEAN : reported_if(ok, q, new, 1)
    BY <1>4, Zenon DEF enter_connected
  <2>. QED  BY <2>1, ReportedOther
<1>5. CASE enter_nearby(q, c, new)
  <2>1. PICK ok \in BOOLEAN :
          reported_if(ok, q, state', IF nearby_separated_timeout # 0 THEN 1 ELSE 2)
    BY <1>5, Zenon DEF enter_nearby, paired_adv_ok, free_conn
  <2>. DEFINE n == IF nearby_separated_timeout # 0 THEN 1 ELSE 2
  <2>2. n \in 1..2
    OBVIOUS
  <2>. HIDE DEF n
  <2>3. reported_if(ok, q, state', n)
    BY <2>1 DEF n
  <2>. QED  BY <2>2, <2>3, ReportedOther
<1>6. CASE enter_separated(q, new)
  <2>1. PICK ok \in BOOLEAN : reported_if(ok, q, new, 1)
    BY <1>6, Zenon DEF enter_separated, paired_adv_ok, free_conn
  <2>. QED  BY <2>1, ReportedOther
<1>7. CASE enter_disabled(q, new)
  <2>. DEFINE r == Cancelled(q, "nearby")
  <2>1. \E ok \in BOOLEAN : reported_if(ok, r, new, 1)
    BY <1>7 DEF enter_disabled, reported_if
  <2>. HIDE DEF r
  <2>. QED  BY <2>1, ReportedOther
<1>. QED  BY <1>1, <1>2, <1>3, <1>4, <1>5, <1>6, <1>7 DEF state_set

-----------------------------------------------------------------------------
(* The records.  They agree with the links also before the stack is ready;  *)
(* an end that waits is of a slot without a link, and is_disconnecting      *)
(* marks only slots whose end waits.  So an end that is handled late clears *)
(* no record of another link, and a new link finds an empty record.         *)

RecordsInv ==
  /\ ready => state # "DISABLED"
  /\ state # "DISABLED" => is_valid \ is_disconnecting = Live
  /\ Ending \cap Live = {}
  /\ is_disconnecting \subseteq Ending

(* A step that handles and posts no end of a link.                          *)
RecordsLeft ==
  /\ UNCHANGED <<is_valid, is_disconnecting>>
  /\ Ending' = Ending

LEMMA RecordsKept ==
  ASSUME RecordsInv, RecordsLeft, Live' = Live, ready' = ready,
         state # "DISABLED" <=> state' # "DISABLED"
  PROVE  RecordsInv'
BY DEF RecordsInv, RecordsLeft

(* Handling another event leaves the ends alone.                            *)
LEMMA HandlingOther ==
  ASSUME TypeOK, NEW id, id # "PEER_DISCONNECTED", Handling(id), EndsKept
  PROVE  Ending' = Ending
<1>1. batch \in Seq(Event) /\ batch # <<>> /\ Head(batch).id = id /\ batch' = Tail(batch)
  BY DEF Handling, TypeOK, QueueTypeOK
<1>2. Ends(batch') = Ends(batch)
  BY <1>1, EndsOfTail
<1>. QED  BY <1>2 DEF Ending, EndsKept

LEMMA EventsLeaveRecords ==
  ASSUME TypeOK, HandleEvent, ~peer_disconnected
  PROVE  RecordsLeft /\ ready' = ready
<1>. DEFINE s == Head(batch).conn
            n == Head(batch).arg
<1>0. Post(<<>>) => EndsKept
  BY PostedOther DEF Post
<1>1. ASSUME NEW id, id # "PEER_DISCONNECTED", Handling(id), Post(<<>>),
             UNCHANGED <<is_valid, is_disconnecting>>
      PROVE  RecordsLeft
  BY <1>0, <1>1, HandlingOther DEF RecordsLeft
<1>2. CASE peer_connected
  BY <1>1, <1>2 DEF peer_connected, recordVars
<1>3. CASE owner_secured
  <2>1. Handling("PEER_SECURITY_CHANGED") /\ UNCHANGED <<is_valid, is_disconnecting, ready>>
    BY <1>3 DEF owner_secured
  <2>2. RestTypeOK
    BY TypeSplit
  <2>3. s \in Slots
    BY <2>1, <2>2, HandlingType DEF PeerEvents, LinkEvents
  <2>4. Ev("OWNER_CONNECTED", s) \in Event /\ Ev("OWNER_CONNECTED", s).id # "PEER_DISCONNECTED"
    BY <2>3, EventType DEF PeerEvents, LinkEvents, Ev
  <2>5. Post(<<>>) \/ Post(<<Ev("OWNER_CONNECTED", s)>>)
    BY <1>3 DEF owner_secured
  <2>6. EndsKept
    BY <2>4, <2>5, PostedOther DEF Post
  <2>. QED  BY <2>1, <2>6, HandlingOther DEF RecordsLeft
<1>4. CASE candidate_secured
  BY <1>1, <1>4 DEF candidate_secured, recordVars
<1>5. CASE owner_connected
  <2>1. /\ Handling("OWNER_CONNECTED")
        /\ state_set(workq, limit_check, s, "CONNECTED")
        /\ UNCHANGED <<is_valid, is_disconnecting, ready>>
    BY <1>5 DEF owner_connected
  <2>2. EndsKept
    BY <2>1, StateSetOther, LimitCheckType
  <2>. QED  BY <2>1, <2>2, HandlingOther DEF RecordsLeft
<1>6. CASE max_conn_changed
  BY <1>1, <1>6 DEF max_conn_changed, connVars, recordVars
<1>7. CASE state_changed
  BY <1>1, <1>7 DEF state_changed, recordVars
<1>8. CASE public_keys_changed
  BY <1>1, <1>8 DEF public_keys_changed, fmna_public_keys_changed, connVars, recordVars
<1>9. CASE config_event
  <2>0. ready' = ready
    BY <1>9 DEF config_event
  <2>1. CASE Handling("SET_PERSISTENT_CONN_STATUS") /\ persistent_conn_request_handle(s, n)
    BY <1>1, <2>0, <2>1 DEF persistent_conn_request_handle
  <2>2. CASE Handling("SET_MAX_CONNECTIONS") /\ max_connections_request_handle(s, n)
    <3>1. RestTypeOK
      BY TypeSplit
    <3>2. s \in Slots
      BY <2>2, <3>1, HandlingType DEF PeerEvents, ConfigEvents
    <3>3. Ev("MAX_CONN_CHANGED", s) \in Event /\ Ev("MAX_CONN_CHANGED", s).id # "PEER_DISCONNECTED"
      BY <3>2, EventType DEF PeerEvents, LinkEvents, Ev
    <3>4. Post(<<>>) \/ Post(<<Ev("MAX_CONN_CHANGED", s)>>)
      BY <2>2 DEF max_connections_request_handle
    <3>5. EndsKept
      BY <3>3, <3>4, PostedOther DEF Post
    <3>6. UNCHANGED <<is_valid, is_disconnecting>>
      BY <2>2 DEF max_connections_request_handle, recordVars
    <3>. QED  BY <2>0, <2>2, <3>5, <3>6, HandlingOther DEF RecordsLeft
  <2>3. CASE Handling("SET_NEARBY_TIMEOUT") /\ nearby_timeout_set_request_handle(n)
    BY <1>1, <2>0, <2>3 DEF nearby_timeout_set_request_handle, connVars, recordVars
  <2>4. CASE Handling("UNPAIR") /\ unpair_request_handle
    BY <1>1, <2>0, <2>4 DEF unpair_request_handle, connVars, recordVars
  <2>. QED  BY <1>9, <2>1, <2>2, <2>3, <2>4 DEF config_event
<1>10. CASE pair_event
  <2>0. ready' = ready
    BY <1>10 DEF pair_event
  <2>1. ASSUME NEW id \in PairEvents, pairing_cmd_rejected(id) PROVE RecordsLeft
    <3>1. id # "PEER_DISCONNECTED"
      BY DEF PairEvents
    <3>. QED  BY <1>1, <2>1, <3>1 DEF pairing_cmd_rejected, recordVars
  <2>2. CASE initiate_pairing_cmd_handle
    BY <1>1, <2>0, <2>2 DEF initiate_pairing_cmd_handle, connVars, recordVars
  <2>3. CASE finalize_pairing_cmd_handle
    BY <1>1, <2>0, <2>3 DEF finalize_pairing_cmd_handle, recordVars
  <2>4. CASE pairing_complete_cmd_handle
    <3>1. /\ Handling("PAIRING_COMPLETE")
          /\ enter_connected(workq, limit_check, "CONNECTED")
          /\ UNCHANGED <<is_valid, is_disconnecting>>
      BY <2>4 DEF pairing_complete_cmd_handle
    <3>2. EndsKept
      BY <3>1, StateSetOther, LimitCheckType
    <3>. QED  BY <2>0, <3>1, <3>2, HandlingOther DEF RecordsLeft
  <2>. QED  BY <1>10, <2>0, <2>1, <2>2, <2>3, <2>4 DEF pair_event
<1>. QED
  BY <1>2, <1>3, <1>4, <1>5, <1>6, <1>7, <1>8, <1>9, <1>10
  DEF HandleEvent, peer_connected, candidate_secured, owner_secured, owner_connected,
      max_conn_changed, state_changed, public_keys_changed

(* fmna_conn.c is the last listener of PEER_DISCONNECTED: it clears the     *)
(* record of a link that is gone.                                           *)
LEMMA DisconnectedRecords ==
  ASSUME TypeOK, RecordsInv, Live' = Live, state # "DISABLED", state' # "DISABLED",
         peer_disconnected
  PROVE  RecordsInv'
<1>. DEFINE s == Head(batch).conn
<1>1. /\ Handling("PEER_DISCONNECTED")
      /\ is_valid' = is_valid \ {s} /\ is_disconnecting' = is_disconnecting \ {s}
      /\ ready' = ready
  BY DEF peer_disconnected, record_cleared
<1>2. batch \in Seq(Event) /\ batch # <<>> /\ batch' = Tail(batch)
  BY <1>1 DEF Handling, TypeOK, QueueTypeOK
<1>3. s \in Slots
  BY <1>1, TypeSplit, HandlingType DEF PeerEvents, LinkEvents
<1>4. s \in Ends(batch) /\ Ends(batch') \subseteq Ends(batch)
      /\ Ends(batch) \subseteq Ends(batch') \cup {s}
  BY <1>1, <1>2, <1>3, EndsOfTail DEF Handling
<1>5. EndsKept
  <2>1. CASE Post(<<>>)
    BY <2>1, PostedOther DEF Post
  <2>2. CASE \E new : state_set(workq, limit_check, s, new)
    BY <2>2, StateSetOther, LimitCheckType
  <2>. QED  BY <2>1, <2>2 DEF peer_disconnected
<1>6. s \notin Live
  BY <1>4 DEF RecordsInv, Ending
<1>7. Ending' \subseteq Ending /\ Ending \subseteq Ending' \cup {s}
  BY <1>4, <1>5 DEF Ending, EndsKept
<1>. QED  BY <1>1, <1>6, <1>7 DEF RecordsInv

(* The other steps that neither begin nor end a link.                       *)
LEMMA InnerLeavesRecords ==
  ASSUME TypeOK, InnerStep, ~peer_disconnected
  PROVE  RecordsLeft /\ ready' = ready
<1>0. ASSUME UNCHANGED <<batch, events>> PROVE Ending' = Ending
  BY <1>0 DEF Ending, Ends
<1>1. CASE event_work
  <2>1. batch = <<>> /\ batch' = events /\ events' = <<>>
    BY <1>1 DEF event_work, TakeEvents, Between
  <2>2. Ending' = Ending
    BY <2>1, EndsOfOne DEF Ending
  <2>. QED  BY <1>1, <2>2 DEF event_work, connVars, recordVars, RecordsLeft
<1>2. CASE HandleEvent
  BY <1>2, EventsLeaveRecords
<1>3. CASE max_conn_work
  BY <1>0, <1>3
  DEF max_conn_work, max_conn_work_handle, queueVars, recordVars, aboveConn, RecordsLeft
<1>4. CASE nearby_timeout
  BY <1>0, <1>4
  DEF nearby_timeout, nearby_separated_timeout_handle, connVars, recordVars, aboveState,
      RecordsLeft
<1>5. CASE nearby_work
  <2>1. /\ Running("nearby")
        /\ state_set(Tail(workq), limit_check, NULL, "SEPARATED")
        /\ UNCHANGED <<is_valid, is_disconnecting, ready>>
    BY <1>5
    DEF nearby_work, nearby_separated_work_handle, connVars, recordVars, aboveState
  <2>2. EndsKept
    BY <2>1, StateSetOther, LimitCheckType
  <2>3. batch' = batch
    BY <2>1 DEF Running
  <2>. QED  BY <2>1, <2>2, <2>3 DEF Ending, EndsKept, RecordsLeft
<1>6. CASE persistent_conn_work
  BY <1>0, <1>6
  DEF persistent_conn_work, persistent_conn_work_handle, queueVars, connVars, recordVars,
      aboveState, RecordsLeft
<1>7. CASE pairing_mode_work
  BY <1>0, <1>7
  DEF pairing_mode_work, pairing_mode_timeout_work_handle, queueVars, connVars, recordVars,
      aboveState, RecordsLeft
<1>8. CASE key_timeout
  BY <1>0, <1>8
  DEF key_timeout, key_rotation_timeout_handle, connVars, recordVars, aboveState, RecordsLeft
<1>9. CASE key_work
  <2>1. /\ \/ PostOn(Tail(workq), <<>>)
           \/ \E a \in {0, 1} : PostOn(Tail(workq), <<EvArg("PUBLIC_KEYS_CHANGED", NULL, a)>>)
        /\ batch' = batch
        /\ UNCHANGED <<is_valid, is_disconnecting, ready>>
    BY <1>9
    DEF key_work, key_rotation_work_handle, Running, connVars, recordVars, aboveState
  <2>2. \A a \in {0, 1} : /\ EvArg("PUBLIC_KEYS_CHANGED", NULL, a) \in Event
                         /\ EvArg("PUBLIC_KEYS_CHANGED", NULL, a).id # "PEER_DISCONNECTED"
    BY EventType DEF StackEvents, EvArg
  <2>3. EndsKept
    BY <2>1, <2>2, PostedOther
  <2>. QED  BY <2>1, <2>3 DEF Ending, EndsKept, RecordsLeft
<1>10. CASE paired_adv
  BY <1>0, <1>10
  DEF paired_adv, fmna_paired_adv_disable, fmna_paired_adv_enable, queueVars, connVars,
      recordVars, RecordsLeft
<1>11. CASE pairing_mode_request
  BY <1>0, <1>11
  DEF pairing_mode_request, fmna_pairing_mode_cancel, fmna_pairing_mode_enter, queueVars,
      connVars, recordVars, RecordsLeft
<1>12. ASSUME NEW e \in Event, e.id # "PEER_DISCONNECTED",
              Post(<<e>>), batch' = batch, UNCHANGED <<is_valid, is_disconnecting>>
       PROVE  RecordsLeft
  <2>1. EndsKept
    BY <1>12, PostedOther DEF Post
  <2>. QED  BY <1>12, <2>1 DEF Ending, EndsKept, RecordsLeft
<1>13. ASSUME NEW s \in Slots, NEW n \in {0, 1} PROVE
         /\ EvArg("PEER_SECURITY_CHANGED", s, n) \in Event
         /\ EvArg("PEER_SECURITY_CHANGED", s, n).id # "PEER_DISCONNECTED"
  BY EventType DEF PeerEvents, LinkEvents, EvArg
<1>14. ASSUME NEW s \in Slots, link_secured(s) PROVE RecordsLeft /\ ready' = ready
  <2>1. /\ Post(<<EvArg("PEER_SECURITY_CHANGED", s, 0)>>) \/ UNCHANGED events
        /\ UNCHANGED <<batch, is_valid, is_disconnecting, ready>>
    BY <1>14 DEF link_secured, secured_cb, recordVars, aboveConn
  <2>. QED  BY <1>0, <1>12, <1>13, <2>1 DEF RecordsLeft
<1>15. ASSUME NEW s \in Slots, security_error(s) PROVE RecordsLeft /\ ready' = ready
  <2>1. /\ Post(<<EvArg("PEER_SECURITY_CHANGED", s, 1)>>)
        /\ UNCHANGED <<batch, is_valid, is_disconnecting, ready>>
    BY <1>15 DEF security_error, security_failed_cb, recordVars, aboveConn
  <2>. QED  BY <1>12, <1>13, <2>1
<1>16. ASSUME NEW s \in Slots, conn_timeout_work(s) PROVE RecordsLeft /\ ready' = ready
  BY <1>0, <1>16
  DEF conn_timeout_work, conn_timeout_work_handle, queueVars, recordVars, aboveConn, RecordsLeft
<1>17. ASSUME NEW s \in Slots, config_cp_write(s) PROVE RecordsLeft /\ ready' = ready
  <2>1. PICK id \in ConfigEvents : \E n \in Args(id) : Post(<<EvArg(id, s, n)>>)
    BY <1>17 DEF config_cp_write
  <2>2. PICK n \in Args(id) : Post(<<EvArg(id, s, n)>>)
    BY <2>1
  <2>3. n \in Nat
    BY EnvironmentAssumption DEF Args, ConfigEvents
  <2>4. EvArg(id, s, n) \in Event
    BY <2>3, EventType DEF PeerEvents
  <2>5. EvArg(id, s, n).id # "PEER_DISCONNECTED"
    BY DEF EvArg, ConfigEvents
  <2>6. UNCHANGED <<batch, is_valid, is_disconnecting, ready>>
    BY <1>17 DEF config_cp_write, connVars, recordVars
  <2>. QED  BY <1>12, <2>2, <2>4, <2>5, <2>6
<1>18. ASSUME NEW s \in Slots, pairing_cp_write(s) PROVE RecordsLeft /\ ready' = ready
  <2>1. PICK id \in PairEvents : Post(<<Ev(id, s)>>)
    BY <1>18 DEF pairing_cp_write
  <2>2. Ev(id, s) \in Event
    BY EventType DEF PeerEvents
  <2>3. Ev(id, s).id # "PEER_DISCONNECTED"
    BY DEF Ev, PairEvents
  <2>4. UNCHANGED <<batch, is_valid, is_disconnecting, ready>>
    BY <1>18 DEF pairing_cp_write, connVars, recordVars
  <2>. QED  BY <1>12, <2>1, <2>2, <2>3, <2>4
<1>19. CASE UNCHANGED vars
  BY <1>0, <1>19 DEF vars, queueVars, connVars, recordVars, RecordsLeft
<1>. QED
  BY <1>1, <1>2, <1>3, <1>4, <1>5, <1>6, <1>7, <1>8, <1>9, <1>10, <1>11, <1>14, <1>15,
     <1>16, <1>17, <1>18, <1>19
  DEF InnerStep

(* A new link takes the object the advertising set reserves, whose last end *)
(* has been handled.                                                        *)
LEMMA LinkUpRecords ==
  ASSUME "early_reuse" \notin Races, ReferenceInv, RecordsInv, link_up
  PROVE  RecordsInv'
<1>. DEFINE s == adv.slot
<1>1. TypeOK /\ AdvSlotFree /\ QuietDisabled
  BY DEF ReferenceInv
<1>2. connected_cb /\ UNCHANGED <<state, ready>>
  BY DEF link_up, aboveConn, stateVars
<1>3. adv.kind # "off" /\ ~Pending("PEER_DISCONNECTED", s)
  BY <1>2 DEF connected_cb
<1>4. state # "DISABLED"
  BY <1>1, <1>3 DEF QuietDisabled, NoAdv
<1>5. s \in Slots
  BY <1>1, <1>3 DEF TypeOK, ConnTypeOK, Adv, NoAdv
<1>6. s \notin Ending
  BY <1>3 DEF Ending, Ends, Pending
<1>7. /\ Live' = Live \cup {s}
      /\ is_valid' = is_valid \cup {s}
      /\ is_disconnecting' = is_disconnecting
      /\ batch' = batch
      /\ Post(<<Ev("PEER_CONNECTED", s)>>)
  BY <1>2, <1>4 DEF connected_cb, is_enabled, Live
<1>8. EndsKept
  <2>1. Ev("PEER_CONNECTED", s) \in Event /\ Ev("PEER_CONNECTED", s).id # "PEER_DISCONNECTED"
    BY <1>5, EventType DEF PeerEvents, LinkEvents, Ev
  <2>. QED  BY <1>1, <1>7, <2>1, PostedOther DEF Post
<1>9. Ending' = Ending
  BY <1>7, <1>8 DEF Ending, EndsKept
<1>10. s \notin is_disconnecting
  BY <1>6 DEF RecordsInv
<1>. QED  BY <1>2, <1>4, <1>6, <1>7, <1>9, <1>10 DEF RecordsInv

LEMMA LinkDownRecords ==
  ASSUME TypeOK, RecordsInv, NEW s \in Slots, link_down(s)
  PROVE  RecordsInv'
<1>1. disconnected_cb(s) /\ UNCHANGED <<state, ready>>
  BY DEF link_down, aboveConn, stateVars
<1>2. Live' = Live \ {s} /\ batch' = batch /\ is_valid' = is_valid
  BY <1>1 DEF disconnected_cb, Live
<1>3. CASE state = "DISABLED"
  <2>1. UNCHANGED <<is_disconnecting, events>>
    BY <1>1, <1>3 DEF disconnected_cb, is_enabled
  <2>2. Ending' = Ending
    BY <1>2, <2>1 DEF Ending, Ends
  <2>. QED  BY <1>1, <1>2, <1>3, <2>1, <2>2 DEF RecordsInv
<1>4. CASE state # "DISABLED"
  <2>. DEFINE e == Ev("PEER_DISCONNECTED", s)
  <2>1. is_disconnecting' = is_disconnecting \cup {s} /\ events' = events \o <<e>>
    BY <1>1, <1>4 DEF disconnected_cb, is_enabled, Post, PostOn
  <2>2. e \in Event /\ e.id = "PEER_DISCONNECTED" /\ e.conn = s
    BY EventType DEF PeerEvents, LinkEvents, Ev
  <2>. HIDE DEF e
  <2>3. Ends(<<e>>) = {s}
    BY <2>2, EndsOfOne
  <2>4. events \in Seq(Event) /\ <<e>> \in Seq(Event)
    BY <2>2, EventType DEF TypeOK, QueueTypeOK
  <2>5. Ends(events') = Ends(events) \cup {s}
    BY <2>1, <2>3, <2>4, EndsConcat
  <2>6. Ends(batch') = Ends(batch)
    BY <1>2 DEF Ends
  <2>7. Ending' = Ending \cup {s}
    BY <2>5, <2>6 DEF Ending
  <2>. QED  BY <1>1, <1>2, <1>4, <2>1, <2>7 DEF RecordsInv
<1>. QED  BY <1>3, <1>4

LEMMA EnableRecords ==
  ASSUME CarefulDisable, ReferenceInv, RecordsInv, fmna_enable
  PROVE  RecordsInv'
<1>1. Live = {} /\ Live' = {} /\ is_valid' = {} /\ is_disconnecting' = {}
  BY DEF fmna_enable, CarefulDisable, hostVars, Live, fmna_conn_init
<1>2. state' # "DISABLED"
  BY DEF fmna_enable, unchanged_state, forbidden_transition, enter_separated,
         enter_unpaired
<1>. QED  BY <1>1, <1>2 DEF RecordsInv

(* fmna_disable() leaves the records as they are; nothing waits, so that    *)
(* none is marked as disconnecting.                                         *)
LEMMA DisableRecords ==
  ASSUME CarefulDisable, ReferenceInv, RecordsInv, fmna_disable
  PROVE  RecordsInv'
<1>1. /\ NothingQueued
      /\ enter_disabled(workq, "DISABLED")
      /\ batch' = batch /\ is_disconnecting' = is_disconnecting
      /\ ready' = FALSE
  BY DEF fmna_disable, CarefulDisable, recordVars
<1>2. TypeOK
  BY DEF ReferenceInv
<1>3. state' = "DISABLED"
  BY <1>1 DEF enter_disabled
<1>4. EndsKept
  <2>1. state_set(workq, TRUE, NULL, "DISABLED")
    BY <1>1 DEF state_set
  <2>. QED  BY <1>2, <2>1, StateSetOther
<1>5. Ending = {} /\ Ending' = {}
  BY <1>1, <1>4, EndsOfOne DEF NothingQueued, Ending, EndsKept
<1>. QED  BY <1>1, <1>3, <1>5 DEF RecordsInv

LEMMA RecordsNext ==
  ASSUME CarefulDisable, "early_reuse" \notin Races, ReferenceInv, RecordsInv, [Next]_vars
  PROVE  RecordsInv'
<1>1. TypeOK /\ QuietDisabled
  BY DEF ReferenceInv
<1>2. CASE link_up
  BY <1>2, LinkUpRecords
<1>3. CASE \E s \in Slots : link_down(s)
  BY <1>1, <1>3, LinkDownRecords
<1>4. CASE fmna_enable
  BY <1>4, EnableRecords
<1>5. CASE fmna_disable
  BY <1>5, DisableRecords
<1>6. CASE InnerStep
  <2>1. Live' = Live /\ (state # "DISABLED" => state' # "DISABLED")
    BY <1>1, <1>6, SteadySteps DEF Steady
  <2>2. state = "DISABLED" => state' = "DISABLED"
    BY <1>1, <1>6, QuietSteps
  <2>3. CASE peer_disconnected
    <3>1. state # "DISABLED"
      <4>1. /\ batch \in Seq(Event) /\ batch # <<>>
            /\ Head(batch).id = "PEER_DISCONNECTED"
        BY <1>1, <2>3 DEF peer_disconnected, Handling, TypeOK, QueueTypeOK
      <4>2. ~(\A i \in 1..Len(batch) : batch[i].id \in StackEvents)
        BY <4>1, TailEvents DEF StackEvents
      <4>. QED  BY <1>1, <4>2 DEF QuietDisabled
    <3>. QED  BY <1>1, <2>1, <2>3, <3>1, DisconnectedRecords
  <2>4. CASE ~peer_disconnected
    BY <1>1, <1>6, <2>1, <2>2, <2>4, InnerLeavesRecords, RecordsKept
  <2>. QED  BY <2>3, <2>4
<1>. QED  BY <1>2, <1>3, <1>4, <1>5, <1>6 DEF Next, InnerStep

(* If no connection object is given out again before PEER_DISCONNECTED of   *)
(* its last link was handled (the race "early_reuse"), and the stack is     *)
(* disabled and enabled in order, the records that fmna_conn_limit_check()  *)
(* counts are exactly the links: the callbacks set and mark a record, a     *)
(* later event clears it, and no order of the two lets them diverge.        *)
THEOREM RecordsMatchLinks ==
  ASSUME CarefulDisable, "early_reuse" \notin Races
  PROVE  Spec => []RecordsTracked
<1>1. Init => ReferenceInv /\ RecordsInv
  <2>. SUFFICES ASSUME Init PROVE ReferenceInv /\ RecordsInv
    OBVIOUS
  <2>1. OneReferencePerLink
    BY DEF Init, OneReferencePerLink, Live
  <2>2. AdvSlotFree /\ QuietDisabled
    BY DEF Init, AdvSlotFree, NoAdv, QuietDisabled, Queued
  <2>3. RecordsInv
    BY EndsOfOne DEF Init, RecordsInv, Ending, Live
  <2>. QED  BY <2>1, <2>2, <2>3, TypeInit DEF ReferenceInv
<1>2. ReferenceInv /\ RecordsInv /\ [Next]_vars => ReferenceInv' /\ RecordsInv'
  BY ReferenceNext, RecordsNext
<1>3. RecordsInv => RecordsTracked
  BY DEF RecordsInv, RecordsTracked
<1>. QED  BY <1>1, <1>2, <1>3, PTL DEF Spec

-----------------------------------------------------------------------------
(* The events that wait are Backlog of FmnaEventsProofs. *)

LEMMA EventsTyped ==
  ASSUME TypeOK
  PROVE  EventsIn(Event)
BY DEF TypeOK, QueueTypeOK, EventsIn

LEMMA BacklogType ==
  ASSUME TypeOK
  PROVE  /\ Backlog \in Seq(Event)
         /\ Len(Backlog) = Len(batch) + Len(events)
         /\ Len(Backlog) \in Nat /\ Len(batch) \in Nat /\ Len(events) \in Nat
         /\ \A i \in 1..Len(batch) : Backlog[i] = batch[i]
         /\ \A i \in 1..Len(events) : Backlog[Len(batch) + i] = events[i]
         /\ \A i \in 1..Len(Backlog) :
              i \in 1..Len(batch) \/ i - Len(batch) \in 1..Len(events)
BY EventsTyped, BacklogSeq

LEMMA FlowKept ==
  ASSUME TypeOK, Backlog' = Backlog
  PROVE  Flow(0, <<>>)
BY EventsTyped, SeqFlowKept

LEMMA FlowTaken ==
  ASSUME TypeOK, TakeEvents
  PROVE  Flow(0, <<>>)
BY EventsTyped, SeqFlowTaken

LEMMA FlowPosted ==
  ASSUME TypeOK, NEW evs \in Seq(Event), events' = events \o evs, batch' = batch
  PROVE  Flow(0, evs)
BY EventsTyped, SeqFlowPosted

LEMMA FlowHandled ==
  ASSUME TypeOK, NEW id, Handling(id), NEW evs \in Seq(Event), events' = events \o evs
  PROVE  Flow(1, evs) /\ 1 \in 1..Len(Backlog) /\ Backlog[1] = Head(batch)
BY EventsTyped, SeqFlowHandled

-----------------------------------------------------------------------------
(* What a step posts. *)

(* The end of a transition posts nothing but events of the stack itself.    *)
Announces(q) ==
  \E evs \in Seq(Event) :
    PostOn(q, evs) /\ \A i \in 1..Len(evs) : evs[i].id \in StackEvents

LEMMA AnnouncesNothing ==
  ASSUME NEW q, PostOn(q, <<>>)
  PROVE  Announces(q)
<1>1. <<>> \in Seq(Event) /\ Len(<<>>) = 0
  OBVIOUS
<1>2. \A i \in 1..Len(<<>>) : <<>>[i].id \in StackEvents
  BY <1>1
<1>. QED  BY <1>1, <1>2, Zenon DEF Announces

LEMMA ReportedAnnounces ==
  ASSUME NEW q, NEW ok \in BOOLEAN, NEW new, NEW n \in 1..2, reported_if(ok, q, new, n)
  PROVE  Announces(q)
<1>. DEFINE evs == [i \in 1..n |-> Ev("STATE_CHANGED", NULL)]
<1>1. CASE ok
  <2>1. PostOn(q, evs)
    BY <1>1 DEF reported_if, reported
  <2>2. Ev("STATE_CHANGED", NULL) \in Event
    BY EventType DEF StackEvents
  <2>3. n \in Nat /\ evs \in Seq(Event) /\ Len(evs) = n
    BY <2>2, IsASeq
  <2>4. \A i \in 1..Len(evs) : evs[i].id \in StackEvents
    BY <2>3 DEF Ev, StackEvents
  <2>. HIDE DEF evs
  <2>. QED  BY <2>1, <2>3, <2>4, Zenon DEF Announces
<1>2. CASE ~ok
  BY <1>2, AnnouncesNothing DEF reported_if, unreported
<1>. QED  BY <1>1, <1>2

LEMMA StateSetAnnounces ==
  ASSUME TypeOK, NEW q, NEW below \in BOOLEAN, NEW c, NEW new, new # "DISABLED",
         \/ state_set(q, below, c, new)
         \/ unchanged_state(q, below, new)
         \/ forbidden_transition(q, new)
         \/ enter_unpaired(q, new)
         \/ enter_connected(q, below, new)
         \/ enter_separated(q, new)
  PROVE  Announces(q)
<1>0. state \in States /\ is_paired_adv_paused \in BOOLEAN /\ AUTO_ENTER \in BOOLEAN
  BY AutoEnterAssumption DEF TypeOK, ConnTypeOK, StateTypeOK
<1>1. CASE unchanged_state(q, below, new)
  BY <1>1, AnnouncesNothing DEF unchanged_state, unreported
<1>2. CASE forbidden_transition(q, new)
  BY <1>2, AnnouncesNothing DEF forbidden_transition, unreported
<1>3. CASE enter_unpaired(q, new)
  <2>1. PICK ok \in BOOLEAN : reported_if(ok, q, new, 1)
    BY <1>3, Zenon DEF enter_unpaired
  <2>. QED  BY <2>1, ReportedAnnounces
<1>4. CASE enter_connected(q, below, new)
  <2>1. PICK ok \in BOOLEAN : reported_if(ok, q, new, 1)
    BY <1>4, Zenon DEF enter_connected
  <2>. QED  BY <2>1, ReportedAnnounces
<1>5. CASE enter_nearby(q, c, new)
  <2>1. PICK ok \in BOOLEAN :
          reported_if(ok, q, state', IF nearby_separated_timeout # 0 THEN 1 ELSE 2)
    BY <1>5, Zenon DEF enter_nearby, paired_adv_ok, free_conn
  <2>. DEFINE n == IF nearby_separated_timeout # 0 THEN 1 ELSE 2
  <2>2. n \in 1..2
    OBVIOUS
  <2>. HIDE DEF n
  <2>3. reported_if(ok, q, state', n)
    BY <2>1 DEF n
  <2>. QED  BY <2>2, <2>3, ReportedAnnounces
<1>6. CASE enter_separated(q, new)
  <2>1. PICK ok \in BOOLEAN : reported_if(ok, q, new, 1)
    BY <1>6, Zenon DEF enter_separated, paired_adv_ok, free_conn
  <2>. QED  BY <2>1, ReportedAnnounces
<1>7. ~enter_disabled(q, new)
  BY DEF enter_disabled
<1>. QED  BY <1>1, <1>2, <1>3, <1>4, <1>5, <1>6, <1>7 DEF state_set

(* The events of peers are about links that are up when they are posted;    *)
(* OWNER_CONNECTED is posted for the link whose encryption is handled.      *)
Legitimate(e) ==
  \/ e.id \in StackEvents \cup ConfigEvents \cup {"MAX_CONN_CHANGED"}
  \/ e.id = "PEER_SECURITY_CHANGED" /\ e.conn \in connected
  \/ e.id \in PairEvents \cap Commands /\ e.conn \in connected /\ ~is_paired
  \/ e.id = "OWNER_CONNECTED" /\ owner_secured /\ e.conn = Head(batch).conn

Posts(q) ==
  \E evs \in Seq(Event) : PostOn(q, evs) /\ \A i \in 1..Len(evs) : Legitimate(evs[i])

LEMMA PostsNothing ==
  ASSUME NEW q, Announces(q)
  PROVE  Posts(q)
BY DEF Posts, Announces, Legitimate

LEMMA PostsOne ==
  ASSUME NEW q, NEW e \in Event, Legitimate(e), PostOn(q, <<e>>)
  PROVE  Posts(q)
<1>1. <<e>> \in Seq(Event) /\ Len(<<e>>) = 1 /\ <<e>>[1] = e
  OBVIOUS
<1>2. \A i \in 1..Len(<<e>>) : Legitimate(<<e>>[i])
  BY <1>1
<1>. DEFINE evs == <<e>>
<1>3. evs \in Seq(Event) /\ PostOn(q, evs) /\ \A i \in 1..Len(evs) : Legitimate(evs[i])
  BY <1>1, <1>2
<1>. HIDE DEF evs
<1>. QED  BY <1>3, Zenon DEF Posts

(* Every handler takes its event and posts legitimate events.               *)
LEMMA HandlerPosts ==
  ASSUME TypeOK, HandleEvent
  PROVE  Posts(workq) /\ \E id : Handling(id)
<1>. DEFINE s == Head(batch).conn
            n == Head(batch).arg
<1>0. RestTypeOK
  BY TypeSplit
<1>1. ASSUME Post(<<>>) PROVE Posts(workq)
  BY <1>1, AnnouncesNothing, PostsNothing DEF Post
<1>2. CASE peer_connected \/ candidate_secured \/ max_conn_changed \/ state_changed
  BY <1>1, <1>2 DEF peer_connected, candidate_secured, max_conn_changed, state_changed
<1>3. CASE peer_disconnected
  <2>1. Handling("PEER_DISCONNECTED")
    BY <1>3 DEF peer_disconnected
  <2>2. CASE Post(<<>>)
    BY <1>1, <2>1, <2>2
  <2>3. CASE state_set(workq, limit_check, s, IF unpair_pending THEN "UNPAIRED" ELSE "NEARBY")
    <3>1. PICK new : new # "DISABLED" /\ state_set(workq, limit_check, s, new)
      BY <2>3
    <3>. QED  BY <2>1, <3>1, LimitCheckType, StateSetAnnounces, PostsNothing
  <2>. QED  BY <1>3, <2>2, <2>3 DEF peer_disconnected
<1>4. CASE owner_secured
  <2>1. Handling("PEER_SECURITY_CHANGED") /\ s \in Slots
    BY <1>0, <1>4, HandlingType DEF owner_secured, PeerEvents, LinkEvents
  <2>2. /\ Ev("OWNER_CONNECTED", s) \in Event
        /\ Ev("OWNER_CONNECTED", s).id = "OWNER_CONNECTED"
        /\ Ev("OWNER_CONNECTED", s).conn = s
    BY <2>1, EventType DEF PeerEvents, LinkEvents, Ev
  <2>3. Post(<<>>) \/ Post(<<Ev("OWNER_CONNECTED", s)>>)
    BY <1>4 DEF owner_secured
  <2>. QED  BY <1>1, <1>4, <2>1, <2>2, <2>3, PostsOne DEF Post, Legitimate
<1>5. CASE owner_connected
  BY <1>5, LimitCheckType, StateSetAnnounces, PostsNothing DEF owner_connected
<1>6. CASE public_keys_changed
  BY <1>1, <1>6 DEF public_keys_changed, fmna_public_keys_changed
<1>7. CASE config_event
  <2>1. CASE Handling("SET_PERSISTENT_CONN_STATUS") /\ persistent_conn_request_handle(s, n)
    BY <1>1, <2>1 DEF persistent_conn_request_handle
  <2>2. CASE Handling("SET_MAX_CONNECTIONS") /\ max_connections_request_handle(s, n)
    <3>1. s \in Slots
      BY <1>0, <2>2, HandlingType DEF PeerEvents, ConfigEvents
    <3>2. /\ Ev("MAX_CONN_CHANGED", s) \in Event
          /\ Ev("MAX_CONN_CHANGED", s).id = "MAX_CONN_CHANGED"
      BY <3>1, EventType DEF PeerEvents, LinkEvents, Ev
    <3>3. Post(<<>>) \/ Post(<<Ev("MAX_CONN_CHANGED", s)>>)
      BY <2>2 DEF max_connections_request_handle
    <3>. QED  BY <1>1, <2>2, <3>2, <3>3, PostsOne DEF Post, Legitimate
  <2>3. CASE Handling("SET_NEARBY_TIMEOUT") /\ nearby_timeout_set_request_handle(n)
    BY <1>1, <2>3 DEF nearby_timeout_set_request_handle
  <2>4. CASE Handling("UNPAIR") /\ unpair_request_handle
    BY <1>1, <2>4 DEF unpair_request_handle
  <2>. QED  BY <1>7, <2>1, <2>2, <2>3, <2>4 DEF config_event
<1>8. CASE pair_event
  <2>1. ASSUME NEW id, pairing_cmd_rejected(id) PROVE Posts(workq) /\ Handling(id)
    BY <1>1, <2>1 DEF pairing_cmd_rejected
  <2>2. CASE initiate_pairing_cmd_handle \/ finalize_pairing_cmd_handle
    BY <1>1, <2>2 DEF initiate_pairing_cmd_handle, finalize_pairing_cmd_handle
  <2>3. CASE pairing_complete_cmd_handle
    BY <2>3, LimitCheckType, StateSetAnnounces, PostsNothing DEF pairing_complete_cmd_handle
  <2>. QED  BY <1>8, <2>1, <2>2, <2>3 DEF pair_event
<1>. QED
  BY <1>2, <1>3, <1>4, <1>5, <1>6, <1>7, <1>8 DEF HandleEvent

(* What the peers post.                                                     *)
LEMMA PeerPosts ==
  ASSUME TypeOK, NEW s \in Slots,
         link_secured(s) \/ security_error(s) \/ config_cp_write(s) \/ pairing_cp_write(s)
  PROVE  \/ UNCHANGED queueVars
         \/ batch' = batch /\ Posts(workq)
<1>1. CASE link_secured(s) \/ security_error(s)
  <2>1. \A n \in {0, 1} : /\ EvArg("PEER_SECURITY_CHANGED", s, n) \in Event
                         /\ EvArg("PEER_SECURITY_CHANGED", s, n).id = "PEER_SECURITY_CHANGED"
                         /\ EvArg("PEER_SECURITY_CHANGED", s, n).conn = s
    BY EventType DEF PeerEvents, LinkEvents, EvArg
  <2>2. s \in connected /\ batch' = batch
    BY <1>1 DEF link_secured, secured_cb, security_error, security_failed_cb
  <2>3. \/ UNCHANGED <<workq, events>>
        \/ \E n \in {0, 1} : Post(<<EvArg("PEER_SECURITY_CHANGED", s, n)>>)
    BY <1>1 DEF link_secured, secured_cb, security_error, security_failed_cb
  <2>. QED  BY <2>1, <2>2, <2>3, PostsOne DEF Post, Legitimate, queueVars
<1>2. CASE config_cp_write(s)
  <2>1. PICK id \in ConfigEvents : \E n \in Args(id) : Post(<<EvArg(id, s, n)>>)
    BY <1>2 DEF config_cp_write
  <2>2. PICK n \in Args(id) : Post(<<EvArg(id, s, n)>>)
    BY <2>1
  <2>3. n \in Nat
    BY EnvironmentAssumption DEF Args, ConfigEvents
  <2>4. EvArg(id, s, n) \in Event
    BY <2>3, EventType DEF PeerEvents
  <2>5. Legitimate(EvArg(id, s, n))
    BY DEF EvArg, Legitimate
  <2>. QED  BY <1>2, <2>2, <2>4, <2>5, PostsOne DEF Post, config_cp_write
<1>3. CASE pairing_cp_write(s)
  <2>1. PICK id \in PairEvents \cap Commands : Post(<<Ev(id, s)>>)
    BY <1>3 DEF pairing_cp_write
  <2>2. Ev(id, s) \in Event
    BY EventType DEF PeerEvents
  <2>3. Legitimate(Ev(id, s))
    BY <1>3 DEF Ev, Legitimate, pairing_cp_write
  <2>. QED  BY <1>3, <2>1, <2>2, <2>3, PostsOne DEF Post, pairing_cp_write
<1>. QED  BY <1>1, <1>2, <1>3

(* So do the other steps, which take no event.                              *)
LEMMA WorkPosts ==
  ASSUME TypeOK, InnerStep, ~HandleEvent
  PROVE  \/ Backlog' = Backlog
         \/ batch' = batch /\ Posts(workq)
         \/ batch' = batch /\ workq # <<>> /\ Posts(Tail(workq))
<1>1. CASE event_work
  <2>1. batch = <<>> /\ batch' = events /\ events' = <<>> /\ events \in Seq(Event)
    BY <1>1 DEF event_work, TakeEvents, Between, TypeOK, QueueTypeOK
  <2>. QED  BY <2>1, ConcatEmptySeq DEF Backlog
<1>2. CASE UNCHANGED <<batch, events>>
  BY <1>2 DEF Backlog
<1>3. CASE \/ max_conn_work \/ nearby_timeout \/ persistent_conn_work
           \/ pairing_mode_work \/ key_timeout \/ paired_adv \/ pairing_mode_request
           \/ UNCHANGED vars
  BY <1>2, <1>3
  DEF max_conn_work, max_conn_work_handle, nearby_timeout, nearby_separated_timeout_handle,
      persistent_conn_work, persistent_conn_work_handle, pairing_mode_work,
      pairing_mode_timeout_work_handle, key_timeout, key_rotation_timeout_handle,
      paired_adv, fmna_paired_adv_disable, fmna_paired_adv_enable, pairing_mode_request,
      fmna_pairing_mode_cancel, fmna_pairing_mode_enter, queueVars, vars
<1>4. CASE nearby_work
  <2>1. /\ batch' = batch /\ workq # <<>>
        /\ state_set(Tail(workq), limit_check, NULL, "SEPARATED")
    BY <1>4 DEF nearby_work, nearby_separated_work_handle, Running
  <2>2. Announces(Tail(workq))
    BY <2>1, LimitCheckType, StateSetAnnounces
  <2>. QED  BY <2>1, <2>2, PostsNothing
<1>5. CASE key_work
  <2>1. /\ \/ PostOn(Tail(workq), <<>>)
           \/ \E a \in {0, 1} : PostOn(Tail(workq), <<EvArg("PUBLIC_KEYS_CHANGED", NULL, a)>>)
        /\ batch' = batch /\ workq # <<>>
    BY <1>5 DEF key_work, key_rotation_work_handle, Running
  <2>2. \A a \in {0, 1} : /\ EvArg("PUBLIC_KEYS_CHANGED", NULL, a) \in Event
                         /\ Legitimate(EvArg("PUBLIC_KEYS_CHANGED", NULL, a))
    BY EventType DEF StackEvents, EvArg, Legitimate
  <2>. QED  BY <2>1, <2>2, AnnouncesNothing, PostsNothing, PostsOne
<1>6. ASSUME NEW s \in Slots,
             link_secured(s) \/ security_error(s) \/ config_cp_write(s) \/ pairing_cp_write(s)
      PROVE  UNCHANGED <<batch, events>> \/ (batch' = batch /\ Posts(workq))
  BY <1>6, PeerPosts DEF queueVars
<1>7. ASSUME NEW s \in Slots, conn_timeout_work(s) PROVE UNCHANGED <<batch, events>>
  BY <1>7 DEF conn_timeout_work, conn_timeout_work_handle, queueVars
<1>. QED
  BY <1>1, <1>2, <1>3, <1>4, <1>5, <1>6, <1>7 DEF InnerStep

LEMMA HandlerFlow ==
  ASSUME TypeOK, HandleEvent
  PROVE  /\ 1 \in 1..Len(Backlog) /\ Backlog[1] = Head(batch)
         /\ \E evs \in Seq(Event) : Flow(1, evs) /\ \A i \in 1..Len(evs) : Legitimate(evs[i])
<1>1. PICK evs \in Seq(Event) : PostOn(workq, evs) /\ \A i \in 1..Len(evs) : Legitimate(evs[i])
  BY HandlerPosts, Zenon DEF Posts
<1>2. PICK id : Handling(id)
  BY HandlerPosts
<1>. QED  BY <1>1, <1>2, FlowHandled DEF PostOn

LEMMA WorkFlow ==
  ASSUME TypeOK, InnerStep, ~HandleEvent
  PROVE  \E evs \in Seq(Event) : Flow(0, evs) /\ \A i \in 1..Len(evs) : Legitimate(evs[i])
<1>1. CASE Backlog' = Backlog
  <2>1. <<>> \in Seq(Event) /\ \A i \in 1..Len(<<>>) : Legitimate(<<>>[i])
    OBVIOUS
  <2>. QED  BY <1>1, <2>1, FlowKept, Zenon
<1>2. CASE batch' = batch /\ (Posts(workq) \/ Posts(Tail(workq)))
  <2>1. PICK q : Posts(q)
    BY <1>2
  <2>2. PICK evs \in Seq(Event) : PostOn(q, evs) /\ \A i \in 1..Len(evs) : Legitimate(evs[i])
    BY <2>1, Zenon DEF Posts
  <2>. QED  BY <1>2, <2>2, FlowPosted DEF PostOn
<1>. QED  BY <1>1, <1>2, WorkPosts

(* The application's calls and the callbacks.                               *)
LEMMA EnablePosts ==
  ASSUME TypeOK, fmna_enable
  PROVE  batch' = batch /\ Announces(workq)
<1>1. batch' = batch
  BY DEF fmna_enable
<1>2. PICK first \in {"SEPARATED", "UNPAIRED"} :
        \/ unchanged_state(workq, TRUE, first) \/ forbidden_transition(workq, first)
        \/ enter_separated(workq, first) \/ enter_unpaired(workq, first)
  BY DEF fmna_enable
<1>3. first # "DISABLED"
  BY <1>2
<1>. QED  BY <1>1, <1>2, <1>3, StateSetAnnounces

LEMMA AnnouncedFlow ==
  ASSUME TypeOK, NEW q, Announces(q), batch' = batch
  PROVE  \E evs \in Seq(Event) : Flow(0, evs) /\ \A i \in 1..Len(evs) : evs[i].id \in StackEvents
<1>1. PICK evs \in Seq(Event) : PostOn(q, evs) /\ \A i \in 1..Len(evs) : evs[i].id \in StackEvents
  BY Zenon DEF Announces
<1>. QED  BY <1>1, FlowPosted DEF PostOn

LEMMA FlowOne ==
  ASSUME TypeOK, NEW e \in Event, Post(<<e>>), batch' = batch
  PROVE  /\ Len(Backlog') = Len(Backlog) + 1
         /\ \A i \in 1..Len(Backlog) : Backlog'[i] = Backlog[i]
         /\ Backlog'[Len(Backlog) + 1] = e
<1>1. <<e>> \in Seq(Event) /\ Len(<<e>>) = 1 /\ <<e>>[1] = e /\ 1 \in 1..1
  OBVIOUS
<1>. DEFINE evs == <<e>>
<1>2. evs \in Seq(Event) /\ events' = events \o evs
  BY <1>1 DEF Post, PostOn
<1>. HIDE DEF evs
<1>3. Flow(0, evs)
  BY <1>2, FlowPosted
<1>4. Len(evs) = 1 /\ evs[1] = e
  BY <1>1 DEF evs
<1>5. Len(Backlog) \in Nat
  BY BacklogType
<1>6. /\ Len(Backlog') = Len(Backlog) - 0 + 1
      /\ \A i \in 1..Len(Backlog) - 0 : Backlog'[i] = Backlog[i + 0]
      /\ \A i \in 1..1 : Backlog'[Len(Backlog) - 0 + i] = evs[i]
  BY <1>3, <1>4 DEF Flow
<1>7. Len(Backlog) - 0 = Len(Backlog) /\ \A i \in 1..Len(Backlog) : i + 0 = i
  BY <1>5
<1>. QED  BY <1>4, <1>6, <1>7

(* The new elements of the queue, and where an old one went.                *)
LEMMA FlowSplit ==
  ASSUME TypeOK, NEW k \in {0, 1}, NEW evs \in Seq(Event), Flow(k, evs),
         NEW i \in 1..Len(Backlog')
  PROVE  \/ i + k \in 1..Len(Backlog) /\ Backlog'[i] = Backlog[i + k]
         \/ \E j \in 1..Len(evs) : Backlog'[i] = evs[j] /\ i = Len(Backlog) - k + j
<1>1. Len(Backlog) \in Nat /\ Len(evs) \in Nat
  BY BacklogType, LenProperties
<1>2. /\ k <= Len(Backlog)
      /\ Len(Backlog') = Len(Backlog) - k + Len(evs)
      /\ \A j \in 1..Len(Backlog) - k : Backlog'[j] = Backlog[j + k]
      /\ \A j \in 1..Len(evs) : Backlog'[Len(Backlog) - k + j] = evs[j]
  BY DEF Flow
<1>3. CASE i <= Len(Backlog) - k
  BY <1>1, <1>2, <1>3
<1>4. CASE ~(i <= Len(Backlog) - k)
  <2>. DEFINE j == i - (Len(Backlog) - k)
  <2>1. j \in 1..Len(evs) /\ i = Len(Backlog) - k + j
    BY <1>1, <1>2, <1>4
  <2>. QED  BY <1>2, <2>1
<1>. QED  BY <1>3, <1>4

LEMMA FlowForward ==
  ASSUME TypeOK, NEW k \in {0, 1}, NEW evs \in Seq(Event), Flow(k, evs),
         NEW j \in 1..Len(Backlog), j > k
  PROVE  j - k \in 1..Len(Backlog') /\ Backlog'[j - k] = Backlog[j]
<1>1. Len(Backlog) \in Nat /\ Len(evs) \in Nat
  BY BacklogType, LenProperties
<1>2. /\ Len(Backlog') = Len(Backlog) - k + Len(evs)
      /\ \A i \in 1..Len(Backlog) - k : Backlog'[i] = Backlog[i + k]
  BY DEF Flow
<1>3. j - k \in 1..Len(Backlog) - k /\ (j - k) + k = j
  BY <1>1
<1>. QED  BY <1>1, <1>2, <1>3

LEMMA EndingWaits ==
  ASSUME TypeOK
  PROVE  \A s \in Slots :
           /\ s \in Ending <=> \E i \in 1..Len(Backlog) :
                                 Backlog[i].id = "PEER_DISCONNECTED" /\ Backlog[i].conn = s
           /\ s \in Ending <=> Pending("PEER_DISCONNECTED", s)
<1>1. SUFFICES ASSUME NEW s \in Slots
               PROVE  s \in Ending <=> \E i \in 1..Len(Backlog) :
                                 Backlog[i].id = "PEER_DISCONNECTED" /\ Backlog[i].conn = s
  BY DEF Ending, Ends, Pending
<1>2. /\ Len(Backlog) = Len(batch) + Len(events)
      /\ Len(batch) \in Nat /\ Len(events) \in Nat
      /\ \A i \in 1..Len(batch) : Backlog[i] = batch[i]
      /\ \A i \in 1..Len(events) : Backlog[Len(batch) + i] = events[i]
  BY BacklogType
<1>3. ASSUME s \in Ends(batch)
      PROVE  \E i \in 1..Len(Backlog) : Backlog[i].id = "PEER_DISCONNECTED" /\ Backlog[i].conn = s
  <2>1. PICK i \in 1..Len(batch) : batch[i].id = "PEER_DISCONNECTED" /\ batch[i].conn = s
    BY <1>3 DEF Ends
  <2>2. i \in 1..Len(Backlog)
    BY <1>2
  <2>. QED  BY <1>2, <2>1, <2>2
<1>4. ASSUME s \in Ends(events)
      PROVE  \E i \in 1..Len(Backlog) : Backlog[i].id = "PEER_DISCONNECTED" /\ Backlog[i].conn = s
  <2>1. PICK i \in 1..Len(events) : events[i].id = "PEER_DISCONNECTED" /\ events[i].conn = s
    BY <1>4 DEF Ends
  <2>2. Len(batch) + i \in 1..Len(Backlog)
    BY <1>2
  <2>. QED  BY <1>2, <2>1, <2>2
<1>5. ASSUME NEW i \in 1..Len(Backlog), Backlog[i].id = "PEER_DISCONNECTED", Backlog[i].conn = s
      PROVE  s \in Ending
  <2>1. CASE i \in 1..Len(batch)
    BY <1>2, <1>5, <2>1 DEF Ending, Ends
  <2>2. CASE i - Len(batch) \in 1..Len(events)
    <3>1. Len(batch) + (i - Len(batch)) = i
      BY <1>2
    <3>2. events[i - Len(batch)] = Backlog[i]
      BY <1>2, <2>2, <3>1
    <3>. QED  BY <1>5, <2>2, <3>2 DEF Ending, Ends
  <2>. QED  BY <2>1, <2>2, BacklogType
<1>. QED  BY <1>3, <1>4, <1>5 DEF Ending

-----------------------------------------------------------------------------
(* What a link has sent is followed by its end.                             *)

FromPeer == PairEvents \cup {"PEER_SECURITY_CHANGED"}

Followed ==
  \A i \in 1..Len(Backlog) :
    Backlog[i].id \in FromPeer =>
      \/ Backlog[i].conn \in Live
      \/ \E j \in i + 1..Len(Backlog) :
           Backlog[j].id = "PEER_DISCONNECTED" /\ Backlog[j].conn = Backlog[i].conn

LEMMA FollowedFlow ==
  ASSUME TypeOK, Followed, Live \subseteq Live',
         NEW k \in {0, 1}, NEW evs \in Seq(Event), Flow(k, evs),
         \A i \in 1..Len(evs) : evs[i].id \in FromPeer => evs[i].conn \in Live
  PROVE  Followed'
<1>1. SUFFICES ASSUME NEW i \in 1..Len(Backlog'), Backlog'[i].id \in FromPeer
               PROVE  \/ Backlog'[i].conn \in Live'
                      \/ \E j \in i + 1..Len(Backlog') :
                           /\ Backlog'[j].id = "PEER_DISCONNECTED"
                           /\ Backlog'[j].conn = Backlog'[i].conn
  BY DEF Followed, FromPeer
<1>2. CASE \E j \in 1..Len(evs) : Backlog'[i] = evs[j]
  BY <1>1, <1>2
<1>3. CASE i + k \in 1..Len(Backlog) /\ Backlog'[i] = Backlog[i + k]
  <2>1. \/ Backlog[i + k].conn \in Live
        \/ \E j \in (i + k) + 1..Len(Backlog) :
             Backlog[j].id = "PEER_DISCONNECTED" /\ Backlog[j].conn = Backlog[i + k].conn
    BY <1>1, <1>3 DEF Followed
  <2>2. ASSUME NEW j \in (i + k) + 1..Len(Backlog),
               Backlog[j].id = "PEER_DISCONNECTED", Backlog[j].conn = Backlog[i + k].conn
        PROVE  \E l \in i + 1..Len(Backlog') :
                 Backlog'[l].id = "PEER_DISCONNECTED" /\ Backlog'[l].conn = Backlog'[i].conn
    <3>1. j \in 1..Len(Backlog) /\ j > k /\ j - k >= i + 1
      BY BacklogType, <1>1
    <3>2. j - k \in 1..Len(Backlog') /\ Backlog'[j - k] = Backlog[j]
      BY <3>1, FlowForward
    <3>3. j - k \in i + 1..Len(Backlog')
      BY <3>1, <3>2
    <3>. QED  BY <1>3, <2>2, <3>2, <3>3
  <2>. QED  BY <1>3, <2>1, <2>2
<1>. QED  BY <1>2, <1>3, FlowSplit

LEMMA FollowedInner ==
  ASSUME TypeOK, Followed, InnerStep
  PROVE  Followed'
<1>1. Live' = Live /\ connected \subseteq Live
  BY SteadySteps DEF Steady, Live
<1>2. PICK k \in {0, 1} : \E evs \in Seq(Event) :
        Flow(k, evs) /\ \A i \in 1..Len(evs) : Legitimate(evs[i])
  BY HandlerFlow, WorkFlow
<1>3. PICK evs \in Seq(Event) : Flow(k, evs) /\ \A i \in 1..Len(evs) : Legitimate(evs[i])
  BY <1>2
<1>4. ASSUME NEW i \in 1..Len(evs), evs[i].id \in FromPeer
      PROVE  evs[i].conn \in Live
  <2>1. /\ evs[i].id \notin StackEvents \cup ConfigEvents \cup {"MAX_CONN_CHANGED"}
        /\ evs[i].id # "OWNER_CONNECTED"
    BY <1>4 DEF FromPeer, StackEvents, ConfigEvents, PairEvents
  <2>. QED  BY <1>1, <1>3, <2>1 DEF Legitimate
<1>. QED  BY <1>1, <1>3, <1>4, FollowedFlow

LEMMA FollowedLinkUp ==
  ASSUME TypeOK, Followed, link_up
  PROVE  Followed'
<1>1. Live \subseteq Live' /\ batch' = batch
  BY DEF link_up, connected_cb, Live
<1>2. CASE events' = events
  BY <1>1, <1>2 DEF Followed, Backlog
<1>3. CASE Post(<<Ev("PEER_CONNECTED", adv.slot)>>)
  <2>. DEFINE evs == <<Ev("PEER_CONNECTED", adv.slot)>>
  <2>1. adv.slot \in Slots
    BY DEF link_up, connected_cb, TypeOK, ConnTypeOK, Adv, NoAdv
  <2>2. evs \in Seq(Event) /\ Len(evs) = 1 /\ evs[1].id = "PEER_CONNECTED"
    BY <2>1, EventType DEF PeerEvents, LinkEvents, Ev
  <2>3. events' = events \o evs
    BY <1>3 DEF Post, PostOn
  <2>. HIDE DEF evs
  <2>4. Flow(0, evs)
    BY <1>1, <2>2, <2>3, FlowPosted
  <2>5. \A i \in 1..Len(evs) : evs[i].id \notin FromPeer
    BY <2>2 DEF FromPeer, PairEvents
  <2>. QED  BY <1>1, <2>2, <2>4, <2>5, FollowedFlow
<1>. QED  BY <1>2, <1>3 DEF link_up, connected_cb

LEMMA FollowedLinkDown ==
  ASSUME TypeOK, Followed, NEW s \in Slots, link_down(s), is_enabled
  PROVE  Followed'
<1>1. /\ Live' = Live \ {s} /\ batch' = batch
      /\ Post(<<Ev("PEER_DISCONNECTED", s)>>)
  BY DEF link_down, disconnected_cb, Live
<1>. DEFINE e == Ev("PEER_DISCONNECTED", s)
<1>2. e \in Event /\ e.id = "PEER_DISCONNECTED" /\ e.conn = s
  BY EventType DEF PeerEvents, LinkEvents, Ev
<1>. HIDE DEF e
<1>3. Post(<<e>>)
  BY <1>1 DEF e
<1>4. /\ Len(Backlog') = Len(Backlog) + 1
      /\ \A i \in 1..Len(Backlog) : Backlog'[i] = Backlog[i]
      /\ Backlog'[Len(Backlog) + 1] = e
  BY <1>1, <1>2, <1>3, FlowOne
<1>5. Len(Backlog) \in Nat
  BY BacklogType
<1>6. SUFFICES ASSUME NEW i \in 1..Len(Backlog'), Backlog'[i].id \in FromPeer
               PROVE  \/ Backlog'[i].conn \in Live'
                      \/ \E j \in i + 1..Len(Backlog') :
                           /\ Backlog'[j].id = "PEER_DISCONNECTED"
                           /\ Backlog'[j].conn = Backlog'[i].conn
  BY DEF Followed, FromPeer
<1>7. i \in 1..Len(Backlog)
  <2>1. "PEER_DISCONNECTED" \notin FromPeer
    BY DEF FromPeer, PairEvents
  <2>. QED  BY <1>2, <1>4, <1>5, <1>6, <2>1
<1>8. CASE Backlog[i].conn = s
  <2>1. Len(Backlog) + 1 \in i + 1..Len(Backlog')
    BY <1>4, <1>5, <1>7
  <2>. QED  BY <1>2, <1>4, <1>7, <1>8, <2>1
<1>9. CASE \E j \in i + 1..Len(Backlog) :
             Backlog[j].id = "PEER_DISCONNECTED" /\ Backlog[j].conn = Backlog[i].conn
  <2>1. PICK j \in i + 1..Len(Backlog) :
             Backlog[j].id = "PEER_DISCONNECTED" /\ Backlog[j].conn = Backlog[i].conn
    BY <1>9
  <2>2. j \in 1..Len(Backlog) /\ j \in i + 1..Len(Backlog')
    BY <1>4, <1>5, <1>7
  <2>. QED  BY <1>4, <1>7, <2>1, <2>2
<1>. QED  BY <1>1, <1>4, <1>6, <1>7, <1>8, <1>9 DEF Followed

LEMMA FollowedEnable ==
  ASSUME TypeOK, Followed, fmna_enable
  PROVE  Followed'
<1>1. Live' = Live
  BY DEF fmna_enable, hostVars, Live
<1>2. PICK evs \in Seq(Event) : Flow(0, evs) /\ \A i \in 1..Len(evs) : evs[i].id \in StackEvents
  BY EnablePosts, AnnouncedFlow
<1>3. \A i \in 1..Len(evs) : evs[i].id \notin FromPeer
  BY <1>2 DEF FromPeer, PairEvents, StackEvents
<1>. QED  BY <1>1, <1>2, <1>3, FollowedFlow

-----------------------------------------------------------------------------
(* The pairing candidate.  Without fmna_disable() the state is DISABLED     *)
(* only before the first fmna_enable(), when there is no link.              *)

CandidateInv ==
  /\ TypeOK
  /\ QuietDisabled
  /\ state = "DISABLED" => Live = {}
  /\ Followed
  /\ PairingConnLive

(* Only the handlers of two events change the candidate but to none.        *)
LEMMA CandidateKept ==
  ASSUME InnerStep, ~peer_disconnected, ~candidate_secured
  PROVE  pairing_conn' \in {pairing_conn, NULL}
<1>1. CASE HandleEvent
  BY <1>1
  DEF HandleEvent, peer_connected, owner_secured, owner_connected, max_conn_changed,
      state_changed, public_keys_changed, config_event, pair_event, pairVars,
      pairing_cmd_rejected, initiate_pairing_cmd_handle, finalize_pairing_cmd_handle,
      pairing_complete_cmd_handle
<1>2. CASE ~HandleEvent
  BY <1>2
  DEF InnerStep, event_work, max_conn_work, nearby_timeout, nearby_work,
      persistent_conn_work, pairing_mode_work, key_timeout, key_work, paired_adv,
      pairing_mode_request, link_secured, security_error, conn_timeout_work,
      config_cp_write, pairing_cp_write, aboveConn, aboveState, pairVars, vars
<1>. QED  BY <1>1, <1>2

LEMMA CandidateNext ==
  ASSUME "fmna_disable" \notin AppCalls, CandidateInv, [Next]_vars
  PROVE  CandidateInv'
<1>1. TypeOK /\ TypeOK' /\ QuietDisabled /\ Followed /\ PairingConnLive
      /\ (state = "DISABLED" => Live = {})
  BY TypeNext DEF CandidateInv
<1>2. PairingConnLive <=> (pairing_conn # NULL => pairing_conn \in Live \cup Ending)
  <2>1. pairing_conn \in Slots \cup {NULL}
    BY <1>1 DEF TypeOK, PairTypeOK, Conns
  <2>. QED  BY <1>1, <2>1, EndingWaits DEF PairingConnLive
<1>3. PairingConnLive' <=> (pairing_conn' # NULL => pairing_conn' \in Live' \cup Ending')
  <2>1. pairing_conn' \in Slots \cup {NULL}
    BY <1>1 DEF TypeOK, PairTypeOK, Conns
  <2>2. pairing_conn' \in Slots => (pairing_conn' \in Ending' <=> Pending("PEER_DISCONNECTED", pairing_conn)')
    BY DEF Ending, Ends, Pending
  <2>. QED  BY <1>1, <2>1, <2>2 DEF PairingConnLive
<1>4. CASE InnerStep
  <2>1. Followed'
    BY <1>1, <1>4, FollowedInner
  <2>2. Live' = Live /\ (state # "DISABLED" => state' # "DISABLED")
    BY <1>1, <1>4, SteadySteps DEF Steady
  <2>3. QuietDisabled' /\ (state' = "DISABLED" => Live' = {})
    BY <1>1, <1>4, <2>2, QuietSteps DEF QuietDisabled
  <2>4. PairingConnLive'
    <3>1. CASE peer_disconnected
      <4>. DEFINE s == Head(batch).conn
      <4>1. pairing_conn' = IF pairing_conn = s THEN NULL ELSE pairing_conn
        BY <3>1 DEF peer_disconnected, pairing_ended
      <4>2. Ending \subseteq Ending' \cup {s}
        <5>1. batch \in Seq(Event) /\ batch # <<>> /\ batch' = Tail(batch)
          BY <1>1, <3>1 DEF peer_disconnected, Handling, TypeOK, QueueTypeOK
        <5>2. Ends(batch) \subseteq Ends(batch') \cup {s}
          BY <5>1, EndsOfTail
        <5>3. EndsKept
          <6>1. CASE Post(<<>>)
            BY <1>1, <6>1, PostedOther DEF Post
          <6>2. CASE \E new : state_set(workq, limit_check, s, new)
            BY <1>1, <6>2, StateSetOther, LimitCheckType
          <6>. QED  BY <3>1, <6>1, <6>2 DEF peer_disconnected
        <5>. QED  BY <5>2, <5>3 DEF Ending, EndsKept
      <4>. QED  BY <1>1, <1>2, <1>3, <2>2, <4>1, <4>2
    <3>2. CASE ~peer_disconnected
      <4>1. Ending' = Ending
        BY <1>1, <1>4, <3>2, InnerLeavesRecords DEF RecordsLeft
      <4>2. CASE candidate_secured
        <5>. DEFINE s == Head(batch).conn
        <5>1. pairing_conn' \in {pairing_conn, s}
          BY <4>2 DEF candidate_secured
        <5>2. s \in Live \cup Ending
          <6>1. 1 \in 1..Len(Backlog) /\ Backlog[1] = Head(batch)
            BY <1>1, <4>2, HandlerFlow DEF HandleEvent
          <6>2. Backlog[1].id \in FromPeer /\ s \in Slots
            BY <1>1, <4>2, <6>1, TypeSplit, HandlingType
            DEF candidate_secured, Handling, FromPeer, PeerEvents, LinkEvents
          <6>3. \/ s \in Live
                \/ \E j \in 1 + 1..Len(Backlog) :
                     Backlog[j].id = "PEER_DISCONNECTED" /\ Backlog[j].conn = s
            BY <1>1, <6>1, <6>2 DEF Followed
          <6>4. \A j \in 1 + 1..Len(Backlog) : j \in 1..Len(Backlog)
            BY <6>1
          <6>. QED  BY <1>1, <6>2, <6>3, <6>4, EndingWaits
        <5>. QED  BY <1>1, <1>2, <1>3, <2>2, <4>1, <5>1, <5>2
      <4>3. CASE ~candidate_secured
        BY <1>1, <1>2, <1>3, <1>4, <2>2, <3>2, <4>1, <4>3, CandidateKept
      <4>. QED  BY <4>2, <4>3
    <3>. QED  BY <3>1, <3>2
  <2>. QED  BY <1>1, <2>1, <2>3, <2>4 DEF CandidateInv
<1>5. CASE link_up
  <2>1. state # "DISABLED" /\ state' = state
    BY <1>1, <1>5 DEF link_up, connected_cb, QuietDisabled, NoAdv, aboveConn, stateVars
  <2>2. Followed'
    BY <1>1, <1>5, FollowedLinkUp
  <2>3. /\ Live \subseteq Live' /\ pairing_conn' = pairing_conn /\ batch' = batch
        /\ Post(<<Ev("PEER_CONNECTED", adv.slot)>>)
    BY <1>5, <2>1 DEF link_up, connected_cb, aboveConn, pairVars, Live, is_enabled
  <2>4. adv.slot \in Slots
    BY <1>1, <1>5 DEF link_up, connected_cb, TypeOK, ConnTypeOK, Adv, NoAdv
  <2>5. /\ Ev("PEER_CONNECTED", adv.slot) \in Event
        /\ Ev("PEER_CONNECTED", adv.slot).id # "PEER_DISCONNECTED"
    BY <2>4, EventType DEF PeerEvents, LinkEvents, Ev
  <2>6. EndsKept
    BY <1>1, <2>3, <2>5, PostedOther DEF Post
  <2>7. PairingConnLive'
    BY <1>1, <1>2, <1>3, <2>3, <2>6 DEF Ending, EndsKept
  <2>. QED  BY <1>1, <2>1, <2>2, <2>7 DEF CandidateInv, QuietDisabled
<1>6. ASSUME NEW s \in Slots, link_down(s) PROVE CandidateInv'
  <2>1. s \in Live /\ state' = state /\ pairing_conn' = pairing_conn
        /\ Live' = Live \ {s} /\ batch' = batch
    BY <1>6 DEF link_down, disconnected_cb, aboveConn, stateVars, pairVars, Live
  <2>2. state # "DISABLED" /\ is_enabled
    BY <1>1, <2>1 DEF is_enabled
  <2>3. Followed'
    BY <1>1, <1>6, <2>2, FollowedLinkDown
  <2>4. Ending' = Ending \cup {s}
    <3>. DEFINE e == Ev("PEER_DISCONNECTED", s)
    <3>1. events' = events \o <<e>>
      BY <1>6, <2>2 DEF link_down, disconnected_cb, Post, PostOn
    <3>2. e \in Event /\ e.id = "PEER_DISCONNECTED" /\ e.conn = s
      BY EventType DEF PeerEvents, LinkEvents, Ev
    <3>. HIDE DEF e
    <3>3. Ends(<<e>>) = {s}
      BY <3>2, EndsOfOne
    <3>4. events \in Seq(Event) /\ <<e>> \in Seq(Event)
      BY <1>1, <3>2, EventType DEF TypeOK, QueueTypeOK
    <3>5. Ends(events') = Ends(events) \cup {s}
      BY <3>1, <3>3, <3>4, EndsConcat
    <3>. QED  BY <2>1, <3>5 DEF Ending, Ends
  <2>5. PairingConnLive'
    BY <1>1, <1>2, <1>3, <2>1, <2>4
  <2>. QED  BY <1>1, <2>1, <2>2, <2>3, <2>5 DEF CandidateInv, QuietDisabled
<1>7. CASE fmna_enable
  <2>1. Live' = Live /\ pairing_conn' = pairing_conn
    BY <1>7 DEF fmna_enable, hostVars, pairVars, Live
  <2>2. state' # "DISABLED"
    BY <1>7 DEF fmna_enable, unchanged_state, forbidden_transition, enter_separated,
                enter_unpaired
  <2>3. Followed'
    BY <1>1, <1>7, FollowedEnable
  <2>4. Ending' = Ending
    <3>1. PICK first :
        \/ unchanged_state(workq, TRUE, first) \/ forbidden_transition(workq, first)
        \/ enter_separated(workq, first) \/ enter_unpaired(workq, first)
      BY <1>7 DEF fmna_enable
    <3>2. EndsKept /\ batch' = batch
      BY <1>1, <1>7, <3>1, StateSetOther DEF fmna_enable
    <3>. QED  BY <3>2 DEF Ending, EndsKept
  <2>. QED  BY <1>1, <1>2, <1>3, <2>1, <2>2, <2>3, <2>4 DEF CandidateInv, QuietDisabled
<1>8. ~fmna_disable
  BY DEF fmna_disable
<1>. QED  BY <1>4, <1>5, <1>6, <1>7, <1>8 DEF Next, InnerStep

(* The pairing candidate is a link that is up, or one whose end is still to *)
(* be handled, whatever races with whatever: a candidate that leaves frees  *)
(* the place.  fmna_disable() forgets it and is excluded.                   *)
THEOREM CandidateIsLive ==
  ASSUME "fmna_disable" \notin AppCalls
  PROVE  Spec => []PairingConnLive
<1>1. Init => CandidateInv
  <2>. SUFFICES ASSUME Init PROVE CandidateInv
    OBVIOUS
  <2>1. QuietDisabled /\ Live = {}
    BY DEF Init, QuietDisabled, NoAdv, Queued, Live
  <2>2. Backlog = <<>> /\ Len(<<>>) = 0
    BY ConcatEmptySeq DEF Init, Backlog
  <2>3. Followed
    BY <2>2 DEF Followed
  <2>4. PairingConnLive
    BY DEF Init, PairingConnLive
  <2>. QED  BY <2>1, <2>3, <2>4, TypeInit DEF CandidateInv
<1>2. CandidateInv /\ [Next]_vars => CandidateInv'
  BY CandidateNext
<1>3. CandidateInv => PairingConnLive
  BY DEF CandidateInv
<1>. QED  BY <1>1, <1>2, <1>3, PTL DEF Spec

-----------------------------------------------------------------------------
(* The races left out: what follows is about peers and an application that  *)
(* wait for each other's steps as Races describes, except for the pairing   *)
(* status.                                                                  *)

Orderly == Races \subseteq {"hasty_complete"}

LEMMA OrderlyCareful ==
  ASSUME Orderly
  PROVE  /\ CarefulDisable
         /\ "early_reuse" \notin Races /\ "fast_leave" \notin Races
         /\ "late_nearby" \notin Races
BY DEF Orderly, CarefulDisable

(* Events and links.  A link whose encryption is still to be handled is     *)
(* there; nothing a peer has sent waits behind the end of its link, and     *)
(* until the end is handled the link has its record.                        *)

Enabled == state # "DISABLED"

ReadyEnabled == ready <=> Enabled

Arriving ==
  \A i \in 1..Len(Backlog) :
    Backlog[i].id \in {"PEER_SECURITY_CHANGED", "OWNER_CONNECTED"} => Backlog[i].conn \in Live

OfLink == FromPeer \cup {"PEER_DISCONNECTED"}

EndIsLast ==
  \A i, j \in 1..Len(Backlog) :
    /\ i < j
    /\ Backlog[i].id = "PEER_DISCONNECTED"
    /\ Backlog[j].id \in OfLink
    => Backlog[j].conn # Backlog[i].conn

Recorded ==
  Enabled => \A i \in 1..Len(Backlog) : Backlog[i].id \in OfLink => Backlog[i].conn \in is_valid

LinkInv ==
  /\ ReferenceInv
  /\ RecordsInv
  /\ ReadyEnabled
  /\ Arriving
  /\ EndIsLast
  /\ Recorded

(* A step that posts no end of a link, at the level of the queue.           *)
LEMMA EndIsLastFlow ==
  ASSUME TypeOK, RecordsInv, EndIsLast,
         NEW k \in {0, 1}, NEW evs \in Seq(Event), Flow(k, evs),
         Len(evs) <= 1 \/ \A i \in 1..Len(evs) : evs[i].id # "PEER_DISCONNECTED",
         \A i \in 1..Len(evs) : evs[i].id \in OfLink => evs[i].conn \in Live
  PROVE  EndIsLast'
<1>1. SUFFICES ASSUME NEW i \in 1..Len(Backlog'), NEW j \in 1..Len(Backlog'), i < j,
                      Backlog'[i].id = "PEER_DISCONNECTED",
                      Backlog'[j].id \in OfLink,
                      Backlog'[j].conn = Backlog'[i].conn
               PROVE  FALSE
  BY DEF EndIsLast, OfLink, FromPeer
<1>2. Len(Backlog) \in Nat /\ Len(evs) \in Nat
  BY BacklogType, LenProperties
<1>3. CASE i + k \in 1..Len(Backlog) /\ Backlog'[i] = Backlog[i + k]
  <2>1. CASE j + k \in 1..Len(Backlog) /\ Backlog'[j] = Backlog[j + k]
    <3>1. i + k < j + k
      BY <1>1
    <3>. QED  BY <1>1, <1>3, <2>1, <3>1 DEF EndIsLast
  <2>2. CASE \E l \in 1..Len(evs) : Backlog'[j] = evs[l]
    <3>1. Backlog'[j].conn \in Live
      BY <1>1, <2>2
    <3>2. Backlog[i + k].conn \in Live /\ Backlog[i + k].id = "PEER_DISCONNECTED"
      BY <1>1, <1>3, <3>1
    <3>3. Live \subseteq Slots
      BY DEF TypeOK, ConnTypeOK, Live
    <3>4. Backlog[i + k].conn \in Ending
      BY <1>3, <3>2, <3>3, EndingWaits
    <3>. QED  BY <3>2, <3>4 DEF RecordsInv
  <2>. QED  BY <2>1, <2>2, FlowSplit
<1>4. CASE \E l \in 1..Len(evs) : Backlog'[i] = evs[l] /\ i = Len(Backlog) - k + l
  <2>1. PICK l \in 1..Len(evs) : Backlog'[i] = evs[l] /\ i = Len(Backlog) - k + l
    BY <1>4
  <2>2. Len(evs) <= 1
    BY <1>1, <2>1
  <2>3. j <= Len(Backlog) - k + Len(evs)
    BY <1>2 DEF Flow
  <2>. QED  BY <1>1, <1>2, <2>1, <2>2, <2>3
<1>. QED  BY <1>3, <1>4, FlowSplit

(* A step that ends no link, and posts events of links that are there.      *)
LEMMA ArrivingFlow ==
  ASSUME TypeOK, Arriving, Live \subseteq Live',
         NEW k \in {0, 1}, NEW evs \in Seq(Event), Flow(k, evs),
         \A i \in 1..Len(evs) :
           evs[i].id \in {"PEER_SECURITY_CHANGED", "OWNER_CONNECTED"} => evs[i].conn \in Live
  PROVE  Arriving'
<1>1. SUFFICES ASSUME NEW i \in 1..Len(Backlog'),
                      Backlog'[i].id \in {"PEER_SECURITY_CHANGED", "OWNER_CONNECTED"}
               PROVE  Backlog'[i].conn \in Live'
  BY DEF Arriving
<1>2. CASE i + k \in 1..Len(Backlog) /\ Backlog'[i] = Backlog[i + k]
  BY <1>1, <1>2 DEF Arriving
<1>3. CASE \E l \in 1..Len(evs) : Backlog'[i] = evs[l]
  BY <1>1, <1>3
<1>. QED  BY <1>2, <1>3, FlowSplit

LEMMA RecordedFlow ==
  ASSUME TypeOK, Enabled, Recorded, is_valid \subseteq is_valid',
         NEW k \in {0, 1}, NEW evs \in Seq(Event), Flow(k, evs),
         \A i \in 1..Len(evs) : evs[i].id \in OfLink => evs[i].conn \in is_valid
  PROVE  Recorded'
<1>1. SUFFICES ASSUME NEW i \in 1..Len(Backlog'), Backlog'[i].id \in OfLink
               PROVE  Backlog'[i].conn \in is_valid'
  BY DEF Recorded, OfLink, FromPeer
<1>2. CASE i + k \in 1..Len(Backlog) /\ Backlog'[i] = Backlog[i + k]
  BY <1>1, <1>2 DEF Recorded
<1>3. CASE \E l \in 1..Len(evs) : Backlog'[i] = evs[l]
  BY <1>1, <1>3
<1>. QED  BY <1>2, <1>3, FlowSplit

(* The event that is handled, seen in the queue.                            *)
LEMMA HandledFirst ==
  ASSUME TypeOK, HandleEvent
  PROVE  /\ 1 \in 1..Len(Backlog) /\ Backlog[1] = Head(batch)
         /\ batch # <<>> /\ batch' = Tail(batch)
         /\ \E id : Handling(id)
BY HandlerFlow, HandlerPosts DEF Handling

(* A disabled stack handles nothing of a peer.                              *)
LEMMA HandledEnabled ==
  ASSUME TypeOK, QuietDisabled, NEW id \in PeerEvents, Handling(id)
  PROVE  Enabled
<1>1. batch \in Seq(Event) /\ batch # <<>> /\ Head(batch).id = id
  BY DEF Handling, TypeOK, QueueTypeOK
<1>2. id \notin StackEvents
  BY DEF PeerEvents, LinkEvents, ConfigEvents, PairEvents, StackEvents
<1>3. ~(\A i \in 1..Len(batch) : batch[i].id \in StackEvents)
  BY <1>1, <1>2, TailEvents
<1>. QED  BY <1>3 DEF QuietDisabled, Enabled

LEMMA QuietWaiting ==
  ASSUME TypeOK, QuietDisabled, ~Enabled
  PROVE  \A i \in 1..Len(Backlog) : Backlog[i].id \in StackEvents
<1>1. SUFFICES ASSUME NEW i \in 1..Len(Backlog) PROVE Backlog[i].id \in StackEvents
  OBVIOUS
<1>2. CASE i \in 1..Len(batch)
  BY <1>2, BacklogType DEF QuietDisabled, Enabled
<1>3. CASE i - Len(batch) \in 1..Len(events)
  <2>1. Len(batch) + (i - Len(batch)) = i
    BY BacklogType
  <2>2. Backlog[Len(batch) + (i - Len(batch))] = events[i - Len(batch)]
    BY <1>3, BacklogType
  <2>. QED  BY <1>3, <2>1, <2>2 DEF QuietDisabled, Enabled
<1>. QED  BY <1>2, <1>3, BacklogType

LEMMA LinkInvInner ==
  ASSUME Orderly, LinkInv, InnerStep, ReferenceInv', RecordsInv'
  PROVE  LinkInv'
<1>1. TypeOK /\ TypeOK' /\ QuietDisabled /\ QuietDisabled' /\ RecordsInv /\ Arriving
      /\ EndIsLast /\ Recorded /\ ReadyEnabled
  BY DEF LinkInv, ReferenceInv
<1>2. Live' = Live /\ (Enabled => Enabled') /\ connected \subseteq Live
  BY <1>1, SteadySteps DEF Steady, Enabled, Live
<1>3. ~Enabled => ~Enabled'
  BY <1>1, QuietSteps DEF Enabled
<1>4. ready' = ready
  BY <1>1, InnerLeavesRecords DEF peer_disconnected
<1>5. ReadyEnabled'
  BY <1>1, <1>2, <1>3, <1>4 DEF ReadyEnabled
<1>6. PICK k \in {0, 1} : \E evs \in Seq(Event) :
        /\ Flow(k, evs)
        /\ \A i \in 1..Len(evs) : Legitimate(evs[i])
        /\ HandleEvent => k = 1
  BY <1>1, HandlerFlow, WorkFlow
<1>7. PICK evs \in Seq(Event) :
        /\ Flow(k, evs)
        /\ \A i \in 1..Len(evs) : Legitimate(evs[i])
  BY <1>6
<1>8. ASSUME NEW i \in 1..Len(evs) PROVE
        /\ evs[i].id # "PEER_DISCONNECTED"
        /\ evs[i].id \in OfLink => evs[i].conn \in Live
        /\ evs[i].id = "OWNER_CONNECTED" => owner_secured /\ evs[i].conn = Head(batch).conn
        /\ evs[i].id = "PEER_SECURITY_CHANGED" => evs[i].conn \in Live
  BY <1>2, <1>7 DEF Legitimate, OfLink, FromPeer, StackEvents, ConfigEvents, PairEvents
<1>9. ASSUME owner_secured PROVE Head(batch).conn \in Live
  <2>1. 1 \in 1..Len(Backlog) /\ Backlog[1] = Head(batch)
    BY <1>1, <1>9, HandledFirst DEF HandleEvent
  <2>. QED  BY <1>1, <1>9, <2>1 DEF owner_secured, Handling, Arriving
<1>10. EndIsLast'
  BY <1>1, <1>7, <1>8, EndIsLastFlow
<1>11. Arriving'
  BY <1>1, <1>2, <1>7, <1>8, <1>9, ArrivingFlow
<1>12. Recorded'
  <2>1. CASE ~Enabled
    BY <1>3, <2>1 DEF Recorded
  <2>2. CASE Enabled /\ ~peer_disconnected
    <3>1. is_valid' = is_valid
      BY <1>1, <2>2, InnerLeavesRecords DEF RecordsLeft
    <3>2. Live \subseteq is_valid
      BY <1>1, <2>2 DEF RecordsInv, Enabled
    <3>. QED  BY <1>1, <1>7, <1>8, <2>2, <3>1, <3>2, RecordedFlow
  <2>3. CASE Enabled /\ peer_disconnected
    <3>. DEFINE s == Head(batch).conn
    <3>1. is_valid' = is_valid \ {s} /\ HandleEvent /\ k = 1
      BY <1>6, <2>3 DEF peer_disconnected, record_cleared, HandleEvent
    <3>2. 1 \in 1..Len(Backlog) /\ Backlog[1] = Head(batch) /\ Head(batch).id = "PEER_DISCONNECTED"
      BY <1>1, <2>3, <3>1, HandledFirst DEF peer_disconnected, Handling
    <3>3. s \in Slots
      BY <1>1, <2>3, TypeSplit, HandlingType DEF peer_disconnected, PeerEvents, LinkEvents
    <3>4. s \in Ending
      BY <1>1, <3>2, <3>3, EndingWaits
    <3>5. s \notin Live /\ Live \subseteq is_valid
      BY <1>1, <2>3, <3>4 DEF RecordsInv, Enabled
    <3>6. SUFFICES ASSUME NEW i \in 1..Len(Backlog'), Backlog'[i].id \in OfLink
                   PROVE  Backlog'[i].conn \in is_valid \ {s}
      BY <3>1 DEF Recorded, OfLink, FromPeer
    <3>7. CASE i + k \in 1..Len(Backlog) /\ Backlog'[i] = Backlog[i + k]
      <4>1. 1 < i + k
        BY <3>1
      <4>2. Backlog[i + k].conn # s
        BY <1>1, <3>2, <3>6, <3>7, <4>1 DEF EndIsLast
      <4>. QED  BY <1>1, <2>3, <3>6, <3>7, <4>2 DEF Recorded
    <3>8. CASE \E l \in 1..Len(evs) : Backlog'[i] = evs[l]
      BY <1>8, <3>5, <3>6, <3>8
    <3>. QED  BY <1>1, <1>7, <3>7, <3>8, FlowSplit
  <2>. QED  BY <2>1, <2>2, <2>3
<1>. QED  BY <1>5, <1>10, <1>11, <1>12 DEF LinkInv

LEMMA LinkInvLinkUp ==
  ASSUME Orderly, LinkInv, link_up, ReferenceInv', RecordsInv'
  PROVE  LinkInv'
<1>. DEFINE e == Ev("PEER_CONNECTED", adv.slot)
            evs == <<e>>
<1>1. TypeOK /\ QuietDisabled /\ RecordsInv /\ Arriving /\ EndIsLast /\ Recorded /\ ReadyEnabled
  BY DEF LinkInv, ReferenceInv
<1>2. Enabled /\ UNCHANGED <<state, ready, batch>>
  BY <1>1 DEF link_up, connected_cb, QuietDisabled, NoAdv, Enabled, aboveConn, stateVars
<1>3. adv.slot \in Slots
  BY <1>1 DEF link_up, connected_cb, TypeOK, ConnTypeOK, Adv, NoAdv
<1>4. /\ Live \subseteq Live' /\ is_valid \subseteq is_valid' /\ Post(<<e>>)
  BY <1>2 DEF link_up, connected_cb, Live, is_enabled, Enabled
<1>5. evs \in Seq(Event) /\ Len(evs) = 1 /\ evs[1].id = "PEER_CONNECTED" /\ events' = events \o evs
  BY <1>3, <1>4, EventType DEF PeerEvents, LinkEvents, Ev, Post, PostOn
<1>. HIDE DEF evs
<1>6. Flow(0, evs)
  BY <1>1, <1>2, <1>5, FlowPosted
<1>7. \A i \in 1..Len(evs) : evs[i].id \notin OfLink \cup {"OWNER_CONNECTED", "PEER_SECURITY_CHANGED"}
  BY <1>5 DEF OfLink, FromPeer, PairEvents
<1>8. EndIsLast'
  BY <1>1, <1>5, <1>6, <1>7, EndIsLastFlow
<1>9. Arriving'
  BY <1>1, <1>4, <1>5, <1>6, <1>7, ArrivingFlow
<1>10. Recorded'
  BY <1>1, <1>2, <1>4, <1>5, <1>6, <1>7, RecordedFlow
<1>. QED  BY <1>1, <1>2, <1>8, <1>9, <1>10 DEF LinkInv, ReadyEnabled, Enabled

LEMMA LinkInvLinkDown ==
  ASSUME Orderly, LinkInv, NEW s \in Slots, link_down(s), ReferenceInv', RecordsInv'
  PROVE  LinkInv'
<1>. DEFINE e == Ev("PEER_DISCONNECTED", s)
            evs == <<e>>
<1>1. TypeOK /\ QuietDisabled /\ RecordsInv /\ Arriving /\ EndIsLast /\ Recorded /\ ReadyEnabled
  BY DEF LinkInv, ReferenceInv
<1>2. /\ s \in Live /\ Live' = Live \ {s} /\ UNCHANGED <<state, ready, batch, is_valid>>
      /\ ~Pending("PEER_SECURITY_CHANGED", s) /\ ~Pending("OWNER_CONNECTED", s)
  BY OrderlyCareful DEF link_down, disconnected_cb, aboveConn, stateVars, Live
<1>3. ASSUME NEW i \in 1..Len(Backlog),
             Backlog[i].id \in {"PEER_SECURITY_CHANGED", "OWNER_CONNECTED"}
      PROVE  Backlog[i].conn \in Live'
  <2>1. Backlog[i].conn # s
    <3>1. CASE i \in 1..Len(batch)
      BY <1>1, <1>2, <1>3, <3>1, BacklogType DEF Pending
    <3>2. CASE i - Len(batch) \in 1..Len(events)
      <4>1. Len(batch) + (i - Len(batch)) = i
        BY <1>1, BacklogType
      <4>2. Backlog[Len(batch) + (i - Len(batch))] = events[i - Len(batch)]
        BY <1>1, <3>2, BacklogType
      <4>. QED  BY <1>2, <1>3, <3>2, <4>1, <4>2 DEF Pending
    <3>. QED  BY <1>1, <3>1, <3>2, BacklogType
  <2>. QED  BY <1>1, <1>2, <1>3, <2>1 DEF Arriving
<1>4. CASE ~Enabled
  <2>1. UNCHANGED events
    BY <1>4 DEF link_down, disconnected_cb, is_enabled, Enabled
  <2>2. Backlog' = Backlog
    BY <1>2, <2>1 DEF Backlog
  <2>3. Arriving'
    BY <1>3, <2>2 DEF Arriving
  <2>. QED
    BY <1>1, <1>2, <1>4, <2>2, <2>3 DEF LinkInv, EndIsLast, Recorded, ReadyEnabled, Enabled
<1>5. CASE Enabled
  <2>1. evs \in Seq(Event) /\ Len(evs) = 1 /\ evs[1].id = "PEER_DISCONNECTED" /\ evs[1].conn = s
        /\ events' = events \o evs
    BY <1>5, EventType
    DEF PeerEvents, LinkEvents, Ev, Post, PostOn, link_down, disconnected_cb, is_enabled, Enabled
  <2>. HIDE DEF evs
  <2>2. Flow(0, evs)
    BY <1>1, <1>2, <2>1, FlowPosted
  <2>3. s \in is_valid
    BY <1>1, <1>2, <1>5 DEF RecordsInv, Enabled
  <2>4. EndIsLast'
    <3>1. Len(evs) <= 1 /\ \A i \in 1..Len(evs) : evs[i].conn \in Live
      BY <1>2, <2>1
    <3>. QED  BY <1>1, <2>1, <2>2, <3>1, EndIsLastFlow
  <2>5. Recorded'
    BY <1>1, <1>2, <1>5, <2>1, <2>2, <2>3, RecordedFlow
  <2>6. Arriving'
    <3>1. SUFFICES ASSUME NEW i \in 1..Len(Backlog'),
                          Backlog'[i].id \in {"PEER_SECURITY_CHANGED", "OWNER_CONNECTED"}
                   PROVE  Backlog'[i].conn \in Live'
      BY DEF Arriving
    <3>2. CASE \E l \in 1..Len(evs) : Backlog'[i] = evs[l]
      BY <2>1, <3>1, <3>2
    <3>3. CASE i + 0 \in 1..Len(Backlog) /\ Backlog'[i] = Backlog[i + 0]
      BY <1>3, <3>1, <3>3
    <3>. QED  BY <1>1, <2>1, <2>2, <3>2, <3>3, FlowSplit
  <2>. QED  BY <1>1, <1>2, <2>4, <2>5, <2>6 DEF LinkInv, ReadyEnabled, Enabled
<1>. QED  BY <1>4, <1>5

(* A connection object is free when there is no link.                       *)
LEMMA FreeWithoutLink ==
  ASSUME TypeOK, OneReferencePerLink, NEW s \in Slots, s \notin Live
  PROVE  free_conn /\ ~(refs[s] > 0)
BY DEF OneReferencePerLink, free_conn

LEMMA LinkInvEnable ==
  ASSUME Orderly, LinkInv, fmna_enable, ReferenceInv', RecordsInv'
  PROVE  /\ LinkInv' /\ ~Enabled /\ Enabled'
         /\ \A i \in 1..Len(Backlog') : Backlog'[i].id \in StackEvents
<1>1. TypeOK /\ QuietDisabled /\ OneReferencePerLink /\ RecordsInv /\ Arriving /\ EndIsLast
      /\ Recorded /\ ReadyEnabled
  BY DEF LinkInv, ReferenceInv
<1>2. ~Enabled /\ Live = {} /\ Live' = Live
  BY <1>1, OrderlyCareful DEF fmna_enable, ReadyEnabled, CarefulDisable, hostVars, Live
<1>3. free_conn
  <2>1. 1 \in Slots
    BY ConnAssumption DEF Slots
  <2>. QED  BY <1>1, <1>2, <2>1, FreeWithoutLink
<1>4. Enabled' /\ ready'
  BY <1>2, <1>3
  DEF fmna_enable, unchanged_state, forbidden_transition, enter_separated,
      enter_unpaired, Enabled, paired_adv_ok
<1>5. PICK evs \in Seq(Event) : Flow(0, evs) /\ \A i \in 1..Len(evs) : evs[i].id \in StackEvents
  BY <1>1, EnablePosts, AnnouncedFlow
<1>6. \A i \in 1..Len(Backlog') : Backlog'[i].id \in StackEvents
  <2>1. \A i \in 1..Len(Backlog) : Backlog[i].id \in StackEvents
    BY <1>1, <1>2, QuietWaiting
  <2>. QED  BY <1>1, <1>5, <2>1, FlowSplit
<1>7. \A i \in 1..Len(Backlog') :
        Backlog'[i].id \notin OfLink \cup {"OWNER_CONNECTED", "PEER_SECURITY_CHANGED"}
  BY <1>6 DEF OfLink, FromPeer, PairEvents, StackEvents
<1>8. Arriving' /\ EndIsLast' /\ Recorded'
  BY <1>7 DEF Arriving, EndIsLast, Recorded, OfLink, FromPeer
<1>. QED  BY <1>2, <1>4, <1>6, <1>8 DEF LinkInv, ReadyEnabled

LEMMA LinkInvDisable ==
  ASSUME Orderly, LinkInv, fmna_disable, ReferenceInv', RecordsInv'
  PROVE  LinkInv' /\ ~Enabled' /\ \A i \in 1..Len(Backlog') : Backlog'[i].id \in StackEvents
<1>1. ~Enabled' /\ ready' = FALSE
  BY DEF fmna_disable, enter_disabled, Enabled
<1>2. TypeOK' /\ QuietDisabled'
  BY DEF ReferenceInv
<1>3. \A i \in 1..Len(batch')  : batch'[i].id \in StackEvents
  BY <1>1, <1>2 DEF QuietDisabled, Enabled
<1>4. \A i \in 1..Len(events')  : events'[i].id \in StackEvents
  BY <1>1, <1>2 DEF QuietDisabled, Enabled
<1>5. \A i \in 1..Len(Backlog') : Backlog'[i].id \in StackEvents
  <2>1. batch' \in Seq(Event) /\ events' \in Seq(Event)
    BY <1>2 DEF TypeOK, QueueTypeOK
  <2>2. Len(batch') \in Nat /\ Len(events') \in Nat
    BY <2>1, LenProperties
  <2>3. /\ Len(Backlog') = Len(batch') + Len(events')
        /\ \A i \in 1..Len(batch') + Len(events') :
             Backlog'[i] = IF i <= Len(batch') THEN batch'[i] ELSE events'[i - Len(batch')]
    BY <2>1, ConcatProperties DEF Backlog
  <2>4. ASSUME NEW i \in 1..Len(batch') + Len(events') PROVE Backlog'[i].id \in StackEvents
    <3>1. CASE i <= Len(batch')
      BY <1>3, <2>2, <2>3, <3>1
    <3>2. CASE ~(i <= Len(batch'))
      <4>1. i - Len(batch') \in 1..Len(events')
        BY <2>2, <3>2
      <4>. QED  BY <1>4, <2>3, <3>2, <4>1
    <3>. QED  BY <3>1, <3>2
  <2>. QED  BY <2>3, <2>4
<1>6. \A i \in 1..Len(Backlog') :
        Backlog'[i].id \notin OfLink \cup {"OWNER_CONNECTED", "PEER_SECURITY_CHANGED"}
  BY <1>5 DEF OfLink, FromPeer, PairEvents, StackEvents
<1>7. Arriving' /\ EndIsLast' /\ Recorded'
  BY <1>6 DEF Arriving, EndIsLast, Recorded, OfLink, FromPeer
<1>. QED  BY <1>1, <1>5, <1>7 DEF LinkInv, ReadyEnabled

LEMMA LinkInvNext ==
  ASSUME Orderly, LinkInv, [Next]_vars
  PROVE  LinkInv'
<1>1. ReferenceInv' /\ RecordsInv'
  BY OrderlyCareful, ReferenceNext, RecordsNext DEF LinkInv
<1>. QED
  BY <1>1, LinkInvInner, LinkInvLinkUp, LinkInvLinkDown, LinkInvEnable, LinkInvDisable
  DEF Next, InnerStep

LEMMA LinkInvInit == Init => LinkInv
<1>. SUFFICES ASSUME Init PROVE LinkInv
  OBVIOUS
<1>1. OneReferencePerLink /\ AdvSlotFree /\ QuietDisabled
  BY DEF Init, OneReferencePerLink, Live, AdvSlotFree, NoAdv, QuietDisabled, Queued
<1>2. RecordsInv
  BY EndsOfOne DEF Init, RecordsInv, Ending, Live
<1>3. Backlog = <<>> /\ Len(<<>>) = 0
  BY ConcatEmptySeq DEF Init, Backlog
<1>4. Arriving /\ EndIsLast /\ Recorded
  BY <1>3 DEF Arriving, EndIsLast, Recorded
<1>5. ReadyEnabled
  BY DEF Init, ReadyEnabled, Enabled
<1>. QED  BY <1>1, <1>2, <1>4, <1>5, TypeInit DEF LinkInv, ReferenceInv

-----------------------------------------------------------------------------
(* The nearby timer and its work item.  The item that waits while the       *)
(* encryption of a link is handled was submitted before that encryption was *)
(* posted, or runs before the event work item that would handle the owner.  *)

Has(evs, id) == \E i \in 1..Len(evs) : evs[i].id = id

Before(q) == \A i, j \in 1..Len(q) : q[i] = "nearby" /\ q[j] = "events" => i < j

NearbyFirst ==
  Queued(workq, "nearby") =>
    /\ ~Has(batch, "OWNER_CONNECTED")
    /\ Has(batch, "PEER_SECURITY_CHANGED") \/ Has(events, "OWNER_CONNECTED") => Before(workq)

NearbyInv ==
  /\ WorkqueueOK(workq)
  /\ NearbyTimerArmed
  /\ ~(nearby_timer /\ Queued(workq, "nearby"))
  /\ NearbyFirst

LEMMA HasConcat ==
  ASSUME NEW a \in Seq(Event), NEW b \in Seq(Event), NEW id, Has(a \o b, id)
  PROVE  Has(a, id) \/ Has(b, id)
<1>1. /\ Len(a \o b) = Len(a) + Len(b)
      /\ \A i \in 1..Len(a) + Len(b) :
           (a \o b)[i] = IF i <= Len(a) THEN a[i] ELSE b[i - Len(a)]
  BY ConcatProperties
<1>2. Len(a) \in Nat /\ Len(b) \in Nat
  BY LenProperties
<1>3. PICK i \in 1..Len(a) + Len(b) : (a \o b)[i].id = id
  BY <1>1 DEF Has
<1>4. CASE i <= Len(a)
  BY <1>1, <1>2, <1>3, <1>4 DEF Has
<1>5. CASE ~(i <= Len(a))
  <2>1. i - Len(a) \in 1..Len(b)
    BY <1>2, <1>5
  <2>. QED  BY <1>1, <1>3, <1>5, <2>1 DEF Has
<1>. QED  BY <1>4, <1>5

LEMMA HasTail ==
  ASSUME NEW a \in Seq(Event), a # <<>>
  PROVE  /\ \A id : Has(Tail(a), id) => Has(a, id)
         /\ Has(a, Head(a).id)
<1>1. /\ Len(Tail(a)) = Len(a) - 1
      /\ \A i \in 1..Len(Tail(a)) : Tail(a)[i] = a[i + 1]
  BY HeadTailProperties
<1>2. Len(a) \in Nat \ {0} /\ Head(a) = a[1]
  BY EmptySeq
<1>3. \A i \in 1..Len(Tail(a)) : i + 1 \in 1..Len(a)
  BY <1>1, <1>2
<1>4. 1 \in 1..Len(a)
  BY <1>2
<1>. QED  BY <1>1, <1>2, <1>3, <1>4 DEF Has

(* Submitting another item, or running the first one, keeps the order.      *)
LEMMA BeforeSubmitted ==
  ASSUME NEW q, WorkqueueOK(q), Before(q), NEW item \in Names, item # "nearby"
  PROVE  Before(Submitted(q, item))
<1>1. CASE Queued(q, item)
  BY <1>1 DEF Submitted
<1>2. CASE ~Queued(q, item)
  <2>1. q \in Seq(Names)
    BY DEF WorkqueueOK
  <2>2. /\ Submitted(q, item) = Append(q, item)
        /\ Len(Append(q, item)) = Len(q) + 1
        /\ \A i \in 1..Len(q) : Append(q, item)[i] = q[i]
        /\ Append(q, item)[Len(q) + 1] = item
        /\ Len(q) \in Nat
    BY <1>2, <2>1, AppendProperties, LenProperties DEF Submitted
  <2>3. ASSUME NEW i \in 1..Len(q) + 1, NEW j \in 1..Len(q) + 1,
               Append(q, item)[i] = "nearby", Append(q, item)[j] = "events"
        PROVE  i < j
    <3>1. i \in 1..Len(q) /\ q[i] = "nearby"
      BY <2>2, <2>3
    <3>2. CASE j = Len(q) + 1
      BY <2>2, <3>1, <3>2
    <3>3. CASE j \in 1..Len(q)
      BY <2>2, <2>3, <3>1, <3>3 DEF Before
    <3>. QED  BY <2>2, <3>2, <3>3
  <2>. QED  BY <2>2, <2>3 DEF Before
<1>. QED  BY <1>1, <1>2

LEMMA BeforeTail ==
  ASSUME NEW q, WorkqueueOK(q), q # <<>>
  PROVE  Before(q) => Before(Tail(q))
<1>1. q \in Seq(Names)
  BY DEF WorkqueueOK
<1>2. /\ Len(Tail(q)) = Len(q) - 1
      /\ \A i \in 1..Len(Tail(q)) : Tail(q)[i] = q[i + 1]
      /\ Len(q) \in Nat
  BY <1>1, HeadTailProperties, LenProperties
<1>3. ASSUME Before(q), NEW i \in 1..Len(Tail(q)), NEW j \in 1..Len(Tail(q)),
             Tail(q)[i] = "nearby", Tail(q)[j] = "events"
      PROVE  i < j
  <2>1. i + 1 \in 1..Len(q) /\ j + 1 \in 1..Len(q)
    BY <1>2
  <2>2. q[i + 1] = "nearby" /\ q[j + 1] = "events"
    BY <1>2, <1>3
  <2>3. i + 1 < j + 1
    BY <1>3, <2>1, <2>2 DEF Before
  <2>. QED  BY <2>3
<1>. QED  BY <1>3 DEF Before

LEMMA QueuePosted ==
  ASSUME NEW q, WorkqueueOK(q), NEW evs, PostOn(q, evs)
  PROVE  /\ WorkqueueOK(workq')
         /\ Queued(workq', "nearby") <=> Queued(q, "nearby")
         /\ Before(q) => Before(workq')
<1>1. workq' = q \/ workq' = Submitted(q, "events")
  BY DEF PostOn
<1>2. Before(q) => Before(workq')
  BY <1>1, BeforeSubmitted DEF Names
<1>. QED  BY <1>2, PostedOnce

(* The work item that waits comes first after a step that handles an event  *)
(* or posts one: OWNER_CONNECTED is posted when an encryption is handled.   *)
LEMMA FirstPosted ==
  ASSUME TypeOK, WorkqueueOK(workq), NearbyFirst,
         NEW q, q = workq \/ (q = Tail(workq) /\ workq # <<>>),
         NEW evs \in Seq(Event), PostOn(q, evs),
         batch' = batch \/ (batch' = Tail(batch) /\ batch # <<>>),
         Has(evs, "OWNER_CONNECTED") => Has(batch, "PEER_SECURITY_CHANGED")
  PROVE  /\ WorkqueueOK(workq')
         /\ Queued(workq', "nearby") <=> Queued(q, "nearby")
         /\ NearbyFirst'
<1>1. batch \in Seq(Event) /\ events \in Seq(Event)
  BY DEF TypeOK, QueueTypeOK
<1>2. /\ WorkqueueOK(q)
      /\ Queued(q, "nearby") => Queued(workq, "nearby")
      /\ Before(workq) => Before(q)
  BY TailOnce, BeforeTail
<1>3. /\ WorkqueueOK(workq')
      /\ Queued(workq', "nearby") <=> Queued(q, "nearby")
      /\ Before(q) => Before(workq')
  BY <1>2, QueuePosted
<1>4. \A id : Has(batch', id) => Has(batch, id)
  BY <1>1, HasTail
<1>5. events' = events \o evs
  BY DEF PostOn
<1>6. Has(events', "OWNER_CONNECTED")
        => Has(events, "OWNER_CONNECTED") \/ Has(evs, "OWNER_CONNECTED")
  BY <1>1, <1>5, HasConcat
<1>7. NearbyFirst'
  <2>1. SUFFICES ASSUME Queued(workq', "nearby")
                 PROVE  /\ ~Has(batch', "OWNER_CONNECTED")
                        /\ Has(batch', "PEER_SECURITY_CHANGED") \/ Has(events', "OWNER_CONNECTED")
                             => Before(workq')
    BY DEF NearbyFirst, Queued, Has, Before
  <2>. QED  BY <1>2, <1>3, <1>4, <1>6, <2>1 DEF NearbyFirst
<1>. QED  BY <1>3, <1>7

(* The event work item starts only when no item waits before it.            *)
LEMMA FirstTaken ==
  ASSUME TypeOK, WorkqueueOK(workq), NearbyFirst, TakeEvents
  PROVE  /\ WorkqueueOK(workq')
         /\ Queued(workq', "nearby") <=> Queued(workq, "nearby")
         /\ NearbyFirst'
<1>1. /\ batch = <<>> /\ batch' = events /\ events' = <<>>
      /\ workq # <<>> /\ Head(workq) = "events" /\ workq' = Tail(workq)
  BY DEF TakeEvents, Between
<1>2. /\ WorkqueueOK(Tail(workq))
      /\ \A w : Queued(Tail(workq), w) <=> Queued(workq, w) /\ w # "events"
  BY <1>1, TailOnce
<1>3. Before(Tail(workq))
  BY <1>2 DEF Before, Queued
<1>4. ASSUME Queued(workq, "nearby"), Before(workq)
      PROVE  FALSE
  <2>1. workq \in Seq(Names)
    BY DEF WorkqueueOK
  <2>2. workq[1] = "events" /\ 1 \in 1..Len(workq)
    BY <1>1, <2>1, EmptySeq, LenProperties
  <2>3. PICK i \in 1..Len(workq) : workq[i] = "nearby"
    BY <1>4 DEF Queued
  <2>4. i < 1
    BY <1>4, <2>2, <2>3 DEF Before
  <2>. QED  BY <2>3, <2>4
<1>5. NearbyFirst'
  <2>1. SUFFICES ASSUME Queued(Tail(workq), "nearby")
                 PROVE  /\ ~Has(batch', "OWNER_CONNECTED")
                        /\ Has(batch', "PEER_SECURITY_CHANGED") \/ Has(events', "OWNER_CONNECTED")
                             => Before(workq')
    BY <1>1 DEF NearbyFirst, Queued, Has, Before
  <2>. QED  BY <1>1, <1>2, <1>3, <1>4, <2>1 DEF NearbyFirst
<1>. QED  BY <1>1, <1>2, <1>5

(* When the timer expires no owner is expected, but for "late_nearby".      *)
LEMMA FirstExpired ==
  ASSUME Orderly, TypeOK, WorkqueueOK(workq), nearby_separated_timeout_handle
  PROVE  WorkqueueOK(workq') /\ Queued(workq', "nearby") /\ NearbyFirst'
<1>1. ~owner_expected /\ workq' = Submitted(workq, "nearby") /\ UNCHANGED <<batch, events>>
  BY OrderlyCareful DEF nearby_separated_timeout_handle
<1>2. batch \in Seq(Event) /\ events \in Seq(Event)
  BY DEF TypeOK, QueueTypeOK
<1>3. ASSUME NEW evs \in Seq(Event), NEW i \in 1..Len(evs),
             evs[i].id \in {"PEER_SECURITY_CHANGED", "OWNER_CONNECTED"}
      PROVE  evs[i].conn \in Slots
  <2>1. evs[i] \in Event /\ evs[i].id \notin StackEvents
    BY <1>3, ElementOfSeq DEF StackEvents
  <2>. QED  BY <2>1 DEF Event
<1>4. /\ ~Has(batch, "PEER_SECURITY_CHANGED") /\ ~Has(batch, "OWNER_CONNECTED")
      /\ ~Has(events, "OWNER_CONNECTED")
  BY <1>1, <1>2, <1>3 DEF owner_expected, Pending, Has
<1>5. NearbyFirst'
  BY <1>1, <1>4 DEF NearbyFirst, Has
<1>6. "nearby" \in Names
  BY DEF Names
<1>. QED  BY <1>1, <1>5, <1>6, SubmittedOnce

(* An event that is handled is gone.                                        *)
LEMMA HandlingTakes ==
  ASSUME TypeOK, NEW id, Handling(id)
  PROVE  batch \in Seq(Event) /\ batch # <<>> /\ batch' = Tail(batch) /\ batch' # batch
<1>1. batch \in Seq(Event) /\ batch # <<>> /\ batch' = Tail(batch)
  BY DEF Handling, TypeOK, QueueTypeOK
<1>2. Len(Tail(batch)) = Len(batch) - 1 /\ Len(batch) \in Nat
  BY <1>1, HeadTailProperties, LenProperties
<1>3. Len(Tail(batch)) # Len(batch)
  BY <1>2
<1>4. Tail(batch) # batch
  BY <1>3
<1>. QED  BY <1>1, <1>4

LEMMA FirstHere ==
  ASSUME TypeOK, WorkqueueOK(workq), NearbyFirst,
         NEW evs \in Seq(Event), PostOn(workq, evs),
         batch' = batch \/ (batch' = Tail(batch) /\ batch # <<>>),
         Has(evs, "OWNER_CONNECTED") => Has(batch, "PEER_SECURITY_CHANGED")
  PROVE  /\ WorkqueueOK(workq')
         /\ Queued(workq', "nearby") <=> Queued(workq, "nearby")
         /\ NearbyFirst'
<1>. DEFINE q == workq
<1>1. q = workq \/ (q = Tail(workq) /\ workq # <<>>)
  OBVIOUS
<1>2. PostOn(q, evs)
  OBVIOUS
<1>. HIDE DEF q
<1>3. /\ WorkqueueOK(workq')
      /\ Queued(workq', "nearby") <=> Queued(q, "nearby")
      /\ NearbyFirst'
  BY <1>1, <1>2, FirstPosted
<1>. QED  BY <1>3 DEF q

LEMMA FirstRun ==
  ASSUME TypeOK, WorkqueueOK(workq), NearbyFirst, workq # <<>>,
         NEW evs \in Seq(Event), PostOn(Tail(workq), evs), batch' = batch,
         ~Has(evs, "OWNER_CONNECTED")
  PROVE  /\ WorkqueueOK(workq')
         /\ Queued(workq', "nearby") <=> Queued(Tail(workq), "nearby")
         /\ NearbyFirst'
<1>. DEFINE q == Tail(workq)
<1>1. q = workq \/ (q = Tail(workq) /\ workq # <<>>)
  OBVIOUS
<1>2. PostOn(q, evs)
  OBVIOUS
<1>. HIDE DEF q
<1>3. /\ WorkqueueOK(workq')
      /\ Queued(workq', "nearby") <=> Queued(q, "nearby")
      /\ NearbyFirst'
  BY <1>1, <1>2, FirstPosted
<1>. QED  BY <1>3 DEF q

(* What the inner steps make of the workqueue.                              *)
LEMMA InnerQueue ==
  ASSUME Orderly, TypeOK, WorkqueueOK(workq), NearbyFirst, InnerStep
  PROVE  /\ WorkqueueOK(workq') /\ NearbyFirst'
         /\ IF nearby_timeout THEN Queued(workq', "nearby")
            ELSE IF nearby_work THEN Queued(workq, "nearby") /\ ~Queued(workq', "nearby")
            ELSE Queued(workq', "nearby") <=> Queued(workq, "nearby")
<1>0. ASSUME HandleEvent PROVE ~nearby_timeout /\ ~nearby_work
  <2>1. PICK id : Handling(id)
    BY <1>0, HandlerPosts
  <2>2. batch' # batch
    BY <2>1, HandlingTakes
  <2>. QED
    BY <2>2 DEF nearby_timeout, nearby_separated_timeout_handle, nearby_work,
                nearby_separated_work_handle, Running
<1>1. CASE HandleEvent
  <2>1. PICK evs \in Seq(Event) : PostOn(workq, evs) /\ \A i \in 1..Len(evs) : Legitimate(evs[i])
    BY <1>1, HandlerPosts, Zenon DEF Posts
  <2>2. batch \in Seq(Event) /\ batch # <<>> /\ batch' = Tail(batch)
    BY <1>1, HandledFirst DEF TypeOK, QueueTypeOK
  <2>3. ASSUME Has(evs, "OWNER_CONNECTED") PROVE Has(batch, "PEER_SECURITY_CHANGED")
    <3>1. PICK i \in 1..Len(evs) : evs[i].id = "OWNER_CONNECTED"
      BY <2>3 DEF Has
    <3>2. owner_secured
      BY <2>1, <3>1 DEF Legitimate, StackEvents, ConfigEvents, PairEvents
    <3>3. Head(batch).id = "PEER_SECURITY_CHANGED"
      BY <3>2 DEF owner_secured, Handling
    <3>. QED  BY <2>2, <3>3, HasTail
  <2>. QED  BY <1>0, <1>1, <2>1, <2>2, <2>3, FirstHere
<1>2. CASE ~HandleEvent
  <2>0. ASSUME NEW q, Posts(q) PROVE
        \E evs \in Seq(Event) : PostOn(q, evs) /\ ~Has(evs, "OWNER_CONNECTED")
    <3>1. PICK evs \in Seq(Event) : PostOn(q, evs) /\ \A i \in 1..Len(evs) : Legitimate(evs[i])
      BY <2>0, Zenon DEF Posts
    <3>2. ~owner_secured
      BY <1>2 DEF HandleEvent
    <3>3. ~Has(evs, "OWNER_CONNECTED")
      BY <3>1, <3>2 DEF Legitimate, Has, StackEvents, ConfigEvents, PairEvents
    <3>. QED  BY <3>1, <3>3
  <2>1. CASE event_work
    <3>1. TakeEvents
      BY <2>1 DEF event_work
    <3>2. ~nearby_timeout /\ ~nearby_work
      <4>1. workq # <<>> /\ Head(workq) = "events" /\ workq' = Tail(workq)
        BY <3>1 DEF TakeEvents
      <4>2. ~nearby_work
        BY <4>1 DEF nearby_work, nearby_separated_work_handle, Running
      <4>3. nearby_timer' = nearby_timer
        BY <2>1 DEF event_work, stateVars, nearbyVars
      <4>. QED  BY <4>2, <4>3 DEF nearby_timeout, nearby_separated_timeout_handle
    <3>. QED  BY <3>1, <3>2, FirstTaken
  <2>2. CASE nearby_timeout
    <3>1. nearby_separated_timeout_handle
      BY <2>2 DEF nearby_timeout
    <3>. QED  BY <2>2, <3>1, FirstExpired
  <2>3. CASE nearby_work
    <3>1. /\ batch' = batch /\ workq # <<>> /\ Head(workq) = "nearby"
          /\ state_set(Tail(workq), limit_check, NULL, "SEPARATED")
      BY <2>3 DEF nearby_work, nearby_separated_work_handle, Running
    <3>2. Announces(Tail(workq))
      BY <3>1, LimitCheckType, StateSetAnnounces
    <3>3. PICK evs \in Seq(Event) : PostOn(Tail(workq), evs) /\ ~Has(evs, "OWNER_CONNECTED")
      BY <2>0, <3>2, PostsNothing
    <3>4. Queued(workq, "nearby") /\ ~Queued(Tail(workq), "nearby")
      <4>1. workq \in Seq(Names)
        BY DEF WorkqueueOK
      <4>2. 1 \in 1..Len(workq) /\ workq[1] = "nearby"
        BY <3>1, <4>1, EmptySeq, LenProperties
      <4>. QED  BY <3>1, <4>2, TailOnce DEF Queued
    <3>5. ~nearby_timeout
      <4>1. Queued(Submitted(workq, "nearby"), "nearby")
        BY SubmittedOnce DEF Names
      <4>2. ~Queued(workq', "nearby")
        BY <3>1, <3>3, <3>4, FirstRun
      <4>. QED  BY <4>1, <4>2 DEF nearby_timeout, nearby_separated_timeout_handle
    <3>. QED  BY <2>3, <3>1, <3>3, <3>4, <3>5, FirstRun
  <2>. DEFINE Same == /\ WorkqueueOK(workq') /\ NearbyFirst'
                      /\ Queued(workq', "nearby") <=> Queued(workq, "nearby")
  <2>. SUFFICES ASSUME ~nearby_timeout, ~nearby_work, ~event_work PROVE Same
    BY <2>1, <2>2, <2>3
  <2>4. CASE UNCHANGED queueVars
    BY <2>4 DEF queueVars, NearbyFirst, Queued, Has, Before
  <2>5. CASE key_timeout
    <3>1. workq' = Submitted(workq, "keys") /\ UNCHANGED <<batch, events>>
      BY <2>5 DEF key_timeout, key_rotation_timeout_handle
    <3>2. /\ WorkqueueOK(workq')
          /\ Queued(workq', "nearby") <=> Queued(workq, "nearby")
      BY <3>1, SubmittedOnce DEF Names
    <3>3. Before(workq) => Before(workq')
      BY <3>1, BeforeSubmitted DEF Names
    <3>4. NearbyFirst'
      BY <3>1, <3>2, <3>3 DEF NearbyFirst, Has, Queued, Before
    <3>. QED  BY <3>2, <3>4
  <2>6. CASE key_work
    <3>1. /\ \/ PostOn(Tail(workq), <<>>)
             \/ \E a \in {0, 1} : PostOn(Tail(workq), <<EvArg("PUBLIC_KEYS_CHANGED", NULL, a)>>)
          /\ batch' = batch /\ workq # <<>> /\ Head(workq) = "keys"
      BY <2>6 DEF key_work, key_rotation_work_handle, Running
    <3>2. \A a \in {0, 1} : /\ EvArg("PUBLIC_KEYS_CHANGED", NULL, a) \in Event
                           /\ Legitimate(EvArg("PUBLIC_KEYS_CHANGED", NULL, a))
      BY EventType DEF StackEvents, EvArg, Legitimate
    <3>3. Posts(Tail(workq))
      BY <3>1, <3>2, AnnouncesNothing, PostsNothing, PostsOne
    <3>4. PICK evs \in Seq(Event) : PostOn(Tail(workq), evs) /\ ~Has(evs, "OWNER_CONNECTED")
      BY <2>0, <3>3
    <3>5. Queued(Tail(workq), "nearby") <=> Queued(workq, "nearby")
      BY <3>1, TailOnce
    <3>. QED  BY <3>1, <3>4, <3>5, FirstRun
  <2>7. ASSUME Posts(workq), batch' = batch PROVE Same
    <3>1. PICK evs \in Seq(Event) : PostOn(workq, evs) /\ ~Has(evs, "OWNER_CONNECTED")
      BY <2>0, <2>7
    <3>. QED  BY <2>7, <3>1, FirstHere
  <2>8. CASE \/ max_conn_work \/ persistent_conn_work \/ pairing_mode_work
             \/ paired_adv \/ pairing_mode_request \/ UNCHANGED vars
    BY <2>4, <2>8
    DEF max_conn_work, max_conn_work_handle, persistent_conn_work,
        persistent_conn_work_handle, pairing_mode_work,
        pairing_mode_timeout_work_handle, paired_adv, fmna_paired_adv_disable,
        fmna_paired_adv_enable, pairing_mode_request, fmna_pairing_mode_cancel,
        fmna_pairing_mode_enter, vars
  <2>9. ASSUME NEW s \in Slots, conn_timeout_work(s) PROVE Same
    BY <2>4, <2>9 DEF conn_timeout_work, conn_timeout_work_handle
  <2>10. ASSUME NEW s \in Slots,
                link_secured(s) \/ security_error(s) \/ config_cp_write(s) \/ pairing_cp_write(s)
         PROVE  Same
    <3>1. \/ UNCHANGED queueVars
          \/ batch' = batch /\ Posts(workq)
      BY <2>10, PeerPosts
    <3>. QED  BY <2>4, <2>7, <3>1
  <2>. QED  BY <1>2, <2>5, <2>6, <2>8, <2>9, <2>10 DEF InnerStep
<1>. QED  BY <1>1, <1>2

-----------------------------------------------------------------------------
(* Owners.  OWNER_CONNECTED waits for links of owners of a paired accessory *)
(* only; while an owner is connected outside CONNECTED it is on its way;    *)
(* PAIRING_COMPLETE of a candidate waits only until the accessory is paired. *)

OwnerArriving ==
  \A i \in 1..Len(Backlog) :
    Backlog[i].id = "OWNER_CONNECTED" => is_paired /\ Backlog[i].conn \in owner

OwnersAnnounced ==
  state # "CONNECTED" =>
    \A t \in owner \cap Live :
      \E i \in 1..Len(Backlog) : Backlog[i].id = "OWNER_CONNECTED" /\ Backlog[i].conn = t

CompleteUnpaired ==
  is_paired /\ Has(Backlog, "PAIRING_COMPLETE") => pairing_conn = NULL

OwnerInv ==
  /\ LinkInv
  /\ NearbyInv
  /\ Enabled => owner \subseteq is_valid /\ OwnerArriving /\ OwnersAnnounced
  /\ CompleteUnpaired
  /\ state = "CONNECTED" => owner # {}

LEMMA ArrivingOwners ==
  ASSUME TypeOK, Arriving, OwnerArriving,
         NEW k \in {0, 1}, NEW evs \in Seq(Event), Flow(k, evs),
         owner \cap Live \subseteq owner', is_paired => is_paired' \/ owner \cap Live = {},
         \A i \in 1..Len(evs) :
           evs[i].id = "OWNER_CONNECTED" => is_paired' /\ evs[i].conn \in owner'
  PROVE  OwnerArriving'
<1>1. SUFFICES ASSUME NEW i \in 1..Len(Backlog'), Backlog'[i].id = "OWNER_CONNECTED"
               PROVE  is_paired' /\ Backlog'[i].conn \in owner'
  BY DEF OwnerArriving
<1>2. CASE i + k \in 1..Len(Backlog) /\ Backlog'[i] = Backlog[i + k]
  <2>1. is_paired /\ Backlog[i + k].conn \in owner \cap Live
    BY <1>1, <1>2 DEF OwnerArriving, Arriving
  <2>. QED  BY <1>2, <2>1
<1>3. CASE \E l \in 1..Len(evs) : Backlog'[i] = evs[l]
  BY <1>1, <1>3
<1>. QED  BY <1>2, <1>3, FlowSplit

(* An owner that waits to be announced keeps waiting while another event is *)
(* handled.                                                                 *)
LEMMA AnnouncedOwners ==
  ASSUME TypeOK, OwnersAnnounced, state # "CONNECTED",
         NEW k \in {0, 1}, NEW evs \in Seq(Event), Flow(k, evs),
         k = 1 => Backlog[1].id # "OWNER_CONNECTED",
         \A t \in owner' \cap Live' :
           \/ t \in owner \cap Live
           \/ \E i \in 1..Len(evs) : evs[i].id = "OWNER_CONNECTED" /\ evs[i].conn = t
  PROVE  OwnersAnnounced'
<1>1. SUFFICES ASSUME NEW t \in owner' \cap Live'
               PROVE  \E i \in 1..Len(Backlog') :
                        Backlog'[i].id = "OWNER_CONNECTED" /\ Backlog'[i].conn = t
  BY DEF OwnersAnnounced
<1>2. CASE t \in owner \cap Live
  <2>1. PICK i \in 1..Len(Backlog) : Backlog[i].id = "OWNER_CONNECTED" /\ Backlog[i].conn = t
    BY <1>2 DEF OwnersAnnounced
  <2>2. i > k
    BY <2>1
  <2>3. i - k \in 1..Len(Backlog') /\ Backlog'[i - k] = Backlog[i]
    BY <2>2, FlowForward
  <2>. QED  BY <2>1, <2>3
<1>3. CASE \E i \in 1..Len(evs) : evs[i].id = "OWNER_CONNECTED" /\ evs[i].conn = t
  <2>1. PICK i \in 1..Len(evs) : evs[i].id = "OWNER_CONNECTED" /\ evs[i].conn = t
    BY <1>3
  <2>2. Len(Backlog) \in Nat /\ Len(evs) \in Nat
    BY BacklogType, LenProperties
  <2>3. /\ k <= Len(Backlog)
        /\ Len(Backlog') = Len(Backlog) - k + Len(evs)
        /\ Backlog'[Len(Backlog) - k + i] = evs[i]
    BY DEF Flow
  <2>4. Len(Backlog) - k + i \in 1..Len(Backlog')
    BY <2>2, <2>3
  <2>. QED  BY <2>1, <2>3, <2>4
<1>. QED  BY <1>1, <1>2, <1>3

LEMMA CompleteKept ==
  ASSUME TypeOK, CompleteUnpaired,
         NEW k \in {0, 1}, NEW evs \in Seq(Event), Flow(k, evs),
         is_paired' => is_paired, pairing_conn' \in {pairing_conn, NULL},
         is_paired => ~Has(evs, "PAIRING_COMPLETE")
  PROVE  CompleteUnpaired'
<1>1. SUFFICES ASSUME is_paired', Has(Backlog, "PAIRING_COMPLETE")'
               PROVE  pairing_conn' = NULL
  BY DEF CompleteUnpaired
<1>2. PICK i \in 1..Len(Backlog') : Backlog'[i].id = "PAIRING_COMPLETE"
  BY <1>1 DEF Has
<1>3. CASE i + k \in 1..Len(Backlog) /\ Backlog'[i] = Backlog[i + k]
  BY <1>1, <1>2, <1>3 DEF Has, CompleteUnpaired
<1>4. CASE \E l \in 1..Len(evs) : Backlog'[i] = evs[l]
  BY <1>1, <1>2, <1>4 DEF Has
<1>. QED  BY <1>3, <1>4, FlowSplit

(* A disabled stack.                                                        *)
LEMMA OwnerInvDisabled ==
  ASSUME LinkInv', WorkqueueOK(workq)', ~Enabled'
  PROVE  OwnerInv'
<1>1. state' = "DISABLED" /\ ~nearby_timer' /\ ~Queued(workq, "nearby")'
  BY DEF Enabled, LinkInv, ReferenceInv, QuietDisabled
<1>2. NearbyInv'
  BY <1>1 DEF NearbyInv, NearbyTimerArmed, NearbyFirst
<1>3. ~is_paired'
  BY <1>1 DEF is_paired
<1>. QED  BY <1>1, <1>2, <1>3 DEF OwnerInv, CompleteUnpaired

-----------------------------------------------------------------------------
(* The steps that change neither the state nor the owners.                  *)

pairing_complete == pair_event /\ pairing_complete_cmd_handle

Special ==
  \/ peer_disconnected \/ owner_secured \/ owner_connected \/ pairing_complete
  \/ nearby_work

LEMMA Settled ==
  ASSUME InnerStep, ~Special
  PROVE  /\ UNCHANGED <<state, owner, is_valid>>
         /\ nearby_timeout \/ nearby_timer' = nearby_timer
         /\ pairing_conn' = pairing_conn \/ candidate_secured
<1>1. CASE HandleEvent
  <2>1. CASE peer_connected \/ candidate_secured \/ max_conn_changed \/ state_changed
    BY <2>1
    DEF peer_connected, candidate_secured, max_conn_changed, state_changed, recordVars,
        connVars, stateVars, nearbyVars, pairVars
  <2>2. CASE public_keys_changed
    BY <2>2
    DEF public_keys_changed, fmna_public_keys_changed, connVars, recordVars, nearbyVars,
        pairVars
  <2>3. CASE config_event
    BY <2>3
    DEF config_event, persistent_conn_request_handle, max_connections_request_handle,
        nearby_timeout_set_request_handle, unpair_request_handle, connVars, recordVars,
        stateVars, nearbyVars, pairVars
  <2>4. CASE pair_event
    BY <2>4
    DEF Special, pairing_complete, pair_event, pairing_cmd_rejected, initiate_pairing_cmd_handle,
        finalize_pairing_cmd_handle, connVars, recordVars, stateVars, nearbyVars, pairVars
  <2>. QED  BY <1>1, <2>1, <2>2, <2>3, <2>4 DEF HandleEvent, Special
<1>2. CASE \/ event_work \/ max_conn_work \/ persistent_conn_work \/ pairing_mode_work
           \/ key_timeout \/ key_work \/ paired_adv \/ pairing_mode_request
           \/ UNCHANGED vars
  BY <1>2
  DEF event_work, max_conn_work, max_conn_work_handle, persistent_conn_work,
      persistent_conn_work_handle, pairing_mode_work, pairing_mode_timeout_work_handle,
      key_timeout, key_rotation_timeout_handle, key_work, key_rotation_work_handle,
      paired_adv, fmna_paired_adv_disable, fmna_paired_adv_enable, pairing_mode_request,
      fmna_pairing_mode_cancel, fmna_pairing_mode_enter, vars, connVars, recordVars,
      stateVars, nearbyVars, pairVars, aboveConn, aboveState
<1>3. CASE nearby_timeout
  BY <1>3
  DEF nearby_timeout, nearby_separated_timeout_handle, connVars, recordVars, aboveState,
      pairVars
<1>4. ASSUME NEW s \in Slots,
             \/ link_secured(s) \/ security_error(s) \/ conn_timeout_work(s)
             \/ config_cp_write(s) \/ pairing_cp_write(s)
      PROVE  UNCHANGED <<state, owner, is_valid, nearby_timer, pairing_conn>>
  BY <1>4
  DEF link_secured, secured_cb, security_error, security_failed_cb, conn_timeout_work,
      conn_timeout_work_handle, config_cp_write, pairing_cp_write, connVars, recordVars,
      stateVars, nearbyVars, pairVars, aboveConn
<1>. QED  BY <1>1, <1>2, <1>3, <1>4 DEF InnerStep, Special

LEMMA OwnerInvSettled ==
  ASSUME Orderly, OwnerInv, InnerStep, ~Special, Enabled, LinkInv'
  PROVE  OwnerInv'
<1>1. /\ TypeOK /\ Arriving /\ WorkqueueOK(workq) /\ NearbyFirst /\ NearbyTimerArmed
      /\ ~(nearby_timer /\ Queued(workq, "nearby"))
      /\ owner \subseteq is_valid /\ OwnerArriving /\ OwnersAnnounced /\ CompleteUnpaired
  BY DEF OwnerInv, LinkInv, ReferenceInv, NearbyInv
<1>2. /\ UNCHANGED <<state, owner, is_valid>>
      /\ nearby_timeout \/ nearby_timer' = nearby_timer
      /\ pairing_conn' = pairing_conn \/ candidate_secured
      /\ ~nearby_work /\ ~owner_secured
  BY Settled DEF Special
<1>3. Live' = Live
  BY <1>1, SteadySteps DEF Steady
<1>4. NearbyInv'
  <2>1. nearby_timeout => nearby_timer /\ ~nearby_timer'
    BY DEF nearby_timeout, nearby_separated_timeout_handle
  <2>. QED  BY <1>1, <1>2, <2>1, InnerQueue DEF NearbyInv, NearbyTimerArmed
<1>5. PICK k \in {0, 1} : \E evs \in Seq(Event) :
        /\ Flow(k, evs)
        /\ \A i \in 1..Len(evs) : Legitimate(evs[i])
        /\ k = 1 => HandleEvent
  BY <1>1, HandlerFlow, WorkFlow
<1>6. PICK evs \in Seq(Event) : Flow(k, evs) /\ \A i \in 1..Len(evs) : Legitimate(evs[i])
  BY <1>5
<1>7. \A i \in 1..Len(evs) :
        /\ evs[i].id # "OWNER_CONNECTED"
        /\ evs[i].id = "PAIRING_COMPLETE" => ~is_paired
  BY <1>2, <1>6 DEF Legitimate, StackEvents, ConfigEvents, PairEvents
<1>8. k = 1 => Backlog[1].id # "OWNER_CONNECTED"
  <2>1. SUFFICES ASSUME k = 1, Backlog[1].id = "OWNER_CONNECTED" PROVE FALSE
    OBVIOUS
  <2>2. HandleEvent /\ Head(batch).id = "OWNER_CONNECTED"
    BY <1>1, <1>5, <2>1, HandledFirst
  <2>. QED
    BY <2>2
    DEF HandleEvent, peer_connected, peer_disconnected, owner_secured, candidate_secured,
        max_conn_changed, state_changed, public_keys_changed, config_event, pair_event,
        pairing_cmd_rejected, initiate_pairing_cmd_handle, finalize_pairing_cmd_handle,
        pairing_complete_cmd_handle, pairing_complete, PairEvents, Handling, Special
<1>9. OwnerArriving'
  BY <1>1, <1>2, <1>6, <1>7, ArrivingOwners DEF is_paired
<1>10. state # "CONNECTED" => OwnersAnnounced'
  BY <1>1, <1>2, <1>3, <1>6, <1>8, AnnouncedOwners
<1>11. state = "CONNECTED" => OwnersAnnounced'
  BY <1>2 DEF OwnersAnnounced
<1>12. CompleteUnpaired'
  <2>1. CASE candidate_secured
    <3>1. ~is_paired
      BY <2>1 DEF candidate_secured
    <3>. QED  BY <1>2, <3>1 DEF CompleteUnpaired, is_paired
  <2>2. CASE pairing_conn' = pairing_conn
    BY <1>1, <1>2, <1>6, <1>7, <2>2, CompleteKept DEF is_paired, Has
  <2>. QED  BY <1>2, <2>1, <2>2
<1>13. state' = "CONNECTED" => owner' # {}
  BY <1>2 DEF OwnerInv
<1>. QED  BY <1>1, <1>2, <1>4, <1>9, <1>10, <1>11, <1>12, <1>13 DEF OwnerInv

(* Which transition state_set() takes.                                      *)
LEMMA FromConnected ==
  ASSUME state = "CONNECTED", NEW q, NEW below, NEW c, NEW new \in {"UNPAIRED", "NEARBY"},
         state_set(q, below, c, new)
  PROVE  /\ new = "UNPAIRED" => enter_unpaired(q, new)
         /\ new = "NEARBY"   => enter_nearby(q, c, new) /\ UNCHANGED keyVars
         /\ new = "UNPAIRED" => state' = "UNPAIRED"
         /\ new = "NEARBY"   => state' \in {"NEARBY", "SEPARATED"}
         /\ nearby_timer' = (IF state' = "NEARBY" THEN TRUE ELSE nearby_timer)
<1>1. \/ enter_unpaired(q, new)
      \/ enter_nearby(q, c, new) /\ UNCHANGED keyVars
  BY DEF state_set, unchanged_state, forbidden_transition, enter_connected,
         enter_separated, enter_disabled
<1>2. enter_unpaired(q, new) =>
        new = "UNPAIRED" /\ state' = "UNPAIRED" /\ nearby_timer' = nearby_timer
  BY DEF enter_unpaired
<1>3. enter_nearby(q, c, new) =>
        /\ new = "NEARBY" /\ state' \in {"NEARBY", "SEPARATED"}
        /\ nearby_timer' = (IF state' = "NEARBY" THEN TRUE ELSE nearby_timer)
  BY DEF enter_nearby
<1>. QED  BY <1>1, <1>2, <1>3

LEMMA ToConnected ==
  ASSUME NEW q, NEW below, NEW c, state_set(q, below, c, "CONNECTED")
  PROVE  /\ state' = "CONNECTED"
         /\ UNCHANGED keyVars
         /\ state = "CONNECTED" => unchanged_state(q, below, "CONNECTED")
         /\ state # "CONNECTED" => enter_connected(q, below, "CONNECTED")
         /\ nearby_timer' = (state # "NEARBY" /\ nearby_timer) \/ nearby_timer' = nearby_timer
         /\ state = "NEARBY" => nearby_timer' = FALSE
<1>1. \/ unchanged_state(q, below, "CONNECTED") /\ UNCHANGED keyVars
      \/ enter_connected(q, below, "CONNECTED") /\ UNCHANGED keyVars
  BY DEF state_set, forbidden_transition, enter_unpaired, enter_nearby,
         enter_separated, enter_disabled
<1>. QED
  BY <1>1 DEF unchanged_state, enter_connected, nearby_timer_stop, nearbyVars

LEMMA ToSeparated ==
  ASSUME state = "NEARBY", NEW q, NEW below, NEW c, state_set(q, below, c, "SEPARATED")
  PROVE  /\ enter_separated(q, "SEPARATED")
         /\ state' = "SEPARATED"
         /\ UNCHANGED <<modeVars, nearbyVars, keyVars>>
<1>1. enter_separated(q, "SEPARATED") /\ UNCHANGED keyVars
  BY DEF state_set, unchanged_state, forbidden_transition, enter_unpaired,
         enter_connected, enter_nearby, enter_disabled
<1>. QED  BY <1>1 DEF enter_separated

(* Links and records, while the stack is enabled. *)
LEMMA EnabledRecords ==
  ASSUME OwnerInv, Enabled
  PROVE  /\ TypeOK /\ Arriving /\ EndIsLast /\ Recorded
         /\ WorkqueueOK(workq) /\ NearbyFirst /\ NearbyTimerArmed
         /\ ~(nearby_timer /\ Queued(workq, "nearby"))
         /\ Live \subseteq is_valid /\ is_valid \ Live \subseteq Ending
         /\ Ending \cap Live = {}
         /\ owner \subseteq is_valid /\ OwnerArriving /\ OwnersAnnounced /\ CompleteUnpaired
         /\ state = "CONNECTED" => owner # {}
BY DEF OwnerInv, LinkInv, ReferenceInv, RecordsInv, NearbyInv, Enabled

(* The last owner of CONNECTED has left when nobody else is an owner.       *)
LEMMA LastOwner ==
  ASSUME OwnerInv, Enabled, NEW s, all_owners_disconnected(s)
  PROVE  owner \cap Live \subseteq {s}
BY EnabledRecords DEF all_owners_disconnected, Held

LEMMA OwnerInvDisconnected ==
  ASSUME Orderly, OwnerInv, Enabled, peer_disconnected, LinkInv'
  PROVE  OwnerInv'
<1>. DEFINE s == Head(batch).conn
<1>1. TypeOK /\ HandleEvent /\ InnerStep
  BY EnabledRecords DEF HandleEvent, InnerStep
<1>2. 1 \in 1..Len(Backlog) /\ Backlog[1].id = "PEER_DISCONNECTED" /\ Backlog[1].conn = s
  BY <1>1, HandledFirst DEF peer_disconnected, Handling
<1>3. s \in Slots
  BY <1>1, TypeSplit, HandlingType DEF peer_disconnected, PeerEvents, LinkEvents
<1>4. s \notin Live
  BY <1>1, <1>2, <1>3, EndingWaits, EnabledRecords
<1>5. /\ is_valid' = is_valid \ {s} /\ owner' = owner \ {s} /\ Live' = Live
      /\ pairing_conn' \in {pairing_conn, NULL}
  BY <1>1, SteadySteps DEF peer_disconnected, record_cleared, pairing_ended, Steady
<1>6. PICK evs \in Seq(Event) : Flow(1, evs) /\ \A i \in 1..Len(evs) : Legitimate(evs[i])
  BY <1>1, HandlerFlow
<1>7. ~owner_secured /\ ~nearby_work /\ ~nearby_timeout
  <2>1. Handling("PEER_DISCONNECTED") /\ Head(batch).id = "PEER_DISCONNECTED"
    BY DEF peer_disconnected, Handling
  <2>2. batch' # batch
    BY <1>1, <2>1, HandlingTakes
  <2>. QED
    BY <2>1, <2>2
    DEF owner_secured, Handling, nearby_work, nearby_separated_work_handle, Running,
        nearby_timeout, nearby_separated_timeout_handle
<1>8. \A i \in 1..Len(evs) :
        /\ evs[i].id # "OWNER_CONNECTED"
        /\ evs[i].id = "PAIRING_COMPLETE" => ~is_paired
  BY <1>6, <1>7 DEF Legitimate, StackEvents, ConfigEvents, PairEvents
<1>9. /\ WorkqueueOK(workq') /\ NearbyFirst'
      /\ Queued(workq', "nearby") <=> Queued(workq, "nearby")
  BY <1>1, <1>7, EnabledRecords, InnerQueue
<1>10. ASSUME is_paired' => is_paired,
              is_paired => is_paired' \/ owner \cap Live = {},
              NearbyTimerArmed', ~(nearby_timer /\ Queued(workq, "nearby"))', OwnersAnnounced',
              state' = "CONNECTED" => owner' # {}
       PROVE  OwnerInv'
  <2>1. NearbyInv'
    BY <1>9, <1>10 DEF NearbyInv
  <2>2. OwnerArriving'
    BY <1>1, <1>4, <1>5, <1>6, <1>8, <1>10, ArrivingOwners, EnabledRecords
  <2>3. CompleteUnpaired'
    BY <1>1, <1>5, <1>6, <1>8, <1>10, CompleteKept, EnabledRecords DEF Has
  <2>4. owner' \subseteq is_valid'
    BY <1>5, EnabledRecords
  <2>. QED  BY <1>10, <2>1, <2>2, <2>3, <2>4 DEF OwnerInv
<1>11. CASE /\ all_owners_disconnected(s)
            /\ state_set(workq, limit_check, s, IF unpair_pending THEN "UNPAIRED" ELSE "NEARBY")
  <2>1. state = "CONNECTED" /\ is_paired
    BY <1>11 DEF all_owners_disconnected, is_paired
  <2>2. ~nearby_timer /\ ~Queued(workq, "nearby")
    BY <2>1, EnabledRecords DEF NearbyTimerArmed
  <2>3. owner \cap Live = {} /\ owner' \cap Live' = {}
    BY <1>4, <1>5, <1>11, LastOwner
  <2>4. PICK new \in {"UNPAIRED", "NEARBY"} : state_set(workq, limit_check, s, new)
    BY <1>11
  <2>5. state' # "CONNECTED" /\ nearby_timer' = (IF state' = "NEARBY" THEN TRUE ELSE nearby_timer)
    BY <2>1, <2>4, FromConnected
  <2>6. NearbyTimerArmed' /\ ~(nearby_timer /\ Queued(workq, "nearby"))'
    BY <1>9, <2>2, <2>5 DEF NearbyTimerArmed
  <2>7. OwnersAnnounced'
    BY <2>3 DEF OwnersAnnounced
  <2>. QED  BY <1>10, <2>1, <2>3, <2>5, <2>6, <2>7
<1>12. CASE ~all_owners_disconnected(s) /\ UNCHANGED <<state, nearbyVars>>
  <2>1. state' = state /\ nearby_timer' = nearby_timer
    BY <1>12 DEF nearbyVars
  <2>2. NearbyTimerArmed' /\ ~(nearby_timer /\ Queued(workq, "nearby"))'
    BY <1>9, <2>1, EnabledRecords DEF NearbyTimerArmed
  <2>3. OwnersAnnounced'
    <3>1. CASE state = "CONNECTED"
      BY <2>1, <3>1 DEF OwnersAnnounced
    <3>2. CASE state # "CONNECTED"
      BY <1>1, <1>2, <1>5, <1>6, <3>2, AnnouncedOwners, EnabledRecords
    <3>. QED  BY <3>1, <3>2
  <2>4. state' = "CONNECTED" => owner' # {}
    BY <1>5, <1>12, <2>1 DEF all_owners_disconnected
  <2>. QED  BY <1>10, <2>1, <2>2, <2>3, <2>4 DEF is_paired
<1>. QED  BY <1>11, <1>12 DEF peer_disconnected

(* Whoever encrypts its link becomes an owner and is announced.             *)
LEMMA OwnerInvSecured ==
  ASSUME Orderly, OwnerInv, Enabled, owner_secured, LinkInv'
  PROVE  OwnerInv'
<1>. DEFINE s == Head(batch).conn
            e == Ev("OWNER_CONNECTED", s)
<1>1. TypeOK /\ HandleEvent /\ InnerStep
  BY EnabledRecords DEF HandleEvent, InnerStep
<1>2. Handling("PEER_SECURITY_CHANGED") /\ is_paired
  BY DEF owner_secured
<1>3. 1 \in 1..Len(Backlog) /\ Backlog[1].id = "PEER_SECURITY_CHANGED" /\ Backlog[1].conn = s
  BY <1>1, <1>2, HandledFirst DEF Handling
<1>4. s \in Slots
  BY <1>1, <1>2, TypeSplit, HandlingType DEF PeerEvents, LinkEvents
<1>5. s \in Live /\ s \in is_valid
  BY <1>3, EnabledRecords DEF Arriving
<1>6. UNCHANGED <<state, nearby_timer, is_valid, pairing_conn>> /\ Live' = Live
  BY <1>1, SteadySteps DEF owner_secured, stateVars, nearbyVars, pairVars, Steady
<1>7. ~nearby_work /\ ~nearby_timeout
  <2>1. batch' # batch
    BY <1>1, <1>2, HandlingTakes
  <2>. QED
    BY <2>1
    DEF nearby_work, nearby_separated_work_handle, Running, nearby_timeout,
        nearby_separated_timeout_handle
<1>8. NearbyInv'
  BY <1>1, <1>6, <1>7, InnerQueue, EnabledRecords DEF NearbyInv, NearbyTimerArmed
<1>9. /\ e \in Event /\ e.id = "OWNER_CONNECTED" /\ e.conn = s
  BY <1>4, EventType DEF PeerEvents, LinkEvents, Ev
<1>. HIDE DEF e
<1>10. \E evs \in Seq(Event) :
         /\ Flow(1, evs)
         /\ ~Has(evs, "PAIRING_COMPLETE")
         /\ owner \subseteq owner'
         /\ owner' \subseteq is_valid
         /\ \A i \in 1..Len(evs) : evs[i].id = "OWNER_CONNECTED" => evs[i].conn \in owner'
         /\ \A t \in owner' : \/ t \in owner
                              \/ \E i \in 1..Len(evs) :
                                   evs[i].id = "OWNER_CONNECTED" /\ evs[i].conn = t
  <2>1. CASE owner' = owner \cup ({s} \cap is_valid) /\ Post(<<e>>)
    <3>. DEFINE evs == <<e>>
    <3>1. evs \in Seq(Event) /\ Len(evs) = 1 /\ evs[1] = e /\ events' = events \o evs
      BY <1>9, <2>1 DEF Post, PostOn
    <3>. HIDE DEF evs
    <3>2. Flow(1, evs)
      BY <1>1, <1>2, <3>1, FlowHandled
    <3>3. \A i \in 1..Len(evs) : evs[i].id = "OWNER_CONNECTED" /\ evs[i].conn = s
      BY <1>9, <3>1
    <3>4. 1 \in 1..Len(evs)
      BY <3>1
    <3>5. owner' \subseteq is_valid
      BY <2>1, EnabledRecords
    <3>6. ~Has(evs, "PAIRING_COMPLETE")
      BY <3>3 DEF Has
    <3>. QED  BY <1>5, <2>1, <3>1, <3>2, <3>3, <3>4, <3>5, <3>6
  <2>2. CASE owner' = owner /\ Post(<<>>)
    <3>. DEFINE evs == <<>>
    <3>1. evs \in Seq(Event) /\ Len(evs) = 0 /\ events' = events \o evs
      BY <2>2 DEF Post, PostOn
    <3>. HIDE DEF evs
    <3>2. Flow(1, evs)
      BY <1>1, <1>2, <3>1, FlowHandled
    <3>3. \A i \in 1..Len(evs) : FALSE
      BY <3>1
    <3>4. ~Has(evs, "PAIRING_COMPLETE")
      BY <3>3 DEF Has
    <3>. QED  BY <2>2, <3>1, <3>2, <3>3, <3>4, EnabledRecords
  <2>. QED  BY <2>1, <2>2 DEF owner_secured, e
<1>11. PICK evs \in Seq(Event) :
         /\ Flow(1, evs)
         /\ ~Has(evs, "PAIRING_COMPLETE")
         /\ owner \subseteq owner'
         /\ owner' \subseteq is_valid
         /\ \A i \in 1..Len(evs) : evs[i].id = "OWNER_CONNECTED" => evs[i].conn \in owner'
         /\ \A t \in owner' : \/ t \in owner
                              \/ \E i \in 1..Len(evs) :
                                   evs[i].id = "OWNER_CONNECTED" /\ evs[i].conn = t
  BY <1>10
<1>12. is_paired'
  BY <1>2, <1>6 DEF is_paired
<1>13. OwnerArriving'
  BY <1>1, <1>11, <1>12, ArrivingOwners, EnabledRecords
<1>14. OwnersAnnounced'
  <2>1. CASE state = "CONNECTED"
    BY <1>6, <2>1 DEF OwnersAnnounced
  <2>2. CASE state # "CONNECTED"
    BY <1>1, <1>3, <1>6, <1>11, <2>2, AnnouncedOwners, EnabledRecords
  <2>. QED  BY <2>1, <2>2
<1>15. CompleteUnpaired'
  BY <1>1, <1>2, <1>6, <1>11, CompleteKept, EnabledRecords
<1>16. state' = "CONNECTED" => owner' # {}
  BY <1>6, <1>11, EnabledRecords
<1>. QED  BY <1>6, <1>8, <1>11, <1>13, <1>14, <1>15, <1>16 DEF OwnerInv

(* The accessory is in CONNECTED while an owner is there.  The work item of *)
(* the nearby timer does not wait: it would have run before.                *)
LEMMA OwnerInvConnected ==
  ASSUME Orderly, OwnerInv, Enabled, owner_connected, LinkInv'
  PROVE  OwnerInv'
<1>. DEFINE s == Head(batch).conn
<1>1. TypeOK /\ HandleEvent /\ InnerStep
  BY EnabledRecords DEF HandleEvent, InnerStep
<1>2. Handling("OWNER_CONNECTED")
  BY DEF owner_connected
<1>3. 1 \in 1..Len(Backlog) /\ Backlog[1].id = "OWNER_CONNECTED" /\ Backlog[1].conn = s
  BY <1>1, <1>2, HandledFirst DEF Handling
<1>4. is_paired /\ s \in owner
  BY <1>3, EnabledRecords DEF OwnerArriving
<1>5. /\ state_set(workq, limit_check, s, "CONNECTED")
      /\ owner' = owner
      /\ UNCHANGED <<is_valid, pairing_conn>> /\ Live' = Live
  BY <1>1, <1>4, SteadySteps DEF owner_connected, pairVars, Steady
<1>6. state' = "CONNECTED" /\ is_paired'
  BY <1>5, ToConnected DEF is_paired
<1>7. ~Queued(workq, "nearby")
  <2>1. Has(batch, "OWNER_CONNECTED")
    BY <1>1, <1>2, HasTail, HandlingTakes DEF Handling
  <2>. QED  BY <2>1, EnabledRecords DEF NearbyFirst
<1>8. nearby_timer' = FALSE
  BY <1>1, <1>5, <1>7, ToConnected, EnabledRecords DEF NearbyTimerArmed, TypeOK, StateTypeOK
<1>9. ~nearby_work /\ ~nearby_timeout /\ ~owner_secured
  <2>1. batch' # batch /\ Head(batch).id = "OWNER_CONNECTED"
    BY <1>1, <1>2, HandlingTakes DEF Handling
  <2>. QED
    BY <2>1
    DEF nearby_work, nearby_separated_work_handle, Running, nearby_timeout,
        nearby_separated_timeout_handle, owner_secured, Handling
<1>10. NearbyInv'
  BY <1>1, <1>6, <1>7, <1>8, <1>9, InnerQueue, EnabledRecords DEF NearbyInv, NearbyTimerArmed
<1>11. PICK evs \in Seq(Event) : Flow(1, evs) /\ \A i \in 1..Len(evs) : Legitimate(evs[i])
  BY <1>1, HandlerFlow
<1>12. \A i \in 1..Len(evs) :
         /\ evs[i].id # "OWNER_CONNECTED"
         /\ evs[i].id # "PAIRING_COMPLETE"
  BY <1>4, <1>9, <1>11 DEF Legitimate, StackEvents, ConfigEvents, PairEvents
<1>13. OwnerArriving'
  BY <1>1, <1>5, <1>6, <1>11, <1>12, ArrivingOwners, EnabledRecords
<1>14. OwnersAnnounced'
  BY <1>6 DEF OwnersAnnounced
<1>15. CompleteUnpaired'
  BY <1>1, <1>4, <1>5, <1>11, <1>12, CompleteKept, EnabledRecords DEF Has
<1>. QED  BY <1>4, <1>5, <1>10, <1>13, <1>14, <1>15, EnabledRecords DEF OwnerInv

(* A pairing is completed while unpaired, by a link that has its record.    *)
LEMMA Completing ==
  ASSUME OwnerInv, Enabled, pairing_complete
  PROVE  state = "UNPAIRED" /\ Head(batch).conn \in is_valid
<1>. DEFINE s == Head(batch).conn
<1>1. TypeOK /\ HandleEvent /\ Handling("PAIRING_COMPLETE") /\ pairing_conn = s
  BY EnabledRecords DEF HandleEvent, pairing_complete, pairing_complete_cmd_handle
<1>2. 1 \in 1..Len(Backlog) /\ Backlog[1].id = "PAIRING_COMPLETE" /\ Backlog[1].conn = s
  BY <1>1, HandledFirst DEF Handling
<1>3. s \in Slots
  BY <1>1, TypeSplit, HandlingType DEF PeerEvents, PairEvents
<1>4. pairing_conn # NULL
  BY <1>1, <1>3, ConnAssumption DEF Slots, NULL
<1>5. ~is_paired
  BY <1>2, <1>4, EnabledRecords DEF CompleteUnpaired, Has
<1>6. state = "UNPAIRED"
  BY <1>5 DEF is_paired, Enabled
<1>7. s \in is_valid
  BY <1>2, EnabledRecords DEF Recorded, OfLink, FromPeer, PairEvents
<1>. QED  BY <1>6, <1>7

LEMMA OwnerInvComplete ==
  ASSUME Orderly, OwnerInv, Enabled, pairing_complete, LinkInv'
  PROVE  OwnerInv'
<1>. DEFINE s == Head(batch).conn
<1>1. TypeOK /\ HandleEvent /\ InnerStep /\ Handling("PAIRING_COMPLETE")
  BY EnabledRecords DEF HandleEvent, InnerStep, pairing_complete, pairing_complete_cmd_handle
<1>2. state = "UNPAIRED" /\ s \in is_valid /\ ~is_paired
  BY Completing DEF is_paired
<1>3. /\ enter_connected(workq, limit_check, "CONNECTED")
      /\ owner' = owner \cup {s}
      /\ is_valid' = is_valid /\ pairing_conn' = NULL /\ Live' = Live
  BY <1>1, <1>2, SteadySteps DEF pairing_complete, pairing_complete_cmd_handle, Steady
<1>4. state' = "CONNECTED" /\ is_paired'
  BY <1>3 DEF enter_connected, is_paired
<1>5. ~nearby_timer /\ ~Queued(workq, "nearby")
  BY <1>2, EnabledRecords DEF NearbyTimerArmed
<1>6. nearby_timer' = FALSE
  BY <1>3, <1>5 DEF enter_connected, nearby_timer_stop
<1>7. ~nearby_work /\ ~nearby_timeout /\ ~owner_secured
  <2>1. batch' # batch /\ Head(batch).id = "PAIRING_COMPLETE"
    BY <1>1, HandlingTakes DEF Handling
  <2>. QED
    BY <2>1
    DEF nearby_work, nearby_separated_work_handle, Running, nearby_timeout,
        nearby_separated_timeout_handle, owner_secured, Handling
<1>8. NearbyInv'
  BY <1>1, <1>4, <1>5, <1>6, <1>7, InnerQueue, EnabledRecords DEF NearbyInv, NearbyTimerArmed
<1>9. PICK evs \in Seq(Event) : Flow(1, evs) /\ \A i \in 1..Len(evs) : Legitimate(evs[i])
  BY <1>1, HandlerFlow
<1>10. \A i \in 1..Len(evs) : evs[i].id # "OWNER_CONNECTED"
  BY <1>7, <1>9 DEF Legitimate, StackEvents, ConfigEvents, PairEvents
<1>11. OwnerArriving'
  BY <1>1, <1>2, <1>3, <1>4, <1>9, <1>10, ArrivingOwners, EnabledRecords
<1>12. OwnersAnnounced' /\ CompleteUnpaired'
  BY <1>3, <1>4 DEF OwnersAnnounced, CompleteUnpaired
<1>. QED  BY <1>2, <1>3, <1>8, <1>11, <1>12, EnabledRecords DEF OwnerInv

(* The work item of the nearby timer finds NEARBY.                          *)
LEMMA OwnerInvNearbyWork ==
  ASSUME Orderly, OwnerInv, Enabled, nearby_work, LinkInv'
  PROVE  OwnerInv' /\ state = "NEARBY"
<1>1. TypeOK /\ InnerStep /\ ~HandleEvent
  <2>1. TypeOK /\ batch' = batch
    BY EnabledRecords DEF nearby_work, nearby_separated_work_handle, Running
  <2>2. ~HandleEvent
    BY <2>1, HandlerPosts, HandlingTakes
  <2>. QED  BY <2>1, <2>2 DEF InnerStep
<1>2. /\ state_set(Tail(workq), limit_check, NULL, "SEPARATED")
      /\ UNCHANGED <<owner, is_valid, pairing_conn>> /\ Live' = Live
  BY <1>1, SteadySteps
  DEF nearby_work, nearby_separated_work_handle, connVars, recordVars, aboveState, pairVars,
      Steady
<1>3. /\ WorkqueueOK(workq') /\ NearbyFirst'
      /\ ~nearby_timeout => Queued(workq, "nearby") /\ ~Queued(workq', "nearby")
  BY <1>1, EnabledRecords, InnerQueue
<1>4. ~nearby_timeout
  <2>1. CASE nearby_timer' = nearby_timer
    BY <2>1 DEF nearby_timeout, nearby_separated_timeout_handle
  <2>2. CASE nearby_timer' # nearby_timer
    BY <1>2, <2>2
    DEF nearby_timeout, nearby_separated_timeout_handle, state_set, unchanged_state,
        forbidden_transition, enter_unpaired, enter_connected, enter_nearby, enter_separated,
        enter_disabled, nearbyVars
  <2>. QED  BY <2>1, <2>2
<1>5. state = "NEARBY" /\ ~nearby_timer
  BY <1>3, <1>4, EnabledRecords DEF NearbyTimerArmed
<1>6. state' = "SEPARATED" /\ nearby_timer' = nearby_timer
  BY <1>2, <1>5, ToSeparated DEF nearbyVars
<1>7. NearbyInv'
  BY <1>3, <1>4, <1>5, <1>6 DEF NearbyInv, NearbyTimerArmed
<1>8. PICK evs \in Seq(Event) : Flow(0, evs) /\ \A i \in 1..Len(evs) : Legitimate(evs[i])
  BY <1>1, WorkFlow
<1>9. is_paired /\ is_paired'
  BY <1>5, <1>6 DEF is_paired
<1>10. \A i \in 1..Len(evs) :
         /\ evs[i].id # "OWNER_CONNECTED"
         /\ evs[i].id # "PAIRING_COMPLETE"
  BY <1>1, <1>8, <1>9
  DEF Legitimate, StackEvents, ConfigEvents, PairEvents, HandleEvent
<1>11. OwnerArriving'
  BY <1>1, <1>2, <1>8, <1>9, <1>10, ArrivingOwners, EnabledRecords
<1>12. OwnersAnnounced'
  BY <1>1, <1>2, <1>5, <1>8, AnnouncedOwners, EnabledRecords
<1>13. CompleteUnpaired'
  BY <1>1, <1>2, <1>8, <1>9, <1>10, CompleteKept, EnabledRecords DEF Has
<1>. QED  BY <1>2, <1>5, <1>6, <1>7, <1>11, <1>12, <1>13, EnabledRecords DEF OwnerInv

(* A new link has no owner, the end of one announces none.                  *)
LEMMA OwnerInvLinkUp ==
  ASSUME Orderly, OwnerInv, link_up, LinkInv'
  PROVE  OwnerInv'
<1>. DEFINE s == adv.slot
            e == Ev("PEER_CONNECTED", adv.slot)
            evs == <<e>>
<1>1. TypeOK /\ QuietDisabled /\ AdvSlotFree
  BY DEF OwnerInv, LinkInv, ReferenceInv
<1>2. Enabled /\ UNCHANGED <<state, batch, owner, nearby_timer, pairing_conn>>
  BY <1>1
  DEF link_up, connected_cb, QuietDisabled, NoAdv, Enabled, aboveConn, stateVars,
      nearbyVars, pairVars
<1>3. s \in Slots /\ adv.kind # "off"
  BY <1>1 DEF link_up, connected_cb, TypeOK, ConnTypeOK, Adv, NoAdv
<1>4. /\ Live' = Live \cup {s} /\ is_valid' = is_valid \cup {s} /\ Post(<<e>>)
      /\ ~Pending("PEER_DISCONNECTED", s)
  BY <1>2 DEF link_up, connected_cb, Live, is_enabled, Enabled, Orderly
<1>5. s \notin owner
  <2>1. s \notin Ending /\ s \notin Live
    BY <1>1, <1>3, <1>4, EndingWaits DEF AdvSlotFree
  <2>. QED  BY <1>2, <2>1, EnabledRecords
<1>6. evs \in Seq(Event) /\ Len(evs) = 1 /\ evs[1].id = "PEER_CONNECTED" /\ events' = events \o evs
      /\ PostOn(workq, evs)
  BY <1>3, <1>4, EventType DEF PeerEvents, LinkEvents, Ev, Post, PostOn
<1>. HIDE DEF evs
<1>7. Flow(0, evs)
  BY <1>1, <1>2, <1>6, FlowPosted
<1>8. ~Has(evs, "OWNER_CONNECTED") /\ ~Has(evs, "PAIRING_COMPLETE")
  BY <1>6 DEF Has
<1>9. NearbyInv'
  <2>1. /\ WorkqueueOK(workq') /\ NearbyFirst'
        /\ Queued(workq', "nearby") <=> Queued(workq, "nearby")
    BY <1>1, <1>2, <1>6, <1>8, FirstHere, EnabledRecords
  <2>. QED  BY <1>2, <2>1, EnabledRecords DEF NearbyInv, NearbyTimerArmed
<1>10. OwnerArriving'
  BY <1>1, <1>2, <1>6, <1>7, <1>8, ArrivingOwners, EnabledRecords DEF is_paired, Has
<1>11. OwnersAnnounced'
  <2>1. CASE state = "CONNECTED"
    BY <1>2, <2>1 DEF OwnersAnnounced
  <2>2. CASE state # "CONNECTED"
    BY <1>1, <1>2, <1>4, <1>5, <1>6, <1>7, <2>2, AnnouncedOwners, EnabledRecords
  <2>. QED  BY <2>1, <2>2
<1>12. CompleteUnpaired'
  BY <1>1, <1>2, <1>6, <1>7, <1>8, CompleteKept, EnabledRecords DEF is_paired
<1>. QED
  BY <1>2, <1>4, <1>9, <1>10, <1>11, <1>12, EnabledRecords DEF OwnerInv

LEMMA OwnerInvLinkDown ==
  ASSUME Orderly, OwnerInv, NEW s \in Slots, link_down(s), LinkInv'
  PROVE  OwnerInv'
<1>. DEFINE e == Ev("PEER_DISCONNECTED", s)
            evs == <<e>>
<1>1. TypeOK /\ WorkqueueOK(workq)
  BY DEF OwnerInv, LinkInv, ReferenceInv, NearbyInv
<1>2. /\ Live' = Live \ {s}
      /\ UNCHANGED <<state, batch, owner, is_valid, nearby_timer, pairing_conn>>
  BY DEF link_down, disconnected_cb, aboveConn, stateVars, nearbyVars, pairVars, Live
<1>3. CASE ~Enabled
  <2>1. UNCHANGED workq
    BY <1>3 DEF link_down, disconnected_cb, is_enabled, Enabled
  <2>. QED  BY <1>1, <1>2, <1>3, <2>1, OwnerInvDisabled DEF Enabled, WorkqueueOK, Once
<1>4. CASE Enabled
  <2>1. evs \in Seq(Event) /\ Len(evs) = 1 /\ evs[1].id = "PEER_DISCONNECTED"
        /\ events' = events \o evs /\ PostOn(workq, evs)
    BY <1>4, EventType
    DEF PeerEvents, LinkEvents, Ev, Post, PostOn, link_down, disconnected_cb, is_enabled, Enabled
  <2>. HIDE DEF evs
  <2>2. Flow(0, evs)
    BY <1>1, <1>2, <2>1, FlowPosted
  <2>3. ~Has(evs, "OWNER_CONNECTED") /\ ~Has(evs, "PAIRING_COMPLETE")
    BY <2>1 DEF Has
  <2>4. NearbyInv'
    <3>1. /\ WorkqueueOK(workq') /\ NearbyFirst'
          /\ Queued(workq', "nearby") <=> Queued(workq, "nearby")
      BY <1>1, <1>2, <1>4, <2>1, <2>3, FirstHere, EnabledRecords
    <3>. QED  BY <1>2, <1>4, <3>1, EnabledRecords DEF NearbyInv, NearbyTimerArmed
  <2>5. OwnerArriving'
    BY <1>1, <1>2, <1>4, <2>1, <2>2, <2>3, ArrivingOwners, EnabledRecords DEF is_paired, Has
  <2>6. OwnersAnnounced'
    <3>1. CASE state = "CONNECTED"
      BY <1>2, <3>1 DEF OwnersAnnounced
    <3>2. CASE state # "CONNECTED"
      BY <1>1, <1>2, <1>4, <2>1, <2>2, <3>2, AnnouncedOwners, EnabledRecords
    <3>. QED  BY <3>1, <3>2
  <2>7. CompleteUnpaired'
    BY <1>1, <1>2, <1>4, <2>1, <2>2, <2>3, CompleteKept, EnabledRecords DEF is_paired
  <2>. QED
    BY <1>2, <1>4, <2>4, <2>5, <2>6, <2>7, EnabledRecords DEF OwnerInv
<1>. QED  BY <1>3, <1>4

(* fmna_enable() starts without owners and in UNPAIRED or SEPARATED.        *)
LEMMA EnabledFirst ==
  ASSUME fmna_enable, ~Enabled
  PROVE  /\ state' \in {"UNPAIRED", "SEPARATED"}
         /\ UNCHANGED <<nearby_timer, pairing_conn>> /\ owner' = {}
         /\ state' = "SEPARATED" => /\ pairing_items = PairingItems
                                    /\ fmna_keys_init(TRUE)
                                    /\ enter_separated(workq, "SEPARATED")
         /\ state' = "UNPAIRED" => /\ pairing_items # PairingItems
                                   /\ enter_unpaired(workq, "UNPAIRED")
<1>1. state = "DISABLED"
  BY DEF Enabled
<1>. QED
  BY <1>1
  DEF fmna_enable, fmna_conn_init, unchanged_state, forbidden_transition, enter_separated,
      enter_unpaired, nearbyVars, pairVars, fmna_storage_pairing_data_check

LEMMA OwnerInvEnable ==
  ASSUME Orderly, OwnerInv, fmna_enable, LinkInv',
         ~Enabled, Enabled', \A i \in 1..Len(Backlog') : Backlog'[i].id \in StackEvents
  PROVE  OwnerInv'
<1>1. TypeOK /\ QuietDisabled /\ WorkqueueOK(workq) /\ NearbyFirst
  BY DEF OwnerInv, LinkInv, ReferenceInv, NearbyInv
<1>2. /\ state' \in {"UNPAIRED", "SEPARATED"}
      /\ nearby_timer' = nearby_timer /\ owner' = {}
  BY EnabledFirst
<1>3. batch' = batch /\ Announces(workq)
  BY <1>1, EnablePosts
<1>4. PICK evs \in Seq(Event) : PostOn(workq, evs) /\ \A i \in 1..Len(evs) : evs[i].id \in StackEvents
  BY <1>3, Zenon DEF Announces
<1>5. ~Has(evs, "OWNER_CONNECTED")
  BY <1>4 DEF Has, StackEvents
<1>6. /\ WorkqueueOK(workq') /\ NearbyFirst'
      /\ Queued(workq', "nearby") <=> Queued(workq, "nearby")
  BY <1>1, <1>3, <1>4, <1>5, FirstHere
<1>7. ~nearby_timer /\ ~Queued(workq, "nearby")
  BY <1>1 DEF QuietDisabled, Enabled
<1>8. NearbyInv'
  BY <1>2, <1>6, <1>7 DEF NearbyInv, NearbyTimerArmed
<1>9. \A i \in 1..Len(Backlog') : Backlog'[i].id \notin {"OWNER_CONNECTED", "PAIRING_COMPLETE"}
  BY DEF StackEvents
<1>10. OwnerArriving' /\ OwnersAnnounced' /\ CompleteUnpaired'
  BY <1>2, <1>9 DEF OwnerArriving, OwnersAnnounced, CompleteUnpaired, Has
<1>. QED  BY <1>2, <1>8, <1>10 DEF OwnerInv

LEMMA OwnerInvDisable ==
  ASSUME Orderly, OwnerInv, fmna_disable, LinkInv', ~Enabled'
  PROVE  OwnerInv'
<1>1. WorkqueueOK(workq)
  BY DEF OwnerInv, NearbyInv
<1>2. PostOn(Cancelled(workq, "nearby"), [i \in 1..1 |-> Ev("STATE_CHANGED", NULL)])
  BY DEF fmna_disable, enter_disabled, reported
<1>3. WorkqueueOK(Cancelled(workq, "nearby"))
  BY <1>1, CancelledOnce
<1>. DEFINE q == Cancelled(workq, "nearby")
            evs == [i \in 1..1 |-> Ev("STATE_CHANGED", NULL)]
<1>. HIDE DEF q, evs
<1>4. PostOn(q, evs) /\ WorkqueueOK(q)
  BY <1>2, <1>3 DEF q, evs
<1>5. WorkqueueOK(workq')
  BY <1>4, PostedOnce
<1>. QED  BY <1>5, OwnerInvDisabled

LEMMA OwnerInvNext ==
  ASSUME Orderly, OwnerInv, [Next]_vars
  PROVE  OwnerInv'
<1>1. LinkInv /\ LinkInv' /\ ReferenceInv' /\ RecordsInv' /\ TypeOK /\ QuietDisabled
  BY LinkInvNext DEF OwnerInv, LinkInv, ReferenceInv
<1>2. CASE InnerStep
  <2>1. CASE Enabled
    <3>1. CASE ~Special
      BY <1>1, <1>2, <2>1, <3>1, OwnerInvSettled
    <3>2. CASE Special
      BY <1>1, <2>1, <3>2, OwnerInvDisconnected, OwnerInvSecured, OwnerInvConnected,
         OwnerInvComplete, OwnerInvNearbyWork
      DEF Special
    <3>. QED  BY <3>1, <3>2
  <2>2. CASE ~Enabled
    <3>1. ~Enabled'
      BY <1>1, <1>2, <2>2, QuietSteps DEF Enabled
    <3>2. WorkqueueOK(workq')
      BY <1>1, <1>2, InnerQueue DEF OwnerInv, NearbyInv
    <3>. QED  BY <1>1, <3>1, <3>2, OwnerInvDisabled
  <2>. QED  BY <2>1, <2>2
<1>3. CASE link_up
  BY <1>1, <1>3, OwnerInvLinkUp
<1>4. ASSUME NEW s \in Slots, link_down(s) PROVE OwnerInv'
  BY <1>1, <1>4, OwnerInvLinkDown
<1>5. CASE fmna_enable
  BY <1>1, <1>5, LinkInvEnable, OwnerInvEnable
<1>6. CASE fmna_disable
  BY <1>1, <1>6, LinkInvDisable, OwnerInvDisable
<1>. QED  BY <1>2, <1>3, <1>4, <1>5, <1>6 DEF Next, InnerStep

LEMMA OwnerInvInit == Init => OwnerInv
<1>. SUFFICES ASSUME Init PROVE OwnerInv
  OBVIOUS
<1>1. LinkInv /\ ~Enabled
  BY LinkInvInit DEF Init, Enabled
<1>2. WorkqueueOK(workq) /\ ~Queued(workq, "nearby") /\ ~nearby_timer
  BY EmptySeq DEF Init, WorkqueueOK, Once, Queued
<1>3. NearbyInv
  BY <1>1, <1>2 DEF Init, NearbyInv, NearbyTimerArmed, NearbyFirst
<1>. QED  BY <1>1, <1>3 DEF OwnerInv, CompleteUnpaired, is_paired, Enabled, Init

(* When nothing waits, records are links and owners are announced.         *)
LEMMA TrackedAtRest == OwnerInv => OwnerTracked
<1>. SUFFICES ASSUME OwnerInv, NothingQueued, ready
              PROVE  state = "CONNECTED" <=> owner \cap Live # {}
  BY DEF OwnerTracked
<1>1. Enabled
  BY DEF OwnerInv, LinkInv, ReadyEnabled
<1>2. Ending = {} /\ Len(Backlog) = 0
  <2>1. Backlog = <<>>
    BY ConcatEmptySeq DEF NothingQueued, Backlog
  <2>. QED  BY <2>1, EndsOfOne DEF NothingQueued, Ending
<1>3. owner \subseteq Live
  BY <1>1, <1>2, EnabledRecords
<1>4. state # "CONNECTED" => owner \cap Live = {}
  BY <1>1, <1>2, EnabledRecords DEF OwnersAnnounced
<1>. QED  BY <1>1, <1>3, <1>4, EnabledRecords

(* If peers and application respect each other's steps as Orderly says, the *)
(* accessory is in CONNECTED exactly when an owner is connected, once the   *)
(* events are handled: although encryption, the end of a link, the nearby   *)
(* timer and an unpairing reach the state machine as separate events.       *)
THEOREM OwnersAreTracked ==
  ASSUME Orderly
  PROVE  Spec => []OwnerTracked
<1>1. Init => OwnerInv
  BY OwnerInvInit
<1>2. OwnerInv /\ [Next]_vars => OwnerInv'
  BY OwnerInvNext
<1>3. OwnerInv => OwnerTracked
  BY TrackedAtRest
<1>. QED  BY <1>1, <1>2, <1>3, PTL DEF Spec

(* In NEARBY the switch to SEPARATED is always on its way, as the timer or  *)
(* as the work item it submits, and in no other state: an owner that comes  *)
(* between the two takes neither away too late.                             *)
THEOREM NearbyIsTimed ==
  ASSUME Orderly
  PROVE  Spec => []NearbyTimerArmed
<1>1. Init => OwnerInv
  BY OwnerInvInit
<1>2. OwnerInv /\ [Next]_vars => OwnerInv'
  BY OwnerInvNext
<1>3. OwnerInv => NearbyTimerArmed
  BY DEF OwnerInv, NearbyInv
<1>. QED  BY <1>1, <1>2, <1>3, PTL DEF Spec

-----------------------------------------------------------------------------
(* Keys and reports: only these steps touch them while the stack stays      *)
(* enabled.                                                                 *)

finalize_pairing == pair_event /\ finalize_pairing_cmd_handle

LEMMA KeysSettled ==
  ASSUME InnerStep, ~Special
  PROVE  UNCHANGED reportVars /\ (UNCHANGED keyVars \/ finalize_pairing)
<1>1. CASE HandleEvent
  <2>1. CASE peer_connected \/ candidate_secured \/ max_conn_changed \/ state_changed
    BY <2>1
    DEF peer_connected, candidate_secured, max_conn_changed, state_changed, stateVars
  <2>2. CASE public_keys_changed
    BY <2>2 DEF public_keys_changed, fmna_public_keys_changed
  <2>3. CASE config_event
    BY <2>3
    DEF config_event, persistent_conn_request_handle, max_connections_request_handle,
        nearby_timeout_set_request_handle, unpair_request_handle, stateVars
  <2>4. CASE pair_event
    BY <2>4
    DEF Special, pairing_complete, finalize_pairing, pair_event, pairing_cmd_rejected,
        initiate_pairing_cmd_handle, finalize_pairing_cmd_handle, stateVars
  <2>. QED  BY <1>1, <2>1, <2>2, <2>3, <2>4 DEF HandleEvent, Special
<1>2. CASE \/ event_work \/ max_conn_work \/ persistent_conn_work \/ pairing_mode_work
           \/ key_timeout \/ key_work \/ paired_adv \/ pairing_mode_request
           \/ UNCHANGED vars
  BY <1>2
  DEF event_work, max_conn_work, max_conn_work_handle, persistent_conn_work,
      persistent_conn_work_handle, pairing_mode_work, pairing_mode_timeout_work_handle,
      key_timeout, key_rotation_timeout_handle, key_work, key_rotation_work_handle,
      paired_adv, fmna_paired_adv_disable, fmna_paired_adv_enable, pairing_mode_request,
      fmna_pairing_mode_cancel, fmna_pairing_mode_enter, vars, stateVars, aboveConn
<1>3. CASE nearby_timeout
  BY <1>3 DEF nearby_timeout, nearby_separated_timeout_handle
<1>4. ASSUME NEW s \in Slots,
             \/ link_secured(s) \/ security_error(s) \/ conn_timeout_work(s)
             \/ config_cp_write(s) \/ pairing_cp_write(s)
      PROVE  UNCHANGED <<reportVars, keyVars>>
  BY <1>4
  DEF link_secured, security_error, conn_timeout_work, config_cp_write, pairing_cp_write,
      stateVars, aboveConn
<1>. QED  BY <1>1, <1>2, <1>3, <1>4 DEF InnerStep, Special

LEMMA SpecialEnabled ==
  ASSUME OwnerInv, Special
  PROVE  Enabled
<1>1. TypeOK /\ QuietDisabled
  BY DEF OwnerInv, LinkInv, ReferenceInv
<1>2. CASE nearby_work
  BY <1>1, <1>2
  DEF QuietDisabled, Enabled, nearby_work, nearby_separated_work_handle, Running, Queued
<1>3. CASE ~nearby_work
  <2>1. PICK id \in PeerEvents : Handling(id)
    BY <1>3
    DEF Special, peer_disconnected, owner_secured, owner_connected, pairing_complete,
        pairing_complete_cmd_handle, PeerEvents, LinkEvents, PairEvents
  <2>. QED  BY <1>1, <2>1, HandledEnabled
<1>. QED  BY <1>2, <1>3

KeysInv ==
  /\ OwnerInv
  /\ keys_running => is_paired
  /\ is_paired => "KEYS" \in pairing_items
  /\ state = "UNPAIRED" => "KEYS" \notin pairing_items
  /\ pairing_conn # NULL => state = "UNPAIRED"
  /\ ~Enabled => pairing_items \in {{}, PairingItems}

LEMMA KeysInvSettled ==
  ASSUME KeysInv, InnerStep, ~Special, OwnerInv'
  PROVE  KeysInv'
<1>1. TypeOK /\ QuietDisabled /\ state' = state
  BY Settled DEF KeysInv, OwnerInv, LinkInv, ReferenceInv
<1>2. pairing_conn' # NULL => state = "UNPAIRED"
  <2>1. CASE candidate_secured
    <3>1. Handling("PEER_SECURITY_CHANGED") /\ ~is_paired
      BY <2>1 DEF candidate_secured
    <3>2. Enabled
      BY <1>1, <3>1, HandledEnabled DEF PeerEvents, LinkEvents
    <3>. QED  BY <1>1, <3>1, <3>2 DEF is_paired, Enabled, TypeOK, ConnTypeOK, States
  <2>2. CASE pairing_conn' = pairing_conn
    BY <2>2 DEF KeysInv
  <2>. QED  BY <2>1, <2>2, Settled
<1>3. CASE UNCHANGED keyVars
  BY <1>1, <1>2, <1>3 DEF KeysInv, keyVars, is_paired, Enabled
<1>4. CASE finalize_pairing
  <2>1. /\ pairing_conn = Head(batch).conn /\ Handling("FINALIZE_PAIRING")
        /\ pairing_items' = pairing_items \cup {"SECRETS"} /\ keys_running' = keys_running
    BY <1>4
    DEF finalize_pairing, finalize_pairing_cmd_handle, pairing_status_generate
  <2>2. Head(batch).conn \in Slots
    BY <1>1, <2>1, TypeSplit, HandlingType DEF PeerEvents, PairEvents
  <2>3. state = "UNPAIRED"
    BY <2>1, <2>2, ConnAssumption DEF KeysInv, Slots, NULL
  <2>. QED  BY <1>1, <1>2, <2>1, <2>3 DEF KeysInv, is_paired, Enabled
<1>. QED  BY <1>3, <1>4, KeysSettled

LEMMA KeysInvDisconnected ==
  ASSUME KeysInv, Enabled, peer_disconnected, OwnerInv'
  PROVE  KeysInv'
<1>. DEFINE s == Head(batch).conn
<1>1. pairing_conn' \in {pairing_conn, NULL}
  BY DEF peer_disconnected, pairing_ended
<1>2. CASE /\ state = "CONNECTED"
           /\ state_set(workq, limit_check, s, IF unpair_pending THEN "UNPAIRED" ELSE "NEARBY")
  <2>1. pairing_conn' = NULL
    BY <1>1, <1>2 DEF KeysInv
  <2>2. PICK new \in {"UNPAIRED", "NEARBY"} : state_set(workq, limit_check, s, new)
    BY <1>2
  <2>3. CASE new = "UNPAIRED"
    <3>1. state' = "UNPAIRED" /\ ~keys_running' /\ pairing_items' = {}
      BY <1>2, <2>2, <2>3, FromConnected
      DEF enter_unpaired, fmna_keys_service_stop, fmna_storage_pairing_data_delete
    <3>. QED  BY <2>1, <3>1 DEF KeysInv, is_paired, Enabled
  <2>4. CASE new = "NEARBY"
    <3>1. UNCHANGED keyVars /\ is_paired /\ is_paired'
      BY <1>2, <2>2, <2>4, FromConnected DEF is_paired
    <3>. QED  BY <2>1, <3>1 DEF KeysInv, keyVars, is_paired, Enabled
  <2>. QED  BY <2>3, <2>4
<1>3. CASE UNCHANGED <<state, keyVars>>
  BY <1>1, <1>3 DEF KeysInv, keyVars, is_paired, Enabled
<1>. QED  BY <1>2, <1>3 DEF peer_disconnected, all_owners_disconnected

LEMMA KeysInvSpecial ==
  ASSUME KeysInv, Enabled, Special, OwnerInv'
  PROVE  KeysInv'
<1>1. CASE peer_disconnected
  BY <1>1, KeysInvDisconnected
<1>2. CASE owner_secured
  BY <1>2 DEF owner_secured, stateVars, pairVars, KeysInv, keyVars, is_paired, Enabled
<1>3. CASE owner_connected
  <2>1. /\ TypeOK /\ HandleEvent /\ Handling("OWNER_CONNECTED") /\ OwnerArriving
        /\ state_set(workq, limit_check, Head(batch).conn, "CONNECTED") /\ pairing_conn' = pairing_conn
    BY <1>3, EnabledRecords DEF KeysInv, HandleEvent, owner_connected, pairVars
  <2>2. is_paired
    BY <2>1, HandledFirst DEF OwnerArriving, Handling
  <2>3. state' = "CONNECTED" /\ UNCHANGED keyVars
    BY <2>1, ToConnected
  <2>. QED  BY <2>1, <2>2, <2>3 DEF KeysInv, keyVars, is_paired, Enabled
<1>4. CASE pairing_complete
  <2>1. state' = "CONNECTED" /\ pairing_conn' = NULL /\ "KEYS" \in pairing_items'
    BY <1>4
    DEF pairing_complete, pairing_complete_cmd_handle, enter_connected, fmna_keys_service_start
  <2>. QED  BY <2>1 DEF KeysInv, is_paired, Enabled
<1>5. CASE nearby_work
  <2>1. state = "NEARBY"
    BY <1>5, EnabledRecords
    DEF KeysInv, NearbyTimerArmed, nearby_work, nearby_separated_work_handle, Running, Queued
  <2>2. state' = "SEPARATED" /\ UNCHANGED keyVars /\ pairing_conn' = pairing_conn
    BY <1>5, <2>1, ToSeparated
    DEF nearby_work, nearby_separated_work_handle, aboveState, pairVars
  <2>. QED  BY <2>1, <2>2 DEF KeysInv, keyVars, is_paired, Enabled
<1>. QED  BY <1>1, <1>2, <1>3, <1>4, <1>5 DEF Special

(* From DISABLED the stored pairing decides; nothing is deleted.            *)
LEMMA KeysInvEnable ==
  ASSUME KeysInv, fmna_enable, ~Enabled, OwnerInv', Enabled'
  PROVE  KeysInv'
<1>1. /\ ~keys_running /\ pairing_conn' = NULL /\ pairing_items \in {{}, PairingItems}
      /\ state' \in {"UNPAIRED", "SEPARATED"}
  BY EnabledFirst DEF KeysInv, Enabled, is_paired
<1>2. CASE state' = "SEPARATED"
  <2>1. pairing_items = PairingItems /\ pairing_items' = pairing_items
    BY <1>2, EnabledFirst DEF fmna_keys_init
  <2>. QED  BY <1>1, <1>2, <2>1 DEF KeysInv, is_paired, Enabled, PairingItems
<1>3. CASE state' = "UNPAIRED"
  <2>1. state = "DISABLED" /\ pairing_items = {} /\ enter_unpaired(workq, "UNPAIRED")
    BY <1>1, <1>3, EnabledFirst DEF Enabled
  <2>2. UNCHANGED keyVars
    BY <2>1 DEF enter_unpaired, keyVars
  <2>. QED  BY <1>1, <1>3, <2>1, <2>2 DEF KeysInv, is_paired, Enabled, keyVars
<1>. QED  BY <1>1, <1>2, <1>3

LEMMA KeysInvNext ==
  ASSUME Orderly, "fmna_disable" \notin AppCalls, KeysInv, [Next]_vars
  PROVE  KeysInv'
<1>1. OwnerInv /\ OwnerInv' /\ LinkInv /\ ReferenceInv' /\ RecordsInv' /\ TypeOK /\ QuietDisabled
  BY OwnerInvNext DEF KeysInv, OwnerInv, LinkInv, ReferenceInv
<1>2. CASE InnerStep
  <2>1. CASE ~Special
    BY <1>1, <1>2, <2>1, KeysInvSettled
  <2>2. CASE Special
    <3>1. Enabled
      BY <1>1, <2>2, SpecialEnabled
    <3>. QED  BY <1>1, <2>2, <3>1, KeysInvSpecial
  <2>. QED  BY <2>1, <2>2
<1>3. CASE link_up
  BY <1>1, <1>3 DEF link_up, aboveConn, stateVars, pairVars, keyVars, KeysInv, is_paired, Enabled
<1>4. ASSUME NEW s \in Slots, link_down(s) PROVE KeysInv'
  BY <1>1, <1>4 DEF link_down, aboveConn, stateVars, pairVars, keyVars, KeysInv, is_paired, Enabled
<1>5. CASE fmna_enable
  BY <1>1, <1>5, LinkInvEnable, KeysInvEnable
<1>6. ~fmna_disable
  BY DEF fmna_disable
<1>. QED  BY <1>2, <1>3, <1>4, <1>5, <1>6 DEF Next, InnerStep

(* If peers respect the steps of Orderly and the application leaves the     *)
(* stack enabled, the keys rotate in the paired states only, they are       *)
(* stored as long as the accessory is paired, and what is stored while it   *)
(* is unpaired makes no pairing at the next start: although a pairing is    *)
(* stored in two parts, by two commands, before and after the transition,   *)
(* and an owner's Unpair deletes it in another event.                       *)
THEOREM KeysFollowPairing ==
  ASSUME Orderly, "fmna_disable" \notin AppCalls
  PROVE  Spec => []KeysWithPairing
<1>1. Init => KeysInv
  BY OwnerInvInit DEF Init, KeysInv, is_paired, Enabled
<1>2. KeysInv /\ [Next]_vars => KeysInv'
  BY KeysInvNext
<1>3. KeysInv => KeysWithPairing
  BY DEF KeysInv, KeysWithPairing, PairingItems
<1>. QED  BY <1>1, <1>2, <1>3, PTL DEF Spec

-----------------------------------------------------------------------------
(* Reports.                                                                 *)

(* The connection limit leaves a connection object for advertising.         *)
LEMMA ObjectBelowLimit ==
  ASSUME OwnerInv, Enabled, max_connections <= FMNA_MAX_CONN, limit_check
  PROVE  free_conn
<1>1. TypeOK /\ OneReferencePerLink /\ is_valid \ is_disconnecting = Live
  BY DEF OwnerInv, LinkInv, ReferenceInv, RecordsInv, RecordsTracked, ReadyEnabled, Enabled
<1>2. /\ IsFiniteSet(1..BT_MAX_CONN) /\ Cardinality(1..BT_MAX_CONN) = BT_MAX_CONN
  BY FS_Interval, ConnAssumption
<1>3. Cardinality(Live) < BT_MAX_CONN
  <2>1. Cardinality(Live) < max_connections
    BY <1>1 DEF limit_check, connection_num
  <2>2. Live \subseteq Slots
    BY <1>1 DEF TypeOK, ConnTypeOK, Live
  <2>3. Cardinality(Live) \in Nat /\ max_connections \in Nat
    BY <1>1, <1>2, <2>2, FS_Subset, FS_CardinalityType DEF Slots, TypeOK, ConnTypeOK
  <2>. QED  BY <2>1, <2>3, LimitAssumption, ConnAssumption
<1>4. Live # Slots /\ Live \subseteq Slots
  <2>1. Live # Slots
    BY <1>2, <1>3, ConnAssumption DEF Slots
  <2>. QED  BY <1>1, <2>1 DEF TypeOK, ConnTypeOK, Live
<1>5. PICK s \in Slots : s \notin Live
  BY <1>4
<1>. QED  BY <1>1, <1>5, FreeWithoutLink

(* The limit never exceeds CONFIG_FMNA_MAX_CONN.                            *)
LEMMA LimitKept ==
  ASSUME [Next]_vars, TypeOK, max_connections <= FMNA_MAX_CONN
  PROVE  max_connections' <= FMNA_MAX_CONN
<1>. FMNA_MAX_CONN \in Nat
  BY LimitAssumption, ConnAssumption
<1>1. CASE HandleEvent
  <2>1. CASE peer_connected \/ peer_disconnected \/ owner_secured \/ candidate_secured
             \/ owner_connected \/ max_conn_changed \/ public_keys_changed
    BY <2>1
    DEF peer_connected, peer_disconnected, owner_secured, candidate_secured,
        owner_connected, max_conn_changed, public_keys_changed, fmna_public_keys_changed,
        limitVars, connVars
  <2>2. CASE state_changed
    BY <2>2 DEF state_changed
  <2>3. CASE config_event
    <3>1. CASE max_connections_request_handle(Head(batch).conn, Head(batch).arg)
               /\ Handling("SET_MAX_CONNECTIONS")
      <4>1. Head(batch).arg \in Nat
        BY <3>1, TypeSplit, HandlingType DEF PeerEvents, ConfigEvents
      <4>2. UNCHANGED limitVars
            \/ max_connections' = (IF Head(batch).arg > FMNA_MAX_CONN
                                   THEN FMNA_MAX_CONN ELSE Head(batch).arg)
        BY <3>1 DEF max_connections_request_handle
      <4>. QED  BY <4>1, <4>2 DEF limitVars
    <3>2. CASE \/ persistent_conn_request_handle(Head(batch).conn, Head(batch).arg)
               \/ nearby_timeout_set_request_handle(Head(batch).arg)
               \/ unpair_request_handle
      BY <3>2
      DEF persistent_conn_request_handle, nearby_timeout_set_request_handle,
          unpair_request_handle, limitVars, connVars
    <3>. QED  BY <2>3, <3>1, <3>2 DEF config_event
  <2>4. CASE pair_event
    BY <2>4
    DEF pair_event, pairing_cmd_rejected, initiate_pairing_cmd_handle,
        finalize_pairing_cmd_handle, pairing_complete_cmd_handle, limitVars, connVars
  <2>. QED  BY <1>1, <2>1, <2>2, <2>3, <2>4 DEF HandleEvent
<1>2. CASE \/ event_work \/ max_conn_work \/ persistent_conn_work \/ pairing_mode_work
           \/ key_timeout \/ key_work \/ paired_adv \/ pairing_mode_request
           \/ nearby_timeout \/ nearby_work \/ link_up \/ UNCHANGED vars
  BY <1>2
  DEF event_work, max_conn_work, max_conn_work_handle, persistent_conn_work,
      persistent_conn_work_handle, pairing_mode_work, pairing_mode_timeout_work_handle,
      key_timeout, key_rotation_timeout_handle, key_work, key_rotation_work_handle,
      paired_adv, fmna_paired_adv_disable, fmna_paired_adv_enable, pairing_mode_request,
      fmna_pairing_mode_cancel, fmna_pairing_mode_enter, nearby_timeout,
      nearby_separated_timeout_handle, nearby_work, nearby_separated_work_handle, link_up,
      connected_cb, vars, limitVars, connVars
<1>3. ASSUME NEW s \in Slots,
             \/ link_down(s) \/ link_secured(s) \/ security_error(s) \/ conn_timeout_work(s)
             \/ config_cp_write(s) \/ pairing_cp_write(s)
      PROVE  UNCHANGED max_connections
  BY <1>3
  DEF link_down, disconnected_cb, link_secured, secured_cb, security_error,
      security_failed_cb, conn_timeout_work, conn_timeout_work_handle, config_cp_write,
      pairing_cp_write, limitVars, connVars
<1>4. CASE fmna_enable
  <2>1. max_connections' = FMNA_MAX_CONN
    BY <1>4 DEF fmna_enable, fmna_conn_init
  <2>. QED  BY <2>1
<1>5. CASE fmna_disable
  BY <1>5 DEF fmna_disable, limitVars
<1>. QED  BY <1>1, <1>2, <1>3, <1>4, <1>5 DEF Next

LocationInv ==
  /\ OwnerInv
  /\ max_connections <= FMNA_MAX_CONN
  /\ location_reported <=> state \in {"NEARBY", "SEPARATED"}

LEMMA Told ==
  ASSUME NEW q, NEW new, NEW n, reported(q, new, n)
  PROVE  location_reported' <=> new \in {"NEARBY", "SEPARATED"}
<1>1. location_reported' = (new \in {"NEARBY", "SEPARATED"})
  BY DEF reported, is_location_available
<1>. QED  BY <1>1, Zenon

(* state_set() reports, or returns before it does. *)
LEMMA Reporting ==
  ASSUME NEW q, NEW new, NEW n, NEW ok, reported_if(ok, q, new, n)
  PROVE  /\ \/ location_reported' <=> new \in {"NEARBY", "SEPARATED"}
            \/ location_reported' = location_reported
         /\ ok => (location_reported' <=> new \in {"NEARBY", "SEPARATED"})
<1>1. CASE ok
  BY <1>1, Told DEF reported_if
<1>2. CASE ~ok
  BY <1>2 DEF reported_if, unreported, reportVars
<1>. QED  BY <1>1, <1>2

LEMMA LocationDisconnected ==
  ASSUME LocationInv, Enabled, peer_disconnected
  PROVE  location_reported' <=> state' \in {"NEARBY", "SEPARATED"}
<1>. DEFINE s == Head(batch).conn
<1>1. TypeOK /\ HandleEvent /\ Handling("PEER_DISCONNECTED") /\ OneReferencePerLink
  BY EnabledRecords
  DEF LocationInv, OwnerInv, LinkInv, ReferenceInv, HandleEvent, peer_disconnected
<1>2. CASE /\ state = "CONNECTED"
           /\ state_set(workq, limit_check, s, IF unpair_pending THEN "UNPAIRED" ELSE "NEARBY")
  <2>1. PICK new \in {"UNPAIRED", "NEARBY"} : state_set(workq, limit_check, s, new)
    BY <1>2
  <2>2. CASE new = "UNPAIRED"
    <3>1. enter_unpaired(workq, "UNPAIRED") /\ state' = "UNPAIRED"
      BY <1>2, <2>1, <2>2, FromConnected
    <3>2. reported_if(AUTO_ENTER => free_conn, workq, "UNPAIRED", 1)
      BY <3>1 DEF enter_unpaired
    <3>3. ~location_reported'
      BY <1>2, <3>2, Reporting DEF LocationInv
    <3>. QED  BY <3>1, <3>3
  <2>3. CASE new = "NEARBY"
    <3>1. enter_nearby(workq, s, "NEARBY") /\ state' \in {"NEARBY", "SEPARATED"}
      BY <1>2, <2>1, <2>3, FromConnected
    <3>2. s \in Slots /\ s \notin Live
      <4>1. s \in Slots
        BY <1>1, TypeSplit, HandlingType DEF PeerEvents, LinkEvents
      <4>2. 1 \in 1..Len(Backlog) /\ Backlog[1].id = "PEER_DISCONNECTED" /\ Backlog[1].conn = s
        BY <1>1, HandledFirst DEF Handling
      <4>. QED  BY <1>1, <4>1, <4>2, EndingWaits, EnabledRecords DEF LocationInv
    <3>3. paired_adv_ok
      BY <1>1, <3>2, FreeWithoutLink DEF paired_adv_ok
    <3>4. \E n : reported_if(paired_adv_ok, workq, state', n)
      BY <3>1 DEF enter_nearby
    <3>5. location_reported'
      BY <3>1, <3>3, <3>4, Reporting
    <3>. QED  BY <3>1, <3>5
  <2>. QED  BY <2>2, <2>3
<1>3. CASE UNCHANGED <<state, reportVars>>
  BY <1>3 DEF LocationInv, reportVars
<1>. QED  BY <1>2, <1>3 DEF peer_disconnected, all_owners_disconnected

LEMMA LocationConnected ==
  ASSUME LocationInv, Enabled, owner_connected
  PROVE  location_reported' <=> state' \in {"NEARBY", "SEPARATED"}
<1>1. state_set(workq, limit_check, Head(batch).conn, "CONNECTED")
  BY DEF owner_connected
<1>2. state' = "CONNECTED"
  BY <1>1, ToConnected
<1>3. CASE state = "CONNECTED"
  <2>1. UNCHANGED reportVars
    BY <1>1, <1>3, ToConnected DEF unchanged_state, unreported
  <2>. QED  BY <1>2, <1>3, <2>1 DEF LocationInv, reportVars
<1>4. CASE state # "CONNECTED"
  <2>1. enter_connected(workq, limit_check, "CONNECTED")
    BY <1>1, <1>4, ToConnected
  <2>2. limit_check => paired_adv_ok
    BY ObjectBelowLimit DEF LocationInv, paired_adv_ok
  <2>3. reported(workq, "CONNECTED", 1)
    BY <2>1, <2>2 DEF enter_connected, reported_if
  <2>4. ~location_reported'
    BY <2>3, Told
  <2>. QED  BY <1>2, <2>4
<1>. QED  BY <1>3, <1>4

LEMMA LocationEnable ==
  ASSUME Orderly, LocationInv, fmna_enable, ~Enabled
  PROVE  location_reported' <=> state' \in {"NEARBY", "SEPARATED"}
<1>1. TypeOK /\ OneReferencePerLink /\ ~location_reported /\ Live = {}
  BY DEF LocationInv, OwnerInv, LinkInv, ReferenceInv, Enabled, fmna_enable, Orderly
<1>2. paired_adv_ok
  <2>1. 1 \in Slots /\ 1 \notin Live
    BY <1>1, ConnAssumption DEF Slots
  <2>. QED  BY <1>1, <2>1, FreeWithoutLink DEF paired_adv_ok
<1>3. CASE state' = "SEPARATED"
  <2>1. reported_if(paired_adv_ok, workq, "SEPARATED", 1)
    BY <1>3, EnabledFirst DEF enter_separated
  <2>2. location_reported'
    BY <1>2, <2>1, Reporting
  <2>. QED  BY <1>3, <2>2
<1>4. CASE state' = "UNPAIRED"
  <2>1. reported_if(AUTO_ENTER => free_conn, workq, "UNPAIRED", 1)
    BY <1>4, EnabledFirst DEF enter_unpaired
  <2>2. ~location_reported'
    BY <1>1, <2>1, Reporting
  <2>. QED  BY <1>4, <2>2
<1>. QED  BY <1>3, <1>4, EnabledFirst

LEMMA LocationInvNext ==
  ASSUME Orderly, LocationInv, [Next]_vars
  PROVE  LocationInv'
<1>1. OwnerInv /\ OwnerInv' /\ LinkInv /\ ReferenceInv' /\ RecordsInv' /\ TypeOK
  BY OwnerInvNext DEF LocationInv, OwnerInv, LinkInv, ReferenceInv
<1>2. max_connections' <= FMNA_MAX_CONN
  BY <1>1, LimitKept DEF LocationInv
<1>. SUFFICES location_reported' <=> state' \in {"NEARBY", "SEPARATED"}
  BY <1>1, <1>2 DEF LocationInv
<1>3. CASE InnerStep /\ ~Special
  BY <1>3, Settled, KeysSettled DEF reportVars, LocationInv
<1>4. CASE InnerStep /\ Special
  <2>1. Enabled
    BY <1>1, <1>4, SpecialEnabled
  <2>2. CASE peer_disconnected
    BY <2>1, <2>2, LocationDisconnected
  <2>3. CASE owner_secured
    BY <2>3 DEF owner_secured, stateVars, reportVars, LocationInv
  <2>4. CASE owner_connected
    BY <2>1, <2>4, LocationConnected
  <2>5. CASE pairing_complete
    <3>1. state = "UNPAIRED" /\ enter_connected(workq, limit_check, "CONNECTED")
      BY <1>1, <2>1, <2>5, Completing DEF pairing_complete, pairing_complete_cmd_handle
    <3>2. /\ state' = "CONNECTED"
          /\ reported_if(state # "UNPAIRED" /\ limit_check => paired_adv_ok, workq, "CONNECTED", 1)
      BY <3>1 DEF enter_connected
    <3>3. ~location_reported'
      BY <3>1, <3>2, Reporting DEF LocationInv
    <3>. QED  BY <3>2, <3>3
  <2>6. CASE nearby_work
    <3>1. state = "NEARBY"
      BY <1>1, <2>1, <2>6, EnabledRecords
      DEF NearbyTimerArmed, nearby_work, nearby_separated_work_handle, Running, Queued
    <3>2. enter_separated(Tail(workq), "SEPARATED") /\ state' = "SEPARATED"
      BY <2>6, <3>1, ToSeparated DEF nearby_work, nearby_separated_work_handle
    <3>3. reported_if(paired_adv_ok, Tail(workq), "SEPARATED", 1)
      BY <3>2 DEF enter_separated
    <3>4. location_reported'
      BY <3>1, <3>3, Reporting DEF LocationInv
    <3>. QED  BY <3>2, <3>4
  <2>. QED  BY <1>4, <2>2, <2>3, <2>4, <2>5, <2>6 DEF Special
<1>5. CASE link_up \/ \E s \in Slots : link_down(s)
  BY <1>5 DEF link_up, link_down, aboveConn, stateVars, reportVars, LocationInv
<1>6. CASE fmna_enable
  BY <1>1, <1>6, LinkInvEnable, LocationEnable
<1>7. CASE fmna_disable
  <2>1. state' = "DISABLED" /\ location_reported' = is_location_available("DISABLED")
    BY <1>7 DEF fmna_disable, enter_disabled, reported
  <2>. QED  BY <2>1 DEF is_location_available
<1>. QED  BY <1>3, <1>4, <1>5, <1>6, <1>7 DEF Next, InnerStep

(* Once the events are handled, the application has been told "available"   *)
(* exactly when the accessory is paired and no owner is connected, if peers *)
(* and application respect the steps of Orderly: although state_set()       *)
(* returns before it reports when advertising does not start, which the     *)
(* connection limit and the references given back by then prevent.          *)
THEOREM AvailabilityIsReported ==
  ASSUME Orderly
  PROVE  Spec => []AvailabilityReported
<1>1. Init => LocationInv
  <2>1. FMNA_MAX_CONN <= FMNA_MAX_CONN
    BY LimitAssumption, ConnAssumption
  <2>. QED  BY <2>1, OwnerInvInit DEF Init, LocationInv
<1>2. LocationInv /\ [Next]_vars => LocationInv'
  BY LocationInvNext
<1>3. LocationInv => AvailabilityReported
  <2>. SUFFICES ASSUME LocationInv, NothingQueued, ready
                PROVE  location_reported <=> is_paired /\ owner \cap Live = {}
    BY DEF AvailabilityReported
  <2>1. state = "CONNECTED" <=> owner \cap Live # {}
    BY TrackedAtRest DEF LocationInv, OwnerTracked
  <2>2. TypeOK /\ Enabled
    BY DEF LocationInv, OwnerInv, LinkInv, ReferenceInv, ReadyEnabled
  <2>3. is_paired <=> state \in {"CONNECTED", "NEARBY", "SEPARATED"}
    BY <2>2 DEF is_paired, Enabled, TypeOK, ConnTypeOK, States
  <2>. QED  BY <2>1, <2>3 DEF LocationInv
<1>. QED  BY <1>1, <1>2, <1>3, PTL DEF Spec

-----------------------------------------------------------------------------
(* Advertising.                                                             *)

(* What the steps that leave the state alone make of advertising, of the    *)
(* pairing mode and of the pause.                                           *)
LEMMA AdvSettled ==
  ASSUME InnerStep, ~Special
  PROVE  /\ \/ adv' = adv \/ adv' = advertise_restart(limit_check)
            \/ paired_adv \/ pairing_mode_work \/ pairing_mode_request
         /\ UNCHANGED is_paired_adv_paused \/ paired_adv
         /\ \/ UNCHANGED <<pairing_mode, pairing_timer>>
            \/ pairing_mode_work \/ pairing_mode_request
<1>1. CASE HandleEvent
  <2>1. CASE peer_connected \/ candidate_secured \/ max_conn_changed \/ state_changed
    BY <2>1
    DEF peer_connected, candidate_secured, max_conn_changed, state_changed, stateVars, modeVars
  <2>2. CASE public_keys_changed
    BY <2>2 DEF public_keys_changed, fmna_public_keys_changed
  <2>3. CASE config_event
    BY <2>3
    DEF config_event, persistent_conn_request_handle, max_connections_request_handle,
        nearby_timeout_set_request_handle, unpair_request_handle, stateVars, modeVars
  <2>4. CASE pair_event
    BY <2>4
    DEF Special, pairing_complete, pair_event, pairing_cmd_rejected,
        initiate_pairing_cmd_handle, finalize_pairing_cmd_handle, stateVars, modeVars
  <2>. QED  BY <1>1, <2>1, <2>2, <2>3, <2>4 DEF HandleEvent, Special
<1>2. CASE \/ event_work \/ max_conn_work \/ persistent_conn_work \/ pairing_mode_work
           \/ key_timeout \/ key_work \/ paired_adv \/ pairing_mode_request
           \/ UNCHANGED vars
  BY <1>2
  DEF event_work, max_conn_work, max_conn_work_handle, persistent_conn_work,
      persistent_conn_work_handle, pairing_mode_work, pairing_mode_timeout_work_handle,
      key_timeout, key_rotation_timeout_handle, key_work, key_rotation_work_handle,
      paired_adv, fmna_paired_adv_disable, fmna_paired_adv_enable, pairing_mode_request,
      fmna_pairing_mode_cancel, fmna_pairing_mode_enter, vars, stateVars, modeVars, aboveConn
<1>3. CASE nearby_timeout
  BY <1>3 DEF nearby_timeout, nearby_separated_timeout_handle, modeVars
<1>4. ASSUME NEW s \in Slots,
             \/ link_secured(s) \/ security_error(s) \/ conn_timeout_work(s)
             \/ config_cp_write(s) \/ pairing_cp_write(s)
      PROVE  UNCHANGED <<adv, is_paired_adv_paused, pairing_mode, pairing_timer>>
  BY <1>4
  DEF link_secured, secured_cb, security_error, security_failed_cb, conn_timeout_work,
      conn_timeout_work_handle, config_cp_write, pairing_cp_write, stateVars, modeVars,
      aboveConn
<1>. QED  BY <1>1, <1>2, <1>3, <1>4 DEF InnerStep, Special

(* The pairing mode belongs to UNPAIRED, with its timer: advertising of the *)
(* paired states is not stopped by it.                                      *)
ModeUnpaired == pairing_mode \/ pairing_timer => state = "UNPAIRED"

LEMMA ModeKept ==
  ASSUME Orderly, OwnerInv, ModeUnpaired, [Next]_vars
  PROVE  ModeUnpaired'
<1>1. TypeOK /\ LinkInv
  BY DEF OwnerInv, LinkInv, ReferenceInv
<1>2. CASE InnerStep /\ ~Special
  <2>1. state' = state
    BY <1>2, Settled
  <2>2. CASE UNCHANGED <<pairing_mode, pairing_timer>>
    BY <2>1, <2>2 DEF ModeUnpaired
  <2>3. CASE pairing_mode_work
    BY <2>1, <2>3 DEF pairing_mode_work, pairing_mode_timeout_work_handle, ModeUnpaired
  <2>4. CASE pairing_mode_request
    BY <2>1, <2>4
    DEF pairing_mode_request, fmna_pairing_mode_cancel, fmna_pairing_mode_enter, ModeUnpaired
  <2>. QED  BY <1>2, <2>2, <2>3, <2>4, AdvSettled
<1>3. CASE InnerStep /\ Special
  <2>1. Enabled
    BY <1>3, SpecialEnabled
  <2>2. CASE UNCHANGED <<state, modeVars>>
    BY <2>2 DEF modeVars, ModeUnpaired
  <2>3. CASE peer_disconnected /\ ~UNCHANGED <<state, modeVars>>
    <3>1. PICK new \in {"UNPAIRED", "NEARBY"} :
            state_set(workq, limit_check, Head(batch).conn, new) /\ state = "CONNECTED"
      BY <2>3 DEF peer_disconnected, all_owners_disconnected
    <3>2. CASE new = "UNPAIRED"
      BY <3>1, <3>2, FromConnected DEF ModeUnpaired
    <3>3. CASE new = "NEARBY"
      BY <3>1, <3>3, FromConnected DEF enter_nearby, ModeUnpaired
    <3>. QED  BY <3>2, <3>3
  <2>4. CASE owner_secured
    BY <2>2, <2>4 DEF owner_secured, stateVars
  <2>5. CASE owner_connected \/ pairing_complete
    <3>1. \/ enter_connected(workq, limit_check, "CONNECTED")
          \/ unchanged_state(workq, limit_check, "CONNECTED")
      BY <2>5, ToConnected
      DEF owner_connected, pairing_complete, pairing_complete_cmd_handle
    <3>2. CASE unchanged_state(workq, limit_check, "CONNECTED")
      BY <2>2, <3>2 DEF unchanged_state
    <3>3. CASE enter_connected(workq, limit_check, "CONNECTED")
      <4>1. /\ pairing_mode'  = pairing_mode_exit(pairing_mode)
            /\ pairing_timer' = pairing_mode_exit(pairing_timer)
        BY <3>3 DEF enter_connected
      <4>2. ~pairing_mode' /\ ~pairing_timer'
        BY <4>1, Zenon DEF pairing_mode_exit, ModeUnpaired
      <4>. QED  BY <4>2 DEF ModeUnpaired
    <3>. QED  BY <3>1, <3>2, <3>3
  <2>6. CASE nearby_work
    <3>1. state = "NEARBY"
      BY <2>1, <2>6, EnabledRecords
      DEF NearbyTimerArmed, nearby_work, nearby_separated_work_handle, Running, Queued
    <3>2. UNCHANGED modeVars
      BY <2>6, <3>1, ToSeparated DEF nearby_work, nearby_separated_work_handle
    <3>. QED  BY <3>1, <3>2 DEF modeVars, ModeUnpaired
  <2>. QED  BY <1>3, <2>2, <2>3, <2>4, <2>5, <2>6 DEF Special
<1>4. CASE link_up \/ \E s \in Slots : link_down(s)
  BY <1>4 DEF link_up, link_down, aboveConn, stateVars, modeVars, ModeUnpaired
<1>5. CASE fmna_enable
  <2>1. ~Enabled /\ ~pairing_mode /\ ~pairing_timer
    <3>1. ~Enabled
      BY <1>1, <1>5 DEF fmna_enable, LinkInv, ReadyEnabled
    <3>. QED  BY <3>1 DEF ModeUnpaired, Enabled
  <2>2. CASE state' = "SEPARATED"
    BY <1>5, <2>1, <2>2, EnabledFirst DEF enter_separated, modeVars, ModeUnpaired
  <2>3. CASE state' = "UNPAIRED"
    BY <2>3 DEF ModeUnpaired
  <2>. QED  BY <1>5, <2>1, <2>2, <2>3, EnabledFirst
<1>6. CASE fmna_disable
  BY <1>6 DEF fmna_disable, enter_disabled, ModeUnpaired
<1>. QED  BY <1>2, <1>3, <1>4, <1>5, <1>6 DEF Next, InnerStep

(* An accessory in NEARBY or SEPARATED below the limit is on air with the   *)
(* payload of its state, or an event waits whose handling starts            *)
(* advertising.                                                             *)
Refreshing == {"PEER_CONNECTED", "PEER_DISCONNECTED", "MAX_CONN_CHANGED"}
Refreshed  == \E id \in Refreshing : Has(Backlog, id)

RightAdv == adv.kind = IF state = "NEARBY" THEN "nearby" ELSE "separated"

FindableSoon ==
  state \in {"NEARBY", "SEPARATED"} /\ limit_check /\ ~is_paired_adv_paused =>
    RightAdv \/ Refreshed

FindInv == LocationInv /\ ModeUnpaired /\ FindableSoon

LEMMA OnAir ==
  ASSUME free_conn, NEW kind
  PROVE  AdvOnAir(kind).kind = kind
BY DEF free_conn, AdvOnAir

LEMMA Restarted ==
  ASSUME LocationInv, limit_check, ~is_paired_adv_paused, state \in {"NEARBY", "SEPARATED"}
  PROVE  /\ free_conn
         /\ advertise_restart(limit_check).kind =
              IF state = "NEARBY" THEN "nearby" ELSE "separated"
<1>1. free_conn
  BY ObjectBelowLimit DEF LocationInv, Enabled
<1>2. CASE state = "NEARBY"
  <2>1. advertise_restart(limit_check) = AdvOnAir("nearby")
    BY <1>2 DEF advertise_restart, paired_adv_start
  <2>. QED  BY <1>1, <1>2, <2>1, OnAir
<1>3. CASE state = "SEPARATED"
  <2>1. advertise_restart(limit_check) = AdvOnAir("separated")
    BY <1>3 DEF advertise_restart, paired_adv_start
  <2>. QED  BY <1>1, <1>3, <2>1, OnAir
<1>. QED  BY <1>2, <1>3

LEMMA RefreshedKept ==
  ASSUME TypeOK, Refreshed, NEW k \in {0, 1}, NEW evs \in Seq(Event), Flow(k, evs),
         k = 1 => Backlog[1].id \notin Refreshing
  PROVE  Refreshed'
<1>1. PICK i \in 1..Len(Backlog) : Backlog[i].id \in Refreshing
  BY DEF Refreshed, Has
<1>2. i > k
  BY <1>1
<1>3. i - k \in 1..Len(Backlog') /\ Backlog'[i - k] = Backlog[i]
  BY <1>2, FlowForward
<1>. QED  BY <1>1, <1>3 DEF Refreshed, Has

(* The new limit is announced.                                              *)
LEMMA LimitSettled ==
  ASSUME TypeOK, InnerStep, ~Special
  PROVE  /\ UNCHANGED <<is_valid, is_disconnecting>>
         /\ max_connections' = max_connections \/ state = "UNPAIRED" \/ Refreshed'
<1>1. is_valid' = is_valid
  BY Settled
<1>2. CASE HandleEvent
  <2>1. CASE peer_connected \/ candidate_secured \/ max_conn_changed \/ public_keys_changed
    BY <1>1, <2>1
    DEF peer_connected, candidate_secured, max_conn_changed, public_keys_changed,
        fmna_public_keys_changed, limitVars, connVars, recordVars
  <2>2. CASE state_changed
    BY <1>1, <2>2 DEF state_changed, recordVars
  <2>3. CASE config_event
    <3>1. CASE /\ max_connections_request_handle(Head(batch).conn, Head(batch).arg)
               /\ Handling("SET_MAX_CONNECTIONS")
      <4>. DEFINE e == Ev("MAX_CONN_CHANGED", Head(batch).conn)
      <4>1. is_disconnecting' = is_disconnecting
            /\ (UNCHANGED max_connections \/ Post(<<e>>))
        BY <3>1 DEF max_connections_request_handle, recordVars, limitVars
      <4>2. ASSUME Post(<<e>>) PROVE Refreshed'
        <5>1. e \in Event /\ e.id \in Refreshing
          BY <3>1, TypeSplit, HandlingType, EventType
          DEF PeerEvents, LinkEvents, ConfigEvents, Ev, Refreshing
        <5>. HIDE DEF e
        <5>. DEFINE evs == <<e>>
        <5>2. evs \in Seq(Event) /\ Len(evs) = 1 /\ evs[1] = e /\ events' = events \o evs
          BY <4>2, <5>1 DEF Post, PostOn
        <5>. HIDE DEF evs
        <5>3. Flow(1, evs) /\ Len(Backlog) \in Nat
          BY <3>1, <5>2, FlowHandled, BacklogType
        <5>4. Len(Backlog) \in 1..Len(Backlog') /\ Backlog'[Len(Backlog)] = e
          BY <5>2, <5>3 DEF Flow
        <5>. QED  BY <5>1, <5>4 DEF Refreshed, Has
      <4>. QED  BY <1>1, <4>1, <4>2
    <3>2. CASE \/ persistent_conn_request_handle(Head(batch).conn, Head(batch).arg)
               \/ nearby_timeout_set_request_handle(Head(batch).arg)
               \/ unpair_request_handle
      BY <1>1, <3>2
      DEF persistent_conn_request_handle, nearby_timeout_set_request_handle,
          unpair_request_handle, limitVars, connVars, recordVars
    <3>. QED  BY <2>3, <3>1, <3>2 DEF config_event
  <2>4. CASE pair_event
    BY <1>1, <2>4
    DEF Special, pairing_complete, pair_event, pairing_cmd_rejected,
        initiate_pairing_cmd_handle, finalize_pairing_cmd_handle, limitVars, connVars, recordVars
  <2>. QED  BY <1>2, <2>1, <2>2, <2>3, <2>4 DEF HandleEvent, Special
<1>3. CASE \/ event_work \/ max_conn_work \/ persistent_conn_work \/ pairing_mode_work
           \/ key_timeout \/ key_work \/ paired_adv \/ pairing_mode_request
           \/ nearby_timeout \/ UNCHANGED vars
  BY <1>1, <1>3
  DEF event_work, max_conn_work, max_conn_work_handle, persistent_conn_work,
      persistent_conn_work_handle, pairing_mode_work, pairing_mode_timeout_work_handle,
      key_timeout, key_rotation_timeout_handle, key_work, key_rotation_work_handle,
      paired_adv, fmna_paired_adv_disable, fmna_paired_adv_enable, pairing_mode_request,
      fmna_pairing_mode_cancel, fmna_pairing_mode_enter, nearby_timeout,
      nearby_separated_timeout_handle, vars, limitVars, connVars, recordVars
<1>4. ASSUME NEW s \in Slots,
             \/ link_secured(s) \/ security_error(s) \/ conn_timeout_work(s)
             \/ config_cp_write(s) \/ pairing_cp_write(s)
      PROVE  UNCHANGED <<max_connections, is_disconnecting>>
  BY <1>4
  DEF link_secured, secured_cb, security_error, security_failed_cb, conn_timeout_work,
      conn_timeout_work_handle, config_cp_write, pairing_cp_write, limitVars, connVars,
      recordVars
<1>. QED  BY <1>1, <1>2, <1>3, <1>4 DEF InnerStep, Special

LEMMA FindableSettled ==
  ASSUME FindInv, InnerStep, ~Special
  PROVE  FindableSoon'
<1>1. TypeOK /\ state' = state
  BY Settled DEF FindInv, LocationInv, OwnerInv, LinkInv, ReferenceInv
<1>. SUFFICES ASSUME state \in {"NEARBY", "SEPARATED"}, limit_check',
                     ~is_paired_adv_paused', ~Refreshed'
              PROVE  RightAdv'
  BY <1>1 DEF FindableSoon
<1>2. limit_check
  BY <1>1, LimitSettled DEF limit_check
<1>3. CASE adv' = advertise_restart(limit_check) /\ ~is_paired_adv_paused
  BY <1>1, <1>2, <1>3, Restarted DEF FindInv, RightAdv
<1>4. CASE paired_adv
  <2>1. fmna_paired_adv_enable
    BY <1>4 DEF paired_adv, fmna_paired_adv_disable
  <2>2. is_paired /\ free_conn
    BY <1>2, ObjectBelowLimit DEF is_paired, FindInv, LocationInv, Enabled
  <2>3. adv' = AdvOnAir(IF state = "SEPARATED" THEN "separated" ELSE "nearby")
    BY <1>2, <2>1, <2>2 DEF fmna_paired_adv_enable
  <2>. QED  BY <1>1, <2>2, <2>3, OnAir DEF RightAdv
<1>5. CASE adv' = adv /\ ~is_paired_adv_paused
  <2>1. RightAdv \/ Refreshed
    BY <1>2, <1>5 DEF FindInv, FindableSoon
  <2>2. ASSUME Refreshed PROVE RightAdv'
    <3>1. PICK k \in {0, 1} : \E evs \in Seq(Event) : Flow(k, evs) /\ (k = 1 => HandleEvent)
      BY <1>1, HandlerFlow, WorkFlow
    <3>2. k = 1 /\ HandleEvent /\ Backlog[1].id \in Refreshing
      BY <1>1, <2>2, <3>1, RefreshedKept
    <3>3. Head(batch).id \in Refreshing
      BY <1>1, <3>2, HandledFirst
    <3>4. peer_connected \/ max_conn_changed
      BY <3>2, <3>3
      DEF Refreshing, HandleEvent, peer_connected, peer_disconnected, owner_secured,
          candidate_secured, owner_connected, max_conn_changed, state_changed,
          public_keys_changed, config_event, pair_event, pairing_cmd_rejected,
          initiate_pairing_cmd_handle, finalize_pairing_cmd_handle,
          pairing_complete_cmd_handle, PairEvents, Handling, Special
    <3>5. adv' = advertise_restart(limit_check)
      BY <3>4 DEF peer_connected, max_conn_changed
    <3>. QED  BY <1>3, <1>5, <3>5
  <2>3. ASSUME RightAdv PROVE RightAdv'
    BY <1>1, <1>5, <2>3 DEF RightAdv
  <2>. QED  BY <2>1, <2>2, <2>3
<1>6. ~pairing_mode_work /\ ~pairing_mode_request
  BY DEF pairing_mode_work, pairing_mode_timeout_work_handle, pairing_mode_request,
         fmna_pairing_mode_cancel, fmna_pairing_mode_enter, FindInv, ModeUnpaired
<1>. QED  BY <1>3, <1>4, <1>5, <1>6, AdvSettled

(* Handling the end of a link takes its record, which no longer counted.    *)
LEMMA FindableDisconnected ==
  ASSUME FindInv, Enabled, peer_disconnected, OwnerInv', state' \in {"NEARBY", "SEPARATED"}
  PROVE  FindableSoon'
<1>. DEFINE s == Head(batch).conn
<1>1. TypeOK /\ HandleEvent /\ InnerStep /\ Handling("PEER_DISCONNECTED") /\ OneReferencePerLink
  BY EnabledRecords
  DEF FindInv, LocationInv, OwnerInv, LinkInv, ReferenceInv, HandleEvent, InnerStep,
      peer_disconnected
<1>. SUFFICES ASSUME limit_check', ~is_paired_adv_paused' PROVE RightAdv'
  BY DEF FindableSoon
<1>2. limit_check /\ ~is_paired_adv_paused
  <2>1. is_valid \ is_disconnecting = Live /\ (is_valid \ is_disconnecting = Live)'
    BY DEF FindInv, LocationInv, OwnerInv, LinkInv, RecordsInv, RecordsTracked, ReadyEnabled, Enabled
  <2>2. Live' = Live
    BY <1>1, SteadySteps DEF Steady
  <2>3. UNCHANGED <<max_connections, is_paired_adv_paused>>
    BY DEF peer_disconnected, limitVars
  <2>. QED  BY <2>1, <2>2, <2>3 DEF limit_check, connection_num
<1>3. CASE /\ state = "CONNECTED"
           /\ state_set(workq, limit_check, s, IF unpair_pending THEN "UNPAIRED" ELSE "NEARBY")
  <2>1. PICK new \in {"UNPAIRED", "NEARBY"} : state_set(workq, limit_check, s, new)
    BY <1>3
  <2>2. enter_nearby(workq, s, "NEARBY")
    BY <1>3, <2>1, FromConnected
  <2>3. free_conn
    BY <1>2, ObjectBelowLimit DEF FindInv, LocationInv
  <2>4. adv' = AdvOnAir(IF state' = "NEARBY" THEN "nearby" ELSE "separated")
    BY <1>2, <2>2 DEF enter_nearby, paired_adv_start
  <2>. QED  BY <2>3, <2>4, OnAir DEF RightAdv
<1>4. CASE adv' = advertise_restart(limit_check) /\ state' = state
  BY <1>2, <1>4, Restarted DEF FindInv, RightAdv
<1>. QED  BY <1>3, <1>4 DEF peer_disconnected, all_owners_disconnected

LEMMA FindInvNext ==
  ASSUME Orderly, FindInv, [Next]_vars
  PROVE  FindInv'
<1>1. /\ LocationInv /\ LocationInv' /\ ModeUnpaired' /\ OwnerInv /\ OwnerInv'
      /\ LinkInv /\ ReferenceInv' /\ RecordsInv' /\ TypeOK
  BY LocationInvNext, ModeKept, OwnerInvNext
  DEF FindInv, LocationInv, OwnerInv, LinkInv, ReferenceInv
<1>. SUFFICES ASSUME state' \in {"NEARBY", "SEPARATED"}
              PROVE  FindableSoon'
  BY <1>1 DEF FindInv, FindableSoon
<1>2. CASE InnerStep /\ ~Special
  BY <1>2, FindableSettled
<1>3. CASE InnerStep /\ Special
  <2>1. Enabled
    BY <1>1, <1>3, SpecialEnabled
  <2>2. CASE peer_disconnected
    BY <1>1, <2>1, <2>2, FindableDisconnected
  <2>3. CASE owner_secured
    <3>1. /\ UNCHANGED <<adv, state, is_paired_adv_paused>> /\ UNCHANGED limit_check
          /\ HandleEvent /\ Handling("PEER_SECURITY_CHANGED")
      BY <2>3
      DEF owner_secured, stateVars, limitVars, limit_check, HandleEvent
    <3>2. Refreshed => Refreshed'
      <4>1. PICK evs \in Seq(Event) : Flow(1, evs)
        BY <1>1, <3>1, HandlerFlow
      <4>2. Backlog[1].id \notin Refreshing
        BY <1>1, <3>1, HandledFirst DEF Handling, Refreshing
      <4>. QED  BY <1>1, <4>1, <4>2, RefreshedKept
    <3>. QED  BY <3>1, <3>2 DEF FindInv, FindableSoon, RightAdv
  <2>4. ~owner_connected /\ ~pairing_complete
    <3>1. owner_connected => state' = "CONNECTED"
      BY ToConnected DEF owner_connected
    <3>2. pairing_complete => state' = "CONNECTED"
      BY DEF pairing_complete, pairing_complete_cmd_handle, enter_connected
    <3>. QED  BY <3>1, <3>2
  <2>5. CASE nearby_work
    <3>1. state = "NEARBY"
      BY <1>1, <2>1, <2>5, EnabledRecords
      DEF NearbyTimerArmed, nearby_work, nearby_separated_work_handle, Running, Queued
    <3>2. /\ enter_separated(Tail(workq), "SEPARATED") /\ state' = "SEPARATED"
          /\ UNCHANGED is_paired_adv_paused /\ UNCHANGED limit_check
      BY <2>5, <3>1, ToSeparated
      DEF nearby_work, nearby_separated_work_handle, connVars, recordVars, limitVars,
          limit_check
    <3>3. limit_check' /\ ~is_paired_adv_paused' => adv' = AdvOnAir("separated") /\ free_conn
      BY <1>1, <2>1, <3>2, ObjectBelowLimit DEF enter_separated, paired_adv_start, LocationInv
    <3>. QED  BY <3>2, <3>3, OnAir DEF FindableSoon, RightAdv
  <2>. QED  BY <1>3, <2>2, <2>3, <2>4, <2>5 DEF Special
<1>4. CASE link_up \/ \E s \in Slots : link_down(s)
  <2>1. UNCHANGED state /\ Enabled
    BY <1>4 DEF link_up, link_down, aboveConn, stateVars, Enabled
  <2>2. PICK e \in Event : Post(<<e>>) /\ e.id \in Refreshing /\ batch' = batch
    <3>1. CASE link_up
      <4>1. adv.slot \in Slots
        BY <1>1, <3>1 DEF link_up, connected_cb, TypeOK, ConnTypeOK, Adv, NoAdv
      <4>2. Post(<<Ev("PEER_CONNECTED", adv.slot)>>) /\ batch' = batch
        BY <2>1, <3>1 DEF link_up, connected_cb, is_enabled, Enabled
      <4>. QED  BY <4>1, <4>2, EventType DEF PeerEvents, LinkEvents, Ev, Refreshing
    <3>2. CASE \E s \in Slots : link_down(s)
      <4>1. PICK s \in Slots : link_down(s)
        BY <3>2
      <4>2. Post(<<Ev("PEER_DISCONNECTED", s)>>) /\ batch' = batch
        BY <2>1, <4>1 DEF link_down, disconnected_cb, is_enabled, Enabled
      <4>. QED  BY <4>2, EventType DEF PeerEvents, LinkEvents, Ev, Refreshing
    <3>. QED  BY <1>4, <3>1, <3>2
  <2>3. Refreshed'
    <3>1. Len(Backlog') = Len(Backlog) + 1 /\ Backlog'[Len(Backlog) + 1] = e /\ Len(Backlog) \in Nat
      BY <1>1, <2>2, FlowOne, BacklogType
    <3>. QED  BY <2>2, <3>1 DEF Refreshed, Has
  <2>. QED  BY <2>3 DEF FindableSoon
<1>5. CASE fmna_enable
  <2>1. ~Enabled
    BY <1>1, <1>5 DEF fmna_enable, LinkInv, ReadyEnabled
  <2>2. state' = "SEPARATED" /\ enter_separated(workq, "SEPARATED")
    BY <1>5, <2>1, EnabledFirst
  <2>3. is_paired_adv_paused' = is_paired_adv_paused
    BY <1>5 DEF fmna_enable
  <2>4. free_conn
    <3>1. OneReferencePerLink /\ Live = {} /\ 1 \in Slots
      BY <1>1, <1>5, ConnAssumption DEF LinkInv, ReferenceInv, fmna_enable, Orderly, Slots
    <3>. QED  BY <1>1, <3>1, FreeWithoutLink
  <2>5. ~is_paired_adv_paused' => adv' = AdvOnAir("separated")
    BY <2>2, <2>3 DEF enter_separated, paired_adv_start
  <2>. QED  BY <2>2, <2>4, <2>5, OnAir DEF FindableSoon, RightAdv
<1>6. ~fmna_disable
  BY DEF fmna_disable, enter_disabled
<1>. QED  BY <1>2, <1>3, <1>4, <1>5, <1>6 DEF Next, InnerStep

(* A paired accessory without its owner can be found below the connection   *)
(* limit, once the events are handled, if peers and application respect the *)
(* steps of Orderly: although callbacks take the advertising set off air,   *)
(* give back connection objects and lower the count of links long before    *)
(* the events that start advertising again are handled.                     *)
THEOREM AccessoryIsFindable ==
  ASSUME Orderly
  PROVE  Spec => []Findable
<1>1. Init => FindInv
  <2>1. FMNA_MAX_CONN <= FMNA_MAX_CONN
    BY LimitAssumption, ConnAssumption
  <2>. QED
    BY <2>1, OwnerInvInit DEF Init, FindInv, LocationInv, ModeUnpaired, FindableSoon
<1>2. FindInv /\ [Next]_vars => FindInv'
  BY FindInvNext
<1>3. FindInv => Findable
  <2>. SUFFICES ASSUME FindInv, NothingQueued PROVE ~Refreshed
    BY DEF FindInv, FindableSoon, RightAdv, Findable
  <2>1. Backlog = <<>>
    BY ConcatEmptySeq DEF NothingQueued, Backlog
  <2>. QED  BY <2>1 DEF Refreshed, Has
<1>. QED  BY <1>1, <1>2, <1>3, PTL DEF Spec

-----------------------------------------------------------------------------
(* The payload on air.                                                      *)

(* Where a pairing payload cannot be left on air: UNPAIRED puts its own     *)
(* payload on air, and nobody pairs while the paired payloads are paused.   *)
Matching ==
  /\ AUTO_ENTER
  /\ "paired_adv" \notin AppCalls \/ "PAIRING_COMPLETE" \notin Commands

AdvKindOK ==
  /\ adv.kind \in {"nearby", "separated"} => is_paired
  /\ adv.kind = "unpaired" => state \in {"UNPAIRED", "CONNECTED"}
  /\ adv.kind = "unpaired" /\ is_paired_adv_paused => state = "UNPAIRED"

NeverPaused    == "paired_adv" \notin AppCalls => ~is_paired_adv_paused
NeverCompleted == "PAIRING_COMPLETE" \notin Commands => ~Has(Backlog, "PAIRING_COMPLETE")

MatchInv == FindInv /\ AdvKindOK /\ NeverPaused /\ NeverCompleted

LEMMA AirKind ==
  ASSUME NEW kind
  PROVE  AdvOnAir(kind).kind \in {kind, "off"}
BY DEF AdvOnAir, NoAdv

LEMMA PairedKind ==
  ASSUME NEW kind \in {"nearby", "separated"}
  PROVE  \/ ~is_paired_adv_paused /\ paired_adv_start(kind).kind \in {"nearby", "separated", "off"}
         \/ is_paired_adv_paused /\ paired_adv_start(kind) = adv
BY AirKind DEF paired_adv_start

LEMMA RestartKind ==
  ASSUME TypeOK, AdvKindOK, NEW b, adv' = advertise_restart(b),
         UNCHANGED <<state, is_paired_adv_paused>>, b \in BOOLEAN
  PROVE  AdvKindOK'
<1>1. CASE adv' = adv
  BY <1>1 DEF AdvKindOK, is_paired
<1>2. CASE adv'.kind = "off"
  BY <1>2 DEF AdvKindOK
<1>3. CASE state = "UNPAIRED" /\ adv' = AdvOnAir("unpaired")
  BY <1>3, AirKind DEF AdvKindOK
<1>4. CASE is_paired /\ \E kind \in {"nearby", "separated"} : adv' = paired_adv_start(kind)
  <2>1. adv'.kind \in {"nearby", "separated", "off"} \/ adv' = adv
    BY <1>4, PairedKind
  <2>2. is_paired'
    BY <1>4 DEF is_paired
  <2>. QED  BY <1>1, <2>1, <2>2 DEF AdvKindOK
<1>5. state \in {"UNPAIRED", "CONNECTED", "NEARBY", "SEPARATED", "DISABLED"}
  BY DEF TypeOK, ConnTypeOK, States
<1>. QED
  BY <1>1, <1>2, <1>3, <1>4, <1>5
  DEF advertise_restart, unpaired_adv_start, is_paired, NoAdv

LEMMA CompletedKept ==
  ASSUME Orderly, OwnerInv, [Next]_vars, NeverCompleted
  PROVE  NeverCompleted'
<1>. SUFFICES ASSUME "PAIRING_COMPLETE" \notin Commands
              PROVE  ~Has(Backlog, "PAIRING_COMPLETE")'
  BY DEF NeverCompleted
<1>1. TypeOK /\ LinkInv /\ ReferenceInv' /\ RecordsInv' /\ ~Has(Backlog, "PAIRING_COMPLETE")
  BY OwnerInvNext DEF NeverCompleted, OwnerInv, LinkInv, ReferenceInv
<1>2. ASSUME NEW k \in {0, 1}, NEW evs \in Seq(Event), Flow(k, evs),
             \A i \in 1..Len(evs) : evs[i].id # "PAIRING_COMPLETE"
      PROVE  ~Has(Backlog, "PAIRING_COMPLETE")'
  <2>1. \A i \in 1..Len(Backlog) : Backlog[i].id # "PAIRING_COMPLETE"
    BY <1>1 DEF Has
  <2>2. ASSUME NEW i \in 1..Len(Backlog') PROVE Backlog'[i].id # "PAIRING_COMPLETE"
    <3>1. \/ i + k \in 1..Len(Backlog) /\ Backlog'[i] = Backlog[i + k]
          \/ \E j \in 1..Len(evs) : Backlog'[i] = evs[j]
      BY <1>1, <1>2, FlowSplit
    <3>. QED  BY <1>2, <2>1, <3>1
  <2>. QED  BY <2>2 DEF Has
<1>3. CASE InnerStep
  <2>1. PICK k \in {0, 1} : \E evs \in Seq(Event) :
          Flow(k, evs) /\ \A i \in 1..Len(evs) : Legitimate(evs[i])
    BY <1>1, <1>3, HandlerFlow, WorkFlow
  <2>2. PICK evs \in Seq(Event) : Flow(k, evs) /\ \A i \in 1..Len(evs) : Legitimate(evs[i])
    BY <2>1
  <2>3. \A i \in 1..Len(evs) : evs[i].id # "PAIRING_COMPLETE"
    BY <2>2 DEF Legitimate, StackEvents, ConfigEvents
  <2>. QED  BY <1>2, <2>2, <2>3
<1>4. ASSUME NEW e \in Event, Post(<<e>>), e.id # "PAIRING_COMPLETE", batch' = batch
      PROVE  ~Has(Backlog, "PAIRING_COMPLETE")'
  <2>. DEFINE evs == <<e>>
  <2>1. evs \in Seq(Event) /\ Len(evs) = 1 /\ evs[1] = e /\ events' = events \o evs
    BY <1>4 DEF Post, PostOn
  <2>. HIDE DEF evs
  <2>2. Flow(0, evs)
    BY <1>1, <1>4, <2>1, FlowPosted
  <2>. QED  BY <1>2, <1>4, <2>1, <2>2
<1>5. CASE link_up
  <2>1. adv.slot \in Slots
    BY <1>1, <1>5 DEF link_up, connected_cb, TypeOK, ConnTypeOK, Adv, NoAdv
  <2>2. batch' = batch /\ (UNCHANGED events \/ Post(<<Ev("PEER_CONNECTED", adv.slot)>>))
    BY <1>5 DEF link_up, connected_cb
  <2>3. Ev("PEER_CONNECTED", adv.slot) \in Event
    BY <2>1, EventType DEF PeerEvents, LinkEvents
  <2>. QED  BY <1>1, <1>4, <2>2, <2>3 DEF Ev, Backlog
<1>6. ASSUME NEW s \in Slots, link_down(s)
      PROVE  ~Has(Backlog, "PAIRING_COMPLETE")'
  <2>1. batch' = batch /\ (UNCHANGED events \/ Post(<<Ev("PEER_DISCONNECTED", s)>>))
    BY <1>6 DEF link_down, disconnected_cb
  <2>2. Ev("PEER_DISCONNECTED", s) \in Event
    BY EventType DEF PeerEvents, LinkEvents
  <2>. QED  BY <1>1, <1>4, <2>1, <2>2 DEF Ev, Backlog
<1>7. CASE fmna_enable \/ fmna_disable
  BY <1>1, <1>7, LinkInvEnable, LinkInvDisable DEF Has, StackEvents
<1>. QED  BY <1>3, <1>5, <1>6, <1>7 DEF Next, InnerStep

LEMMA PausedKept ==
  ASSUME OwnerInv, [Next]_vars, NeverPaused
  PROVE  NeverPaused' /\ (UNCHANGED is_paired_adv_paused \/ paired_adv)
<1>1. UNCHANGED is_paired_adv_paused \/ paired_adv
  <2>1. CASE InnerStep /\ ~Special
    BY <2>1, AdvSettled
  <2>2. CASE Special
    BY <2>2
    DEF Special, peer_disconnected, owner_secured, owner_connected, pairing_complete,
        pairing_complete_cmd_handle, nearby_work, nearby_separated_work_handle, stateVars
  <2>3. CASE link_up \/ \E s \in Slots : link_down(s)
    BY <2>3 DEF link_up, link_down, aboveConn, stateVars
  <2>4. CASE fmna_enable \/ fmna_disable
    BY <2>4 DEF fmna_enable, fmna_disable
  <2>. QED  BY <2>1, <2>2, <2>3, <2>4 DEF Next, InnerStep
<1>. QED  BY <1>1 DEF NeverPaused, paired_adv

LEMMA KindSettled ==
  ASSUME MatchInv, InnerStep, ~Special
  PROVE  AdvKindOK'
<1>1. TypeOK /\ AdvKindOK /\ state' = state
  BY Settled DEF MatchInv, FindInv, LocationInv, OwnerInv, LinkInv, ReferenceInv
<1>2. CASE paired_adv
  <2>1. CASE fmna_paired_adv_disable
    BY <1>1, <2>1 DEF fmna_paired_adv_disable, AdvKindOK, is_paired, NoAdv
  <2>2. CASE fmna_paired_adv_enable
    <3>1. CASE adv' = adv
      BY <1>1, <2>2, <3>1 DEF fmna_paired_adv_enable, AdvKindOK, is_paired
    <3>2. CASE is_paired /\ adv'.kind \in {"nearby", "separated", "off"}
      BY <1>1, <3>2 DEF AdvKindOK, is_paired
    <3>. QED
      BY <2>2, <3>1, <3>2, AirKind DEF fmna_paired_adv_enable, NoAdv
  <2>. QED  BY <1>2, <2>1, <2>2 DEF paired_adv
<1>3. CASE UNCHANGED is_paired_adv_paused /\ adv' = advertise_restart(limit_check)
  <2>1. limit_check \in BOOLEAN
    BY DEF limit_check
  <2>. QED  BY <1>1, <1>3, <2>1, RestartKind
<1>4. CASE UNCHANGED is_paired_adv_paused /\ adv' = adv
  BY <1>1, <1>4 DEF AdvKindOK, is_paired
<1>5. CASE pairing_mode_work
  BY <1>5 DEF pairing_mode_work, pairing_mode_timeout_work_handle, AdvKindOK, NoAdv
<1>6. CASE pairing_mode_request
  <2>1. state = "UNPAIRED" /\ adv'.kind \in {"unpaired", "off"}
    BY <1>6, AirKind
    DEF pairing_mode_request, fmna_pairing_mode_cancel, fmna_pairing_mode_enter, NoAdv
  <2>. QED  BY <1>1, <2>1 DEF AdvKindOK
<1>. QED  BY <1>2, <1>3, <1>4, <1>5, <1>6, AdvSettled

(* An address of the pairing mode is on air in CONNECTED only after a       *)
(* pairing, and then nothing is paused.                                     *)
LEMMA KindSpecial ==
  ASSUME Matching, MatchInv, InnerStep, Special
  PROVE  AdvKindOK'
<1>1. /\ TypeOK /\ AdvKindOK /\ OwnerInv /\ Enabled /\ NeverPaused /\ NeverCompleted
  BY SpecialEnabled DEF MatchInv, FindInv, LocationInv, OwnerInv, LinkInv, ReferenceInv
<1>2. UNCHANGED is_paired_adv_paused
  BY DEF Special, peer_disconnected, owner_secured, owner_connected, pairing_complete,
         pairing_complete_cmd_handle, nearby_work, nearby_separated_work_handle, stateVars
<1>3. limit_check \in BOOLEAN
  BY DEF limit_check
<1>4. ASSUME is_paired, is_paired', ~(state' # "CONNECTED" /\ state = "CONNECTED"),
             \/ adv' = adv
             \/ \E kind \in {"nearby", "separated"} : adv' = paired_adv_start(kind)
      PROVE  AdvKindOK'
  <2>1. adv' = adv \/ adv'.kind \in {"nearby", "separated", "off"}
    BY <1>4, PairedKind
  <2>2. adv.kind = "unpaired" => state = "CONNECTED" /\ ~is_paired_adv_paused
    BY <1>1, <1>4 DEF AdvKindOK, is_paired
  <2>. QED  BY <1>2, <1>4, <2>1, <2>2 DEF AdvKindOK
<1>5. CASE peer_disconnected
  <2>1. CASE adv' = advertise_restart(limit_check) /\ state' = state
    BY <1>1, <1>2, <1>3, <2>1, RestartKind
  <2>2. CASE /\ state = "CONNECTED"
             /\ \E new \in {"UNPAIRED", "NEARBY"} :
                  state_set(workq, limit_check, Head(batch).conn, new)
    <3>1. PICK new \in {"UNPAIRED", "NEARBY"} :
            state_set(workq, limit_check, Head(batch).conn, new)
      BY <2>2
    <3>2. CASE new = "UNPAIRED"
      <4>1. state' = "UNPAIRED" /\ adv' = AdvOnAir("unpaired")
        BY <2>2, <3>1, <3>2, FromConnected DEF enter_unpaired, Matching
      <4>. QED  BY <4>1, AirKind DEF AdvKindOK
    <3>3. CASE new = "NEARBY"
      <4>1. /\ is_paired'
            /\ \E kind \in {"nearby", "separated"} : adv' = paired_adv_start(kind)
        BY <2>2, <3>1, <3>3, FromConnected DEF enter_nearby, is_paired
      <4>2. \/ adv'.kind \in {"nearby", "separated", "off"}
            \/ is_paired_adv_paused /\ adv' = adv
        BY <4>1, PairedKind
      <4>3. is_paired_adv_paused => adv.kind # "unpaired"
        BY <1>1, <2>2 DEF AdvKindOK
      <4>. QED  BY <4>1, <4>2, <4>3 DEF AdvKindOK
    <3>. QED  BY <3>2, <3>3
  <2>. QED  BY <1>5, <2>1, <2>2 DEF peer_disconnected, all_owners_disconnected
<1>6. CASE owner_secured
  BY <1>1, <1>6 DEF owner_secured, stateVars, AdvKindOK, is_paired
<1>7. CASE owner_connected
  <2>1. /\ HandleEvent /\ Handling("OWNER_CONNECTED") /\ OwnerArriving
        /\ state_set(workq, limit_check, Head(batch).conn, "CONNECTED")
    BY <1>1, <1>7, EnabledRecords DEF HandleEvent, owner_connected
  <2>2. is_paired
    BY <1>1, <2>1, HandledFirst DEF OwnerArriving, Handling
  <2>3. CASE state = "CONNECTED"
    <3>1. adv' = advertise_restart(limit_check) /\ state' = state
      BY <2>1, <2>3, ToConnected DEF unchanged_state
    <3>. QED  BY <1>1, <1>2, <1>3, <3>1, RestartKind
  <2>4. CASE state # "CONNECTED"
    <3>1. /\ state' = "CONNECTED"
          /\ adv' = adv \/ \E kind \in {"nearby", "separated"} : adv' = paired_adv_start(kind)
      BY <2>1, <2>4, ToConnected DEF enter_connected
    <3>. QED  BY <1>4, <2>2, <3>1 DEF is_paired
  <2>. QED  BY <2>3, <2>4
<1>8. CASE pairing_complete
  <2>1. state = "UNPAIRED" /\ state' = "CONNECTED" /\ adv' = adv
    BY <1>1, <1>8, Completing
    DEF pairing_complete, pairing_complete_cmd_handle, enter_connected
  <2>2. Has(Backlog, "PAIRING_COMPLETE")
    <3>1. HandleEvent /\ Handling("PAIRING_COMPLETE")
      BY <1>8 DEF HandleEvent, pairing_complete, pairing_complete_cmd_handle
    <3>. QED  BY <1>1, <3>1, HandledFirst DEF Handling, Has
  <2>3. ~is_paired_adv_paused
    BY <1>1, <2>2 DEF Matching, NeverPaused, NeverCompleted
  <2>. QED  BY <1>1, <1>2, <2>1, <2>3 DEF AdvKindOK, is_paired
<1>9. CASE nearby_work
  <2>1. state = "NEARBY"
    BY <1>1, <1>9, EnabledRecords
    DEF NearbyTimerArmed, nearby_work, nearby_separated_work_handle, Running, Queued
  <2>2. state' = "SEPARATED" /\ adv' = paired_adv_start("separated")
    BY <1>9, <2>1, ToSeparated
    DEF nearby_work, nearby_separated_work_handle, enter_separated
  <2>. QED  BY <1>4, <2>1, <2>2 DEF is_paired
<1>. QED  BY <1>5, <1>6, <1>7, <1>8, <1>9 DEF Special

LEMMA MatchInvNext ==
  ASSUME Orderly, Matching, MatchInv, [Next]_vars
  PROVE  MatchInv'
<1>1. /\ OwnerInv /\ LinkInv /\ QuietDisabled /\ AdvKindOK /\ NeverPaused /\ NeverCompleted
      /\ FindInv' /\ NeverPaused' /\ NeverCompleted'
  BY FindInvNext, PausedKept, CompletedKept
  DEF MatchInv, FindInv, LocationInv, OwnerInv, LinkInv, ReferenceInv
<1>. SUFFICES AdvKindOK'
  BY <1>1 DEF MatchInv
<1>2. CASE InnerStep
  BY <1>2, KindSettled, KindSpecial
<1>3. CASE link_up
  BY <1>3 DEF link_up, connected_cb, AdvKindOK, NoAdv
<1>4. ASSUME NEW s \in Slots, link_down(s) PROVE AdvKindOK'
  BY <1>1, <1>4
  DEF link_down, disconnected_cb, aboveConn, stateVars, AdvKindOK, is_paired
<1>5. CASE fmna_enable
  <2>1. ~Enabled /\ adv = NoAdv
    BY <1>1, <1>5 DEF fmna_enable, LinkInv, ReadyEnabled, QuietDisabled, Enabled
  <2>2. CASE state' = "UNPAIRED"
    <3>1. adv' = AdvOnAir("unpaired")
      BY <1>5, <2>1, <2>2, EnabledFirst DEF enter_unpaired, Matching
    <3>. QED  BY <2>2, <3>1, AirKind DEF AdvKindOK
  <2>3. CASE state' = "SEPARATED"
    <3>1. adv' = paired_adv_start("separated")
      BY <1>5, <2>1, <2>3, EnabledFirst DEF enter_separated
    <3>2. adv'.kind \in {"separated", "off"}
      BY <2>1, <3>1, AirKind DEF paired_adv_start, NoAdv
    <3>. QED  BY <2>3, <3>2 DEF AdvKindOK, is_paired
  <2>. QED  BY <1>5, <2>1, <2>2, <2>3, EnabledFirst
<1>6. CASE fmna_disable
  BY <1>6 DEF fmna_disable, enter_disabled, AdvKindOK, NoAdv
<1>. QED  BY <1>2, <1>3, <1>4, <1>5, <1>6 DEF Next, InnerStep

(* The payload on air is one of the state, if peers and application respect *)
(* the steps of Orderly and no pairing payload can be left on air, and the  *)
(* pairing mode belongs to UNPAIRED: although timers, callbacks, owners'    *)
(* commands and the application start and stop advertising in any order.    *)
THEOREM PayloadMatchesState ==
  ASSUME Orderly, Matching
  PROVE  Spec => []AdvMatchesState
<1>1. Init => MatchInv
  <2>. SUFFICES ASSUME Init PROVE MatchInv
    OBVIOUS
  <2>1. FMNA_MAX_CONN <= FMNA_MAX_CONN
    BY LimitAssumption, ConnAssumption
  <2>2. FindInv /\ NeverPaused /\ AdvKindOK
    BY <2>1, OwnerInvInit
    DEF Init, FindInv, LocationInv, ModeUnpaired, FindableSoon, NeverPaused, AdvKindOK, NoAdv
  <2>3. Backlog = <<>>
    BY ConcatEmptySeq DEF Init, Backlog
  <2>. QED  BY <2>2, <2>3 DEF MatchInv, NeverCompleted, Has
<1>2. MatchInv /\ [Next]_vars => MatchInv'
  BY MatchInvNext
<1>3. MatchInv => AdvMatchesState
  BY DEF MatchInv, FindInv, ModeUnpaired, AdvKindOK, AdvMatchesState, PairedAdvInPairedState
<1>. QED  BY <1>1, <1>2, <1>3, PTL DEF Spec

(* Two states of a step that does not disable the stack.                    *)
Moves ==
  /\ state' = "UNPAIRED"  => state \in {"UNPAIRED", "CONNECTED", "DISABLED"}
  /\ state' = "NEARBY"    => state \in {"NEARBY", "CONNECTED"}
  /\ state' = "SEPARATED" => \/ state \in {"SEPARATED", "NEARBY", "DISABLED"}
                             \/ state = "CONNECTED" /\ nearby_separated_timeout = 0
  /\ state' = "CONNECTED" => state # "DISABLED"

OwnersGone == state = "CONNECTED" /\ state' # "CONNECTED" => owner' \cap Live' = {}

(* CONNECTED is left when the link of the last owner has gone.              *)
LEMMA MovesDisconnected ==
  ASSUME OwnerInv, Enabled, peer_disconnected
  PROVE  Moves /\ OwnersGone
<1>. DEFINE s == Head(batch).conn
<1>1. CASE UNCHANGED state
  BY <1>1, EnabledRecords DEF Moves, OwnersGone, TypeOK, ConnTypeOK
<1>2. CASE all_owners_disconnected(s)
           /\ state_set(workq, limit_check, s, IF unpair_pending THEN "UNPAIRED" ELSE "NEARBY")
  <2>1. state = "CONNECTED"
    BY <1>2 DEF all_owners_disconnected
  <2>2. Moves
    <3>1. CASE unpair_pending
      BY <1>2, <2>1, <3>1, FromConnected DEF Moves
    <3>2. CASE ~unpair_pending
      <4>1. enter_nearby(workq, s, "NEARBY")
        BY <1>2, <2>1, <3>2, FromConnected
      <4>. QED  BY <2>1, <4>1 DEF enter_nearby, Moves
    <3>. QED  BY <3>1, <3>2
  <2>3. owner \cap Live \subseteq {s}
    BY <1>2, LastOwner
  <2>4. owner' = owner \ {s} /\ Live' \subseteq Live
    BY DEF peer_disconnected, record_cleared, unpaired_peer, Disconnect, Live
  <2>. QED  BY <2>2, <2>3, <2>4 DEF OwnersGone
<1>. QED
  BY <1>1, <1>2 DEF peer_disconnected

LEMMA MovesNext ==
  ASSUME Orderly, OwnerInv, [Next]_vars
  PROVE  /\ Moves
         /\ ready' => OwnersGone
<1>1. LinkInv /\ TypeOK
  BY DEF OwnerInv, LinkInv, ReferenceInv
<1>2. UNCHANGED state => Moves /\ OwnersGone
  BY <1>1 DEF Moves, OwnersGone, TypeOK, ConnTypeOK
<1>3. CASE InnerStep
  <2>1. CASE ~Special
    BY <1>2, <1>3, <2>1, Settled
  <2>2. CASE Special
    <3>1. Enabled
      BY <2>2, SpecialEnabled
    <3>2. CASE peer_disconnected
      BY <3>1, <3>2, MovesDisconnected
    <3>3. CASE owner_secured
      BY <1>2, <3>3 DEF owner_secured, stateVars
    <3>4. CASE owner_connected
      BY <3>1, <3>4, ToConnected DEF owner_connected, Moves, OwnersGone, Enabled
    <3>5. CASE pairing_complete
      <4>1. state = "UNPAIRED"
        BY <3>1, <3>5, Completing
      <4>2. state' = "CONNECTED"
        BY <3>5 DEF pairing_complete, pairing_complete_cmd_handle, enter_connected
      <4>. QED  BY <4>1, <4>2 DEF Moves, OwnersGone
    <3>6. CASE nearby_work
      <4>1. state = "NEARBY"
        BY <3>1, <3>6, LinkInvNext, OwnerInvNearbyWork DEF OwnerInv
      <4>2. state' = "SEPARATED"
        BY <3>6, <4>1, ToSeparated DEF nearby_work, nearby_separated_work_handle
      <4>. QED  BY <4>1, <4>2 DEF Moves, OwnersGone
    <3>. QED  BY <2>2, <3>2, <3>3, <3>4, <3>5, <3>6 DEF Special
  <2>. QED  BY <2>1, <2>2
<1>4. CASE link_up
  BY <1>2, <1>4 DEF link_up, aboveConn, stateVars
<1>5. ASSUME NEW s \in Slots, link_down(s) PROVE Moves /\ OwnersGone
  BY <1>2, <1>5 DEF link_down, aboveConn, stateVars
<1>6. CASE fmna_enable
  <2>1. state = "DISABLED"
    BY <1>1, <1>6 DEF fmna_enable, LinkInv, ReadyEnabled, Enabled
  <2>2. state' \in {"UNPAIRED", "SEPARATED"}
    BY <1>6, <2>1, EnabledFirst DEF Enabled
  <2>. QED  BY <2>1, <2>2 DEF Moves, OwnersGone
<1>7. CASE fmna_disable
  BY <1>7 DEF fmna_disable, enter_disabled, Moves
<1>8. CASE UNCHANGED vars
  BY <1>2, <1>8 DEF vars, stateVars
<1>. QED  BY <1>3, <1>4, <1>5, <1>6, <1>7, <1>8 DEF Next, InnerStep

(* If peers and application respect each other's steps as Orderly says,     *)
(* state_set() never refuses a transition: it is called by the events of    *)
(* links and of the pairing, by the nearby timer and by the application,    *)
(* none of which looks at the state the others have left.                   *)
THEOREM TransitionsAreAllowed ==
  ASSUME Orderly
  PROVE  Spec => TransitionsAllowed
<1>1. Init => OwnerInv
  BY OwnerInvInit
<1>2. OwnerInv /\ [Next]_vars => OwnerInv'
  BY OwnerInvNext
<1>3. OwnerInv /\ [Next]_vars
        => [/\ state' = "UNPAIRED"  => state \in {"UNPAIRED", "CONNECTED", "DISABLED"}
            /\ state' = "NEARBY"    => state \in {"NEARBY", "CONNECTED"}
            /\ state' = "SEPARATED" => \/ state \in {"SEPARATED", "NEARBY", "DISABLED"}
                                       \/ state = "CONNECTED" /\ nearby_separated_timeout = 0
            /\ state' = "CONNECTED" => state # "DISABLED"]_vars
  BY MovesNext DEF Moves
<1>. QED  BY <1>1, <1>2, <1>3, PTL DEF Spec, TransitionsAllowed

(* Under the same conditions CONNECTED is left with the last owner only,    *)
(* although several owners come and go and each one's end is an event of    *)
(* its own.                                                                 *)
THEOREM ConnectedUntilLastOwner ==
  ASSUME Orderly
  PROVE  Spec => LastOwnerLeaves
<1>1. Init => OwnerInv
  BY OwnerInvInit
<1>2. OwnerInv /\ [Next]_vars => OwnerInv'
  BY OwnerInvNext
<1>3. OwnerInv /\ [Next]_vars
        => [state = "CONNECTED" /\ state' # "CONNECTED" /\ ready'
              => owner' \cap connected' = {}]_vars
  BY MovesNext DEF OwnersGone, Live
<1>. QED  BY <1>1, <1>2, <1>3, PTL DEF Spec, LastOwnerLeaves

=============================================================================
