-------------------------- MODULE FmnaMotionProofs --------------------------
(***************************************************************************)
(* Theorems about FmnaSound and FmnaMotion, for every value of their       *)
(* constants.                                                              *)
(***************************************************************************)
EXTENDS FmnaMotion, FmnaEventsProofs

-----------------------------------------------------------------------------
(* The timeouts of a sound. *)

(* SoundTimed, and that neither timeout is both scheduled and due: a work   *)
(* item that stayed behind when the other timeout ended the sound would    *)
(* cut the next one short.                                                 *)
TimedInv ==
  /\ WorkqueueOK(workq)
  /\ play_sound_in_progress \in BOOLEAN /\ sound_timeout \in BOOLEAN
  /\ app_playing \in BOOLEAN /\ app_timeout \in BOOLEAN
  /\ ~(app_timeout /\ Queued(workq, "app_timeout"))
  /\ SoundTimed

(* A step that leaves the sound and its two timeouts alone. *)
TimeoutsLeft ==
  /\ UNCHANGED <<soundVars, appVars>>
  /\ WorkqueueOK(workq')
  /\ Queued(workq', "sound_timeout") <=> Queued(workq, "sound_timeout")
  /\ Queued(workq', "app_timeout") <=> Queued(workq, "app_timeout")

LEMMA TimedInit == Init => TimedInv
<1>. SUFFICES ASSUME Init PROVE TimedInv
  OBVIOUS
<1>1. workq = <<>> /\ ~play_sound_in_progress /\ ~sound_timeout /\ ~app_playing /\ ~app_timeout
  BY DEF Init, SoundInit
<1>2. WorkqueueOK(<<>>) /\ \A w : ~Queued(<<>>, w)
  BY DEF WorkqueueOK, Once, Queued
<1>3. /\ play_sound_in_progress \in BOOLEAN /\ sound_timeout \in BOOLEAN
      /\ app_playing \in BOOLEAN /\ app_timeout \in BOOLEAN
  BY Zenon DEF Init, SoundInit
<1>. QED  BY <1>1, <1>2, <1>3, Zenon DEF TimedInv, SoundTimed, SoundQueued

LEMMA TimeoutsLeftKeep ==
  ASSUME TimedInv, TimeoutsLeft
  PROVE  TimedInv'
BY Zenon DEF TimedInv, TimeoutsLeft, SoundTimed, SoundQueued, soundVars, appVars

(* The workqueue after a step that does not touch the timeouts. *)
LEMMA QueueLeft ==
  ASSUME TimedInv, UNCHANGED <<soundVars, appVars>>,
         \/ UNCHANGED workq
         \/ \E evs : Post(evs)
         \/ TakeEvents
         \/ workq' = Submitted(workq, "play_sound")
         \/ workq' = Cancelled(workq, "play_sound")
         \/ Running("play_sound") /\ workq' = Tail(workq)
  PROVE  TimeoutsLeft
<1>0. WorkqueueOK(workq)
  BY DEF TimedInv
<1>1. CASE UNCHANGED workq
  BY <1>0, <1>1, Zenon DEF TimeoutsLeft
<1>2. CASE \E evs : Post(evs)
  <2>1. PICK evs : PostOn(workq, evs)
    BY <1>2 DEF Post
  <2>. QED  BY <1>0, <2>1, PostedOnce DEF TimeoutsLeft
<1>3. CASE TakeEvents
  BY <1>0, <1>3, TailOnce DEF TimeoutsLeft, TakeEvents
<1>4. CASE workq' = Submitted(workq, "play_sound")
  BY <1>0, <1>4, SubmittedOnce DEF TimeoutsLeft, Names
<1>5. CASE workq' = Cancelled(workq, "play_sound")
  BY <1>0, <1>5, CancelledOnce DEF TimeoutsLeft
<1>6. CASE Running("play_sound") /\ workq' = Tail(workq)
  BY <1>0, <1>6, TailOnce DEF TimeoutsLeft, Running
<1>. QED  BY <1>1, <1>2, <1>3, <1>4, <1>5, <1>6

(* A sound starts on workqueue q, on which no timeout of another waits. *)
LEMMA StartTimed ==
  ASSUME TimedInv, NEW c, NEW q, sound_start(c, q), WorkqueueOK(q),
         Queued(q, "sound_timeout") => Queued(workq, "sound_timeout"),
         Queued(q, "app_timeout") => Queued(workq, "app_timeout")
  PROVE  TimedInv'
<1>1. /\ play_sound_in_progress' = TRUE /\ sound_timeout' = TRUE
      /\ app_playing' = TRUE /\ app_timeout' = TRUE
      /\ workq' = q /\ ~play_sound_in_progress
  BY Zenon DEF sound_start, sound_start_cb
<1>2. ~Queued(q, "app_timeout")
  BY <1>1, Zenon DEF TimedInv, SoundTimed, SoundQueued
<1>. QED  BY <1>1, <1>2, Zenon DEF TimedInv, SoundTimed, SoundQueued

(* A sound is stopped from workqueue q: both timeouts are cancelled. *)
LEMMA StopTimed ==
  ASSUME TimedInv, NEW c, NEW q, sound_stop(c, q), WorkqueueOK(q)
  PROVE  TimedInv'
<1>1. /\ play_sound_in_progress' = FALSE /\ sound_timeout' = FALSE
      /\ app_playing' = FALSE /\ app_timeout' = FALSE
  BY Zenon DEF sound_stop, sound_stopped, sound_stop_cb
<1>. DEFINE r == TimeoutsCancelled(q)
<1>2. /\ WorkqueueOK(r)
      /\ ~Queued(r, "sound_timeout") /\ ~Queued(r, "app_timeout")
  BY CancelledOnce DEF TimeoutsCancelled
<1>3. PostOn(r, <<Ev("SOUND_COMPLETED", c)>>)
  BY DEF sound_stop
<1>. HIDE DEF r
<1>4. /\ WorkqueueOK(workq')
      /\ ~Queued(workq', "sound_timeout") /\ ~Queued(workq', "app_timeout")
  BY <1>2, <1>3, PostedOnce
<1>. QED  BY <1>1, <1>4, Zenon DEF TimedInv, SoundTimed, SoundQueued

(* A refused command or a late timeout changes nothing. *)
LEMMA RefusedTimed ==
  ASSUME TimedInv, NEW q, Refused(q), WorkqueueOK(q),
         Queued(q, "sound_timeout") <=> Queued(workq, "sound_timeout"),
         Queued(q, "app_timeout") <=> Queued(workq, "app_timeout")
  PROVE  TimedInv'
<1>1. TimeoutsLeft
  BY Zenon DEF Refused, TimeoutsLeft, soundVars, appVars
<1>. QED  BY <1>1, TimeoutsLeftKeep

(* The work item of the sound's timeout ends the sound. *)
LEMMA SoundTimeoutTimed ==
  ASSUME TimedInv, sound_timeout_work_handle
  PROVE  TimedInv'
<1>1. workq # <<>> /\ Head(workq) = "sound_timeout" /\ WorkqueueOK(workq)
  BY DEF sound_timeout_work_handle, Running, TimedInv
<1>2. WorkqueueOK(Tail(workq))
  BY <1>1, TailOnce
<1>3. Queued(workq, "sound_timeout")
  <2>1. workq \in Seq(Names)
    BY <1>1 DEF WorkqueueOK
  <2>2. 1 \in 1..Len(workq) /\ workq[1] = "sound_timeout"
    BY <1>1, <2>1, EmptySeq, LenProperties
  <2>. QED  BY <2>2, Zenon DEF Queued
<1>4. stops(sound_initiator)
  BY <1>3, Zenon DEF stops, TimedInv, SoundTimed, SoundQueued
<1>5. sound_stop(sound_initiator, Tail(workq))
  BY <1>4, Zenon DEF sound_timeout_work_handle
<1>. QED  BY <1>2, <1>5, StopTimed

(* The application's timeout ends the sound and takes the stack's with it. *)
LEMMA AppTimeoutTimed ==
  ASSUME TimedInv, fmna_sound_completed_indicate
  PROVE  TimedInv'
<1>1. workq # <<>> /\ Head(workq) = "app_timeout" /\ WorkqueueOK(workq)
  BY DEF fmna_sound_completed_indicate, Running, TimedInv
<1>2. WorkqueueOK(Tail(workq)) /\ ~Queued(Tail(workq), "app_timeout")
  BY <1>1, TailOnce
<1>3. Queued(workq, "app_timeout")
  <2>1. workq \in Seq(Names)
    BY <1>1 DEF WorkqueueOK
  <2>2. 1 \in 1..Len(workq) /\ workq[1] = "app_timeout"
    BY <1>1, <2>1, EmptySeq, LenProperties
  <2>. QED  BY <2>2, Zenon DEF Queued
<1>4. stops(sound_initiator) /\ ~app_timeout
  BY <1>3, Zenon DEF stops, TimedInv, SoundTimed, SoundQueued
<1>. DEFINE r == Cancelled(Tail(workq), "sound_timeout")
<1>5. /\ play_sound_in_progress' = FALSE /\ sound_timeout' = FALSE
      /\ app_playing' = FALSE /\ app_timeout' = app_timeout
      /\ PostOn(r, <<Ev("SOUND_COMPLETED", sound_initiator)>>)
  BY <1>4, Zenon DEF fmna_sound_completed_indicate, sound_stopped
<1>6. /\ WorkqueueOK(r)
      /\ ~Queued(r, "sound_timeout") /\ ~Queued(r, "app_timeout")
  BY <1>2, CancelledOnce
<1>. HIDE DEF r
<1>7. /\ WorkqueueOK(workq')
      /\ ~Queued(workq', "sound_timeout") /\ ~Queued(workq', "app_timeout")
  BY <1>5, <1>6, PostedOnce
<1>8. app_timeout' = FALSE
  BY <1>4, <1>5, Zenon DEF TimedInv
<1>. QED  BY <1>5, <1>7, <1>8, Zenon DEF TimedInv, SoundTimed, SoundQueued

(* A timeout becomes a work item. *)
LEMMA SoundTimerTimed ==
  ASSUME TimedInv, sound_timeout_expires
  PROVE  TimedInv'
<1>1. /\ WorkqueueOK(workq')
      /\ Queued(workq', "sound_timeout")
      /\ Queued(workq', "app_timeout") <=> Queued(workq, "app_timeout")
  BY SubmittedOnce DEF sound_timeout_expires, TimedInv, Names
<1>2. /\ sound_timeout /\ sound_timeout' = FALSE
      /\ UNCHANGED <<play_sound_in_progress, app_playing, app_timeout>>
  BY Zenon DEF sound_timeout_expires, appVars
<1>. QED  BY <1>1, <1>2, Zenon DEF TimedInv, SoundTimed, SoundQueued

LEMMA AppTimerTimed ==
  ASSUME TimedInv, app_timeout_expires
  PROVE  TimedInv'
<1>1. /\ WorkqueueOK(workq')
      /\ Queued(workq', "app_timeout")
      /\ Queued(workq', "sound_timeout") <=> Queued(workq, "sound_timeout")
  BY SubmittedOnce DEF app_timeout_expires, TimedInv, Names
<1>2. /\ app_timeout /\ app_timeout' = FALSE
      /\ UNCHANGED <<play_sound_in_progress, sound_timeout, app_playing>>
  BY Zenon DEF app_timeout_expires, soundVars
<1>. QED  BY <1>1, <1>2, Zenon DEF TimedInv, SoundTimed, SoundQueued

(* The handlers of the sound on the system workqueue. *)
LEMMA SoundHandlersTimed ==
  ASSUME TimedInv,
         \/ start_sound_handle \/ stop_sound_handle
         \/ sound_timeout_work_handle \/ fmna_sound_completed_indicate
         \/ play_sound_work_handle
  PROVE  TimedInv'
<1>0. WorkqueueOK(workq)
  BY DEF TimedInv
<1>1. CASE start_sound_handle
  <2>1. PICK c : sound_start(c, workq) \/ Refused(workq)
    BY <1>1, Zenon DEF start_sound_handle
  <2>. QED  BY <1>0, <2>1, StartTimed, RefusedTimed
<1>2. CASE stop_sound_handle
  <2>1. PICK c : sound_stop(c, workq) \/ Refused(workq)
    BY <1>2, Zenon DEF stop_sound_handle
  <2>. QED  BY <1>0, <2>1, StopTimed, RefusedTimed
<1>3. CASE play_sound_work_handle
  <2>. DEFINE q == Tail(workq)
  <2>1. /\ WorkqueueOK(q)
        /\ Queued(q, "sound_timeout") <=> Queued(workq, "sound_timeout")
        /\ Queued(q, "app_timeout") <=> Queued(workq, "app_timeout")
    BY <1>0, <1>3, TailOnce DEF play_sound_work_handle, Running
  <2>2. sound_start(NULL, q) \/ Refused(q)
    BY <1>3, Zenon DEF play_sound_work_handle
  <2>. HIDE DEF q
  <2>. QED  BY <2>1, <2>2, StartTimed, RefusedTimed
<1>. QED  BY <1>1, <1>2, <1>3, SoundTimeoutTimed, AppTimeoutTimed

(* The other handlers only read the events or post some. *)
LEMMA OtherHandlersTimed ==
  ASSUME TimedInv,
         \/ TakeEvents /\ NotSound
         \/ security_changed_event \/ peer_disconnected_event
         \/ owner_connected_event \/ sound_completed_event \/ state_changed_event
         \/ connected_owner_handle \/ sound_completed_handle
  PROVE  TimedInv'
<1>1. CASE TakeEvents /\ NotSound
  BY <1>1, QueueLeft, TimeoutsLeftKeep DEF NotSound
<1>2. CASE security_changed_event
  <2>1. UNCHANGED <<soundVars, appVars>> /\ (UNCHANGED workq \/ \E evs : Post(evs))
    BY <1>2, Zenon DEF security_changed_event
  <2>. QED  BY <2>1, QueueLeft, TimeoutsLeftKeep
<1>3. CASE peer_disconnected_event
  <2>1. UNCHANGED <<soundVars, appVars>> /\ (UNCHANGED workq \/ \E evs : Post(evs))
    BY <1>3, Zenon DEF peer_disconnected_event
  <2>. QED  BY <2>1, QueueLeft, TimeoutsLeftKeep
<1>4. CASE owner_connected_event
  <2>1. UNCHANGED <<soundVars, appVars>> /\ (UNCHANGED workq \/ \E evs : Post(evs))
    BY <1>4, Zenon DEF owner_connected_event
  <2>. QED  BY <2>1, QueueLeft, TimeoutsLeftKeep
<1>5. CASE sound_completed_event
  <2>1. UNCHANGED <<soundVars, appVars>> /\ UNCHANGED workq
    BY <1>5, Zenon DEF sound_completed_event, NotSound
  <2>. QED  BY <2>1, QueueLeft, TimeoutsLeftKeep
<1>6. CASE state_changed_event
  <2>1. UNCHANGED <<soundVars, appVars>>
    BY <1>6, Zenon DEF state_changed_event, NotSound
  <2>2. workq' = workq \/ workq' = Cancelled(workq, "play_sound")
    BY <1>6 DEF state_changed_event
  <2>. QED  BY <2>1, <2>2, QueueLeft, TimeoutsLeftKeep
<1>7. CASE connected_owner_handle \/ sound_completed_handle
  <2>1. UNCHANGED <<soundVars, appVars>> /\ UNCHANGED workq
    BY <1>7, Zenon DEF connected_owner_handle, sound_completed_handle, NotSound, queueVars
  <2>. QED  BY <2>1, QueueLeft, TimeoutsLeftKeep
<1>. QED  BY <1>1, <1>2, <1>3, <1>4, <1>5, <1>6, <1>7

LEMMA MotionTimerTimed ==
  ASSUME TimedInv, MotionTimer
  PROVE  TimedInv'
<1>1. UNCHANGED <<soundVars, appVars>>
  BY Zenon DEF MotionTimer, motion_enable_timeout_handle, motion_poll_handle,
               motion_poll_duration_timeout_handle, NotSound
<1>2. workq' = workq \/ workq' = Submitted(workq, "play_sound")
  BY Zenon DEF MotionTimer, motion_enable_timeout_handle, motion_poll_handle,
               motion_poll_duration_timeout_handle, queueVars
<1>. QED  BY <1>1, <1>2, QueueLeft, TimeoutsLeftKeep

(* What peers and the application do only posts events. *)
LEMMA EnvironmentTimed ==
  ASSUME TimedInv,
         \/ connected \/ disconnected \/ security_changed
         \/ config_cp_write \/ non_owner_cp_write
         \/ nearby_separated_work_handle \/ fmna_enable \/ fmna_disable
  PROVE  TimedInv'
<1>1. UNCHANGED <<soundVars, appVars>> /\ (UNCHANGED workq \/ \E evs : Post(evs))
  BY Zenon DEF connected, disconnected, security_changed, config_cp_write,
     non_owner_cp_write, nearby_separated_work_handle, fmna_enable, fmna_disable,
     EnvUnchanged, queueVars
<1>. QED  BY <1>1, QueueLeft, TimeoutsLeftKeep

LEMMA TimedStep == TimedInv /\ [Next]_vars => TimedInv'
<1>. SUFFICES ASSUME TimedInv, [Next]_vars PROVE TimedInv'
  OBVIOUS
<1>1. CASE WorkqueueStep
  BY <1>1, SoundHandlersTimed, OtherHandlersTimed, Zenon DEF WorkqueueStep
<1>2. CASE SoundTimer
  BY <1>2, SoundTimerTimed DEF SoundTimer
<1>3. CASE AppTimer
  BY <1>3, AppTimerTimed DEF AppTimer
<1>4. CASE MotionTimer
  BY <1>4, MotionTimerTimed
<1>5. CASE Peers
  BY <1>5, EnvironmentTimed, Zenon DEF Peers
<1>6. CASE Application
  BY <1>6, EnvironmentTimed, Zenon DEF Application
<1>7. CASE UNCHANGED vars
  BY <1>7, QueueLeft, TimeoutsLeftKeep DEF vars, queueVars
<1>. QED  BY <1>1, <1>2, <1>3, <1>4, <1>5, <1>6, <1>7 DEF Next

(* A sound plays exactly while its timeout is ahead and the application     *)
(* plays, and no timeout of an old sound is left, whatever the peers, the   *)
(* interrupts and the motion detection do (fmna_sound.c: sound_start(),     *)
(* sound_stop(), fmna_sound_completed_indicate()).                         *)
THEOREM SoundsAreTimed == Spec => []SoundTimed
<1>1. TimedInv => SoundTimed
  BY DEF TimedInv
<1>. QED  BY <1>1, TimedInit, TimedStep, PTL DEF Spec

-----------------------------------------------------------------------------
(* The end of a sound is reported to its initiator. *)

(* Events name a connection object or none. *)
SoundEventIds ==
  Commands \cup {"SOUND_COMPLETED", "PEER_DISCONNECTED", "PEER_SECURITY_CHANGED",
                 "OWNER_CONNECTED", "STATE_CHANGED"}
SoundEvent == [id : SoundEventIds, conn : Conns, arg : {0}]
EventsInv == batch \in Seq(SoundEvent) /\ events \in Seq(SoundEvent)

(* CompletionToInitiator, and that the initiator waits for the end exactly  *)
(* while it is there: otherwise the report of the end could be stray, or   *)
(* reach nobody and leave it waiting.                                      *)
EndsInv ==
  /\ link \in [Slots -> BOOLEAN] /\ ringing \in [Slots -> BOOLEAN]
  /\ sound_initiator \in Conns
  /\ CompletionToInitiator
  /\ \A c \in Slots : ringing[c] => link[c]
  /\ \A c \in Slots :
       play_sound_in_progress /\ sound_initiator = c /\ link[c] => ringing[c]

EndsVars == <<link, ringing, stray, play_sound_in_progress, sound_initiator>>

LEMMA EndsInit == Init => EndsInv /\ EventsInv
<1>. SUFFICES ASSUME Init PROVE EndsInv /\ EventsInv
  OBVIOUS
<1>1. EventsInv
  BY DEF Init, SoundInit, EventsInv
<1>2. EndsInv
  BY DEF Init, SoundInit, EndsInv, CompletionToInitiator, Conns
<1>. QED  BY <1>1, <1>2

LEMMA EndsLeft ==
  ASSUME EndsInv, UNCHANGED EndsVars
  PROVE  EndsInv'
BY DEF EndsInv, EndsVars, CompletionToInitiator

(* A sound starts when none plays, so nobody waits for an end but its        *)
(* initiator.                                                              *)
LEMMA StartEnds ==
  ASSUME EndsInv, NEW c \in Conns, NEW q, sound_start(c, q), UNCHANGED link
  PROVE  EndsInv'
<1>1. /\ ~play_sound_in_progress /\ play_sound_in_progress'
      /\ sound_initiator' = c /\ UNCHANGED <<stray, link>>
      /\ ringing' = IF c # NULL /\ link[c] THEN [ringing EXCEPT ![c] = TRUE] ELSE ringing
  BY DEF sound_start
<1>2. \A d \in Slots : ~ringing[d]
  BY <1>1 DEF EndsInv, CompletionToInitiator
<1>3. NULL \notin Slots
  BY DEF NULL, Slots
<1>4. ringing' \in [Slots -> BOOLEAN]
  BY <1>1 DEF EndsInv
<1>5. \A d \in Slots : ringing'[d] => d = c /\ link[d]
  BY <1>1, <1>2 DEF EndsInv
<1>6. \A d \in Slots : d = c /\ link[d] => ringing'[d]
  BY <1>1, <1>3 DEF EndsInv
<1>. QED  BY <1>1, <1>4, <1>5, <1>6 DEF EndsInv, CompletionToInitiator

(* The sound of c ends and its end is reported to c. *)
LEMMA StopEnds ==
  ASSUME EndsInv, NEW c \in Conns, stops(c), sound_stopped,
         sound_completed_indication_send(c), UNCHANGED link
  PROVE  EndsInv'
<1>1. /\ play_sound_in_progress /\ ~play_sound_in_progress'
      /\ sound_initiator = c /\ UNCHANGED <<sound_initiator, link>>
  BY DEF stops, sound_stopped
<1>2. \A d \in Slots : ringing[d] => d = c /\ link[d]
  BY <1>1 DEF EndsInv, CompletionToInitiator
<1>3. CASE c # NULL /\ link[c]
  <2>1. c \in Slots /\ ringing[c] /\ ~stray
    BY <1>1, <1>3 DEF EndsInv, Conns, CompletionToInitiator
  <2>2. ringing' = [ringing EXCEPT ![c] = FALSE] /\ ~stray'
    BY <1>3, <2>1 DEF sound_completed_indication_send
  <2>. QED  BY <1>1, <1>2, <2>1, <2>2 DEF EndsInv, CompletionToInitiator
<1>4. CASE ~(c # NULL /\ link[c])
  <2>1. UNCHANGED histVars
    BY <1>4, Zenon DEF sound_completed_indication_send
  <2>2. \A d \in Slots : d # NULL
    BY DEF NULL, Slots
  <2>3. \A d \in Slots : ~ringing[d]
    BY <1>2, <1>4, <2>2
  <2>. QED  BY <1>1, <2>1, <2>3 DEF EndsInv, CompletionToInitiator, histVars
<1>. QED  BY <1>3, <1>4

(* The handlers that start and stop sounds. *)
LEMMA SoundHandlersEnd ==
  ASSUME EndsInv, EventsInv,
         \/ start_sound_handle \/ stop_sound_handle
         \/ sound_timeout_work_handle \/ fmna_sound_completed_indicate
         \/ play_sound_work_handle
  PROVE  EndsInv'
<1>1. ASSUME NEW q, Refused(q), UNCHANGED link PROVE EndsInv'
  BY <1>1, EndsLeft DEF Refused, soundVars, histVars, EndsVars
<1>2. batch # <<>> => Head(batch).conn \in Conns
  <2>1. batch # <<>> => Head(batch) \in SoundEvent
    BY HeadTailProperties DEF EventsInv
  <2>. QED  BY <2>1 DEF SoundEvent
<1>3. CASE start_sound_handle
  <2>1. batch # <<>> /\ UNCHANGED link
    BY <1>3, Zenon DEF start_sound_handle, Handling
  <2>2. sound_start(Head(batch).conn, workq) \/ Refused(workq)
    BY <1>3, Zenon DEF start_sound_handle
  <2>. QED  BY <1>1, <1>2, <2>1, <2>2, StartEnds
<1>4. CASE stop_sound_handle
  <2>. DEFINE c == Head(batch).conn
  <2>1. batch # <<>> /\ UNCHANGED link
    BY <1>4, Zenon DEF stop_sound_handle, Handling
  <2>2. \/ sound_stop(c, workq) /\ sound_completed_indication_send(c)
        \/ Refused(workq)
    BY <1>4, Zenon DEF stop_sound_handle
  <2>3. sound_stop(c, workq) => stops(c) /\ sound_stopped
    BY DEF sound_stop
  <2>. QED  BY <1>1, <1>2, <2>1, <2>2, <2>3, StopEnds
<1>5. CASE sound_timeout_work_handle
  <2>. DEFINE c == sound_initiator
  <2>1. UNCHANGED link /\ c \in Conns
    BY <1>5 DEF sound_timeout_work_handle, EndsInv
  <2>2. \/ sound_stop(c, Tail(workq)) /\ sound_completed_indication_send(c)
        \/ Refused(Tail(workq))
    BY <1>5, Zenon DEF sound_timeout_work_handle
  <2>3. sound_stop(c, Tail(workq)) => stops(c) /\ sound_stopped
    BY DEF sound_stop
  <2>. QED  BY <1>1, <2>1, <2>2, <2>3, StopEnds
<1>6. CASE fmna_sound_completed_indicate
  <2>. DEFINE c == sound_initiator
  <2>1. UNCHANGED link /\ c \in Conns
    BY <1>6 DEF fmna_sound_completed_indicate, EndsInv
  <2>2. \/ stops(c) /\ sound_stopped /\ sound_completed_indication_send(c)
        \/ Refused(Tail(workq))
    BY <1>6, Zenon DEF fmna_sound_completed_indicate
  <2>. QED  BY <1>1, <2>1, <2>2, StopEnds
<1>7. CASE play_sound_work_handle
  <2>1. UNCHANGED link /\ NULL \in Conns
    BY <1>7, Zenon DEF play_sound_work_handle, Conns
  <2>2. sound_start(NULL, Tail(workq)) \/ Refused(Tail(workq))
    BY <1>7, Zenon DEF play_sound_work_handle
  <2>. QED  BY <1>1, <2>1, <2>2, StartEnds
<1>. QED  BY <1>3, <1>4, <1>5, <1>6, <1>7

(* The steps that leave the links, the sound and its history alone. *)
LEMMA OtherStepsEnd ==
  ASSUME EndsInv,
         \/ TakeEvents /\ NotSound
         \/ security_changed_event \/ peer_disconnected_event
         \/ owner_connected_event \/ sound_completed_event \/ state_changed_event
         \/ connected_owner_handle \/ sound_completed_handle
         \/ SoundTimer \/ AppTimer \/ MotionTimer
         \/ security_changed \/ config_cp_write \/ non_owner_cp_write
         \/ nearby_separated_work_handle \/ fmna_enable
         \/ UNCHANGED vars
  PROVE  EndsInv'
<1>1. UNCHANGED EndsVars
  BY Zenon DEF EndsVars, security_changed_event, peer_disconnected_event,
     owner_connected_event, sound_completed_event, state_changed_event,
     connected_owner_handle, sound_completed_handle, SoundTimer, sound_timeout_expires,
     AppTimer, app_timeout_expires, MotionTimer, motion_enable_timeout_handle,
     motion_poll_handle, motion_poll_duration_timeout_handle, security_changed,
     config_cp_write, non_owner_cp_write, nearby_separated_work_handle, fmna_enable, vars,
     EnvUnchanged, NotSound, soundVars, linkVars, histVars
<1>. QED  BY <1>1, EndsLeft

(* A peer takes the connection object of another only when no sound of that *)
(* other plays; one that leaves waits no more.                              *)
LEMMA LinksEnd ==
  ASSUME EndsInv, "slot_reuse" \notin SoundRaces,
         connected \/ disconnected \/ fmna_disable
  PROVE  EndsInv'
<1>1. CASE connected
  <2>1. PICK c \in Slots :
          /\ ~(play_sound_in_progress /\ sound_initiator = c)
          /\ link' = [link EXCEPT ![c] = TRUE]
    BY <1>1 DEF connected
  <2>2. UNCHANGED <<ringing, stray, play_sound_in_progress, sound_initiator>>
    BY <1>1 DEF connected, EnvUnchanged, soundVars, histVars
  <2>. QED  BY <2>1, <2>2 DEF EndsInv, CompletionToInitiator
<1>2. CASE disconnected
  <2>1. PICK c \in Slots :
          /\ link' = [link EXCEPT ![c] = FALSE]
          /\ ringing' = [ringing EXCEPT ![c] = FALSE]
    BY <1>2 DEF disconnected
  <2>2. UNCHANGED <<stray, play_sound_in_progress, sound_initiator>>
    BY <1>2 DEF disconnected, EnvUnchanged, soundVars
  <2>. QED  BY <2>1, <2>2 DEF EndsInv, CompletionToInitiator
<1>3. CASE fmna_disable
  <2>1. /\ link' = [c \in Slots |-> FALSE] /\ ringing' = [c \in Slots |-> FALSE]
        /\ UNCHANGED <<stray, play_sound_in_progress, sound_initiator>>
    BY <1>3 DEF fmna_disable, soundVars
  <2>. QED  BY <2>1 DEF EndsInv, CompletionToInitiator
<1>. QED  BY <1>1, <1>2, <1>3

(* What a step may do with the events: take all, take one, post one.       *)
EventsMoved ==
  /\ \/ UNCHANGED batch
     \/ batch # <<>> /\ batch' = Tail(batch)
     \/ batch' = events
  /\ \/ UNCHANGED events
     \/ events' = <<>>
     \/ \E e \in SoundEvent : events' = events \o <<e>>

LEMMA EventsMovedKeep ==
  ASSUME EventsInv, EventsMoved
  PROVE  EventsInv'
<1>1. batch' \in Seq(SoundEvent)
  <2>1. batch # <<>> => Tail(batch) \in Seq(SoundEvent)
    BY HeadTailProperties DEF EventsInv
  <2>. QED  BY <2>1 DEF EventsInv, EventsMoved
<1>2. events' \in Seq(SoundEvent)
  <2>1. \A e \in SoundEvent : <<e>> \in Seq(SoundEvent)
    OBVIOUS
  <2>2. \A e \in SoundEvent : events \o <<e>> \in Seq(SoundEvent)
    BY <2>1, ConcatProperties DEF EventsInv
  <2>3. <<>> \in Seq(SoundEvent)
    OBVIOUS
  <2>. QED  BY <2>2, <2>3, Zenon DEF EventsInv, EventsMoved
<1>. QED  BY <1>1, <1>2 DEF EventsInv

(* The events that are posted are events. *)
LEMMA PostedEvent ==
  /\ \A id \in SoundEventIds : \A c \in Conns : Ev(id, c) \in SoundEvent
  /\ \A q, e : PostOn(q, <<e>>) => events' = events \o <<e>>
  /\ NULL \in Conns /\ Slots \subseteq Conns
BY DEF Ev, SoundEvent, PostOn, Conns

LEMMA EventsStep ==
  ASSUME EventsInv, sound_initiator \in Conns, [Next]_vars
  PROVE  EventsInv'
<1>1. batch # <<>> => Head(batch).conn \in Conns
  <2>1. batch # <<>> => Head(batch) \in SoundEvent
    BY HeadTailProperties DEF EventsInv
  <2>. QED  BY <2>1 DEF SoundEvent
<1>2. sound_initiator \in Conns
  OBVIOUS
<1>3. ASSUME NEW id \in SoundEventIds, NEW c \in Conns, NEW q, PostOn(q, <<Ev(id, c)>>)
      PROVE  \E e \in SoundEvent : events' = events \o <<e>>
  BY <1>3, PostedEvent
<1>. DEFINE Taken == batch # <<>> /\ batch' = Tail(batch)
            Posted == events' = events \/ \E e \in SoundEvent : events' = events \o <<e>>
<1>4. CASE start_sound_handle
  BY <1>4, EventsMovedKeep, Zenon
     DEF EventsMoved, start_sound_handle, Handling, sound_start, Refused
<1>5. CASE stop_sound_handle
  <2>1. Taken
    BY <1>5, Zenon DEF stop_sound_handle, Handling
  <2>2. \/ UNCHANGED events
        \/ PostOn(TimeoutsCancelled(workq), <<Ev("SOUND_COMPLETED", Head(batch).conn)>>)
    BY <1>5, Zenon DEF stop_sound_handle, sound_stop, Refused
  <2>3. Posted
    BY <1>1, <1>3, <2>1, <2>2 DEF SoundEventIds
  <2>. QED  BY <2>1, <2>3, EventsMovedKeep, Zenon DEF EventsMoved
<1>6. CASE sound_timeout_work_handle \/ fmna_sound_completed_indicate
  <2>1. UNCHANGED batch
    BY <1>6, Zenon DEF sound_timeout_work_handle, fmna_sound_completed_indicate, Running
  <2>2. \/ UNCHANGED events
        \/ \E q : PostOn(q, <<Ev("SOUND_COMPLETED", sound_initiator)>>)
    BY <1>6, Zenon DEF sound_timeout_work_handle, fmna_sound_completed_indicate, sound_stop,
       Refused
  <2>3. Posted
    BY <1>2, <1>3, <2>2 DEF SoundEventIds
  <2>. QED  BY <2>1, <2>3, EventsMovedKeep, Zenon DEF EventsMoved
<1>7. CASE \/ security_changed_event \/ peer_disconnected_event
           \/ owner_connected_event
  <2>1. Taken
    BY <1>7, Zenon DEF security_changed_event, peer_disconnected_event,
       owner_connected_event, Handling
  <2>2. \/ UNCHANGED events
        \/ PostOn(workq, <<Ev("OWNER_CONNECTED", Head(batch).conn)>>)
        \/ PostOn(workq, <<Ev("STATE_CHANGED", NULL)>>)
    BY <1>7, Zenon DEF security_changed_event, peer_disconnected_event,
       owner_connected_event, Post
  <2>3. Posted
    BY <1>1, <1>3, <2>1, <2>2, PostedEvent DEF SoundEventIds
  <2>. QED  BY <2>1, <2>3, EventsMovedKeep, Zenon DEF EventsMoved
<1>8. CASE sound_completed_event \/ state_changed_event
  BY <1>8, EventsMovedKeep, Zenon
     DEF EventsMoved, sound_completed_event, state_changed_event, Handling
<1>9. CASE TakeEvents
  BY <1>9, EventsMovedKeep, Zenon DEF EventsMoved, TakeEvents
<1>10. CASE \/ connected_owner_handle \/ sound_completed_handle \/ SoundTimer \/ AppTimer
            \/ MotionTimer \/ play_sound_work_handle \/ connected \/ UNCHANGED vars
  BY <1>10, EventsMovedKeep, Zenon
     DEF EventsMoved, connected_owner_handle, sound_completed_handle, SoundTimer,
     sound_timeout_expires, AppTimer, app_timeout_expires, MotionTimer,
     motion_enable_timeout_handle, motion_poll_handle, motion_poll_duration_timeout_handle,
     play_sound_work_handle, sound_start, Refused, Running, connected, vars, queueVars
<1>11. CASE \/ disconnected \/ security_changed \/ config_cp_write \/ non_owner_cp_write
            \/ nearby_separated_work_handle \/ fmna_enable \/ fmna_disable
  <2>1. UNCHANGED batch
    BY <1>11, Zenon DEF disconnected, security_changed, config_cp_write, non_owner_cp_write,
       nearby_separated_work_handle, fmna_enable, fmna_disable
  <2>2. \/ PostOn(workq, <<Ev("STATE_CHANGED", NULL)>>)
        \/ \E c \in Slots, id \in SoundEventIds : PostOn(workq, <<Ev(id, c)>>)
    <3>1. Commands = {"OWNER_START", "OWNER_STOP", "NON_OWNER_START", "NON_OWNER_STOP"}
      BY DEF Commands
    <3>. QED  BY <1>11, <3>1, Zenon
              DEF disconnected, security_changed, config_cp_write, non_owner_cp_write,
              nearby_separated_work_handle, fmna_enable, fmna_disable, Post, SoundEventIds
  <2>3. Posted
    BY <1>3, <2>2, PostedEvent DEF SoundEventIds
  <2>. QED  BY <2>1, <2>3, EventsMovedKeep, Zenon DEF EventsMoved
<1>. QED
  BY <1>4, <1>5, <1>6, <1>7, <1>8, <1>9, <1>10, <1>11, Zenon
     DEF Next, WorkqueueStep, Peers, Application

LEMMA EndsStep ==
  ASSUME EndsInv, EventsInv, "slot_reuse" \notin SoundRaces, [Next]_vars
  PROVE  EndsInv'
BY SoundHandlersEnd, OtherStepsEnd, LinksEnd, Zenon
   DEF Next, WorkqueueStep, Peers, Application

(* Without a peer taking the connection object of an initiator that left    *)
(* (the race "slot_reuse"), the end of a sound is reported to the peer that *)
(* started it, to no other, and never lost: sound_initiator is a bare       *)
(* connection pointer (fmna_sound.c).                                      *)
THEOREM EndsReachInitiator ==
  ASSUME "slot_reuse" \notin SoundRaces
  PROVE  Spec => []CompletionToInitiator
<1>1. Init => EndsInv /\ EventsInv
  BY EndsInit
<1>2. (EndsInv /\ EventsInv) /\ [Next]_vars => (EndsInv /\ EventsInv)'
  BY EventsStep, EndsStep DEF EndsInv
<1>3. EndsInv => CompletionToInitiator
  BY DEF EndsInv
<1>. QED  BY <1>1, <1>2, <1>3, PTL DEF Spec

-----------------------------------------------------------------------------
(* The detection is quiet with an owner connected. *)

OwnerWindow == isr_window \in {"owner_was_on", "owner_was_off"}

(* QuietWithOwner, and why: in the Connected state, once connected_owner_   *)
(* handle() has run, no timer runs that could start anything, no request   *)
(* waits for a sound's end, and the detector is only ever on while the     *)
(* detection is; a disabled stack has no detector.                         *)
QuietInv ==
  /\ state = "CONNECTED" /\ ~OwnerWindow =>
       /\ ~motion_enable_timer /\ ~motion_poll_timer /\ ~motion_poll_duration_timer
       /\ ~motion_detection_enabled /\ ~play_sound_requested
       /\ isr_window = "none"
  /\ app_motion => motion_detection_enabled /\ state # "DISABLED"
  /\ app_motion => isr_window # "owner_was_off"

LEMMA QuietInit == Init => QuietInv
BY DEF Init, SoundInit, QuietInv, OwnerWindow

LEMMA QuietLeft ==
  ASSUME QuietInv, MotionUnchanged,
         \/ UNCHANGED state
         \/ Quiet /\ state # "DISABLED" /\ state' \in {"NEARBY", "SEPARATED"}
         \/ Quiet /\ state = "DISABLED" /\ state' = "SEPARATED"
  PROVE  QuietInv'
BY DEF QuietInv, OwnerWindow, MotionUnchanged, motionVars, timerVars, Quiet

(* Interrupts: no timer runs in the Connected state, and none comes into a *)
(* handler, so the detector starts and stops with the detection.           *)
LEMMA TimersQuiet ==
  ASSUME QuietInv, "isr" \notin SoundRaces, MotionTimer
  PROVE  QuietInv'
<1>1. isr_window = "none" /\ state # "DISABLED"
  BY Zenon DEF MotionTimer, motion_enable_timeout_handle, motion_poll_handle,
     motion_poll_duration_timeout_handle, Interruptible
<1>2. UNCHANGED <<state, isr_window>>
  BY DEF MotionTimer, motion_enable_timeout_handle, motion_poll_handle,
     motion_poll_duration_timeout_handle, NotSound, linkVars
<1>3. motion_enable_timer \/ motion_poll_timer \/ motion_poll_duration_timer
  BY Zenon DEF MotionTimer, motion_enable_timeout_handle, motion_poll_handle,
     motion_poll_duration_timeout_handle
<1>4. state # "CONNECTED"
  BY <1>1, <1>3 DEF QuietInv, OwnerWindow
<1>5. app_motion' => motion_detection_enabled'
  BY Zenon DEF QuietInv, MotionTimer, motion_enable_timeout_handle, motion_poll_handle,
     motion_poll_duration_timeout_handle, backoff
<1>. QED  BY <1>1, <1>2, <1>4, <1>5 DEF QuietInv

LEMMA HandlersQuiet ==
  ASSUME QuietInv,
         \/ play_sound_work_handle \/ owner_connected_event \/ sound_completed_event
         \/ state_changed_event \/ connected_owner_handle \/ sound_completed_handle,
         Quiet \/ connected_owner_handle \/ sound_completed_handle
  PROVE  QuietInv'
<1>1. CASE play_sound_work_handle
  BY <1>1 DEF play_sound_work_handle, QuietInv, OwnerWindow, timerVars
<1>2. CASE owner_connected_event /\ Quiet
  <2>1. /\ isr_window' = IF motion_detection_enabled THEN "owner_was_on" ELSE "owner_was_off"
        /\ UNCHANGED motionVars
        /\ state' = "CONNECTED" \/ state' = state
    BY <1>2 DEF owner_connected_event
  <2>2. OwnerWindow'
    BY <2>1 DEF OwnerWindow
  <2>3. state' = "DISABLED" => state = "DISABLED"
    BY <2>1
  <2>. QED  BY <2>1, <2>2, <2>3 DEF QuietInv, motionVars
<1>3. CASE sound_completed_event /\ Quiet
  <2>1. /\ play_sound_requested' = FALSE
        /\ isr_window' = IF play_sound_requested THEN "completed" ELSE "none"
        /\ UNCHANGED <<state, motion_enable_timer, motion_poll_timer,
                       motion_poll_duration_timer, motion_detection_enabled, app_motion>>
    BY <1>3 DEF sound_completed_event, NotSound, linkVars, timerVars
  <2>. QED  BY <1>3, <2>1 DEF QuietInv, OwnerWindow, Quiet
<1>4. CASE state_changed_event /\ Quiet
  <2>1. UNCHANGED <<state, app_motion, isr_window>>
    BY <1>4 DEF state_changed_event, NotSound, linkVars
  <2>2. CASE state = "DISABLED"
    BY <2>1, <2>2 DEF QuietInv
  <2>3. CASE state = "SEPARATED"
    <3>1. UNCHANGED motion_detection_enabled
      BY <1>4, <2>3 DEF state_changed_event
    <3>. QED  BY <2>1, <2>3, <3>1 DEF QuietInv
  <2>4. CASE state \notin {"DISABLED", "SEPARATED"}
    <3>1. UNCHANGED <<timerVars, motion_detection_enabled, play_sound_requested>>
      BY <1>4, <2>4 DEF state_changed_event
    <3>. QED  BY <2>1, <3>1 DEF QuietInv, OwnerWindow, timerVars
  <2>. QED  BY <2>2, <2>3, <2>4
<1>5. CASE connected_owner_handle
  <2>1. /\ isr_window' = "none" /\ UNCHANGED state
        /\ ~motion_detection_enabled' /\ ~play_sound_requested' /\ ~motion_poll_timer'
        /\ ~motion_poll_duration_timer' /\ ~motion_enable_timer'
    BY <1>5 DEF connected_owner_handle, state_reset, EnableTimerStopped, NotSound, linkVars
  <2>2. ~app_motion'
    BY <1>5, Zenon DEF connected_owner_handle, QuietInv
  <2>. QED  BY <2>1, <2>2 DEF QuietInv
<1>6. CASE sound_completed_handle
  <2>1. /\ isr_window = "completed" /\ isr_window' = "none"
        /\ UNCHANGED <<state, motion_detection_enabled, app_motion>>
    BY <1>6 DEF sound_completed_handle, NotSound, linkVars
  <2>2. state # "CONNECTED"
    BY <2>1 DEF QuietInv, OwnerWindow
  <2>. QED  BY <2>1, <2>2 DEF QuietInv
<1>. QED  BY <1>1, <1>2, <1>3, <1>4, <1>5, <1>6, Zenon

LEMMA DisableQuiet ==
  ASSUME QuietInv, fmna_disable, app_motion' = FALSE, UNCHANGED isr_window
  PROVE  QuietInv'
BY DEF QuietInv, fmna_disable

LEMMA QuietStep ==
  ASSUME QuietInv, "isr" \notin SoundRaces, [Next]_vars
  PROVE  QuietInv'
<1>1. CASE WorkqueueStep
  <2>1. CASE /\ Quiet
             /\ \/ TakeEvents /\ NotSound
                \/ start_sound_handle \/ stop_sound_handle
                \/ sound_timeout_work_handle \/ fmna_sound_completed_indicate
                \/ security_changed_event
             /\ MotionUnchanged
    <3>1. UNCHANGED state
      BY <2>1, Zenon DEF NotSound, start_sound_handle, stop_sound_handle,
         sound_timeout_work_handle, fmna_sound_completed_indicate, security_changed_event,
         linkVars
    <3>. QED  BY <2>1, <3>1, QuietLeft
  <2>2. CASE Quiet /\ peer_disconnected_event /\ MotionUnchanged
    <3>1. \/ UNCHANGED state
          \/ state = "CONNECTED" /\ state' \in {"NEARBY", "SEPARATED"}
      BY <2>2 DEF peer_disconnected_event
    <3>. QED  BY <2>2, <3>1, QuietLeft
  <2>3. CASE \/ Quiet /\ (play_sound_work_handle \/ owner_connected_event
                          \/ sound_completed_event \/ state_changed_event)
             \/ connected_owner_handle \/ sound_completed_handle
    BY <2>3, HandlersQuiet
  <2>. QED  BY <1>1, <2>1, <2>2, <2>3, Zenon DEF WorkqueueStep
<1>2. CASE SoundTimer \/ AppTimer
  <2>1. UNCHANGED state /\ MotionUnchanged
    BY <1>2, Zenon DEF SoundTimer, AppTimer, sound_timeout_expires, app_timeout_expires,
       linkVars
  <2>. QED  BY <2>1, QuietLeft
<1>3. CASE MotionTimer
  BY <1>3, TimersQuiet
<1>4. CASE Peers
  <2>1. UNCHANGED state /\ MotionUnchanged
    BY <1>4, Zenon DEF Peers, connected, disconnected, security_changed, config_cp_write,
       non_owner_cp_write, linkVars
  <2>. QED  BY <2>1, QuietLeft
<1>5. CASE Application
  <2>1. CASE (nearby_separated_work_handle \/ fmna_enable) /\ MotionUnchanged
    <3>1. /\ Quiet /\ state' = "SEPARATED"
          /\ state = "NEARBY" \/ state = "DISABLED"
      BY <2>1 DEF nearby_separated_work_handle, fmna_enable
    <3>. QED  BY <2>1, <3>1, QuietLeft
  <2>2. CASE fmna_disable /\ app_motion' = FALSE /\ UNCHANGED isr_window
    BY <2>2, DisableQuiet
  <2>. QED  BY <1>5, <2>1, <2>2, Zenon DEF Application
<1>6. CASE UNCHANGED vars
  BY <1>6, QuietLeft DEF vars, linkVars, MotionUnchanged
<1>. QED  BY <1>1, <1>2, <1>3, <1>4, <1>5, <1>6, Zenon DEF Next

(* Without an interrupt inside connected_owner_handle() (the race "isr"),   *)
(* no timer of the detection runs and the detector is stopped while an     *)
(* owner is connected, although the STATE_CHANGED of an earlier Separated  *)
(* state may be handled after the owner came (fmna_motion_detection.c:     *)
(* state_transition_handle() reads the state of now).                      *)
THEOREM OwnerQuietsDetection ==
  ASSUME "isr" \notin SoundRaces
  PROVE  Spec => []QuietWithOwner
<1>1. Init => QuietInv
  BY QuietInit
<1>2. QuietInv /\ [Next]_vars => QuietInv'
  BY QuietStep
<1>3. QuietInv => QuietWithOwner
  BY DEF QuietInv, QuietWithOwner, OwnerWindow
<1>. QED  BY <1>1, <1>2, <1>3, PTL DEF Spec

-----------------------------------------------------------------------------
(* What waits stays until its turn comes. *)

(* The initiator that is remembered is a connection or none.                *)
InitiatorInv == sound_initiator \in Conns

LEMMA InitiatorStep ==
  ASSUME EventsInv, InitiatorInv, [Next]_vars
  PROVE  InitiatorInv'
<1>1. batch # <<>> => Head(batch).conn \in Conns
  <2>1. batch # <<>> => Head(batch) \in SoundEvent
    BY HeadTailProperties DEF EventsInv
  <2>. QED  BY <2>1 DEF SoundEvent
<1>2. CASE start_sound_handle \/ play_sound_work_handle
  <2>1. PICK c \in Conns : sound_initiator' = c \/ UNCHANGED sound_initiator
    BY <1>1, <1>2, PostedEvent, Zenon DEF start_sound_handle, play_sound_work_handle, sound_start,
       Refused, Handling, soundVars
  <2>. QED  BY <2>1 DEF InitiatorInv
<1>3. CASE ~(start_sound_handle \/ play_sound_work_handle)
  <2>1. UNCHANGED sound_initiator
    BY <1>3, Zenon DEF Next, WorkqueueStep, TakeEvents, NotSound, stop_sound_handle, sound_stop, sound_stopped, Refused,
     sound_timeout_work_handle, fmna_sound_completed_indicate,
     security_changed_event, peer_disconnected_event,
     owner_connected_event, sound_completed_event, state_changed_event,
     connected_owner_handle, sound_completed_handle, SoundTimer, sound_timeout_expires,
     AppTimer, app_timeout_expires, MotionTimer, motion_enable_timeout_handle,
     motion_poll_handle, motion_poll_duration_timeout_handle, Peers, connected, disconnected, security_changed,
     config_cp_write, non_owner_cp_write, Application, nearby_separated_work_handle, fmna_enable,
     fmna_disable, vars, EnvUnchanged, soundVars
  <2>. QED  BY <2>1 DEF InitiatorInv
<1>. QED  BY <1>2, <1>3

(* An event of another kind is taken, or none; another is posted, or none.  *)
Passing(id) ==
  /\ UNCHANGED batch \/ (batch # <<>> /\ Head(batch).id # id /\ batch' = Tail(batch))
  /\ UNCHANGED events \/ \E e \in SoundEvent : events' = events \o <<e>>

LEMMA PendingPasses ==
  ASSUME EventsInv, NEW id, NEW c, Passing(id), Pending(id, c)
  PROVE  Pending(id, c)'
<1>1. batch \in Seq(SoundEvent) /\ events \in Seq(SoundEvent)
  BY DEF EventsInv
<1>2. ASSUME NEW i \in 1..Len(events), events[i].id = id, events[i].conn = c
      PROVE  Pending(id, c)'
  <2>1. i \in 1..Len(events') /\ events'[i] = events[i]
    <3>1. CASE UNCHANGED events
      BY <3>1
    <3>2. CASE \E e \in SoundEvent : events' = events \o <<e>>
      <4>1. PICK e \in SoundEvent : events' = events \o <<e>>
        BY <3>2
      <4>. QED  BY <1>1, <4>1
    <3>. QED  BY <3>1, <3>2 DEF Passing
  <2>. QED  BY <1>2, <2>1 DEF Pending
<1>3. ASSUME NEW i \in 1..Len(batch), batch[i].id = id, batch[i].conn = c
      PROVE  Pending(id, c)'
  <2>1. CASE UNCHANGED batch
    BY <1>3, <2>1 DEF Pending
  <2>2. CASE batch # <<>> /\ Head(batch).id # id /\ batch' = Tail(batch)
    <3>1. i # 1
      BY <1>1, <1>3, <2>2
    <3>. DEFINE j == i - 1
    <3>2. j \in 1..Len(batch') /\ batch'[j] = batch[i]
      BY <1>1, <2>2, <3>1
    <3>. HIDE DEF j
    <3>. QED  BY <1>3, <3>2 DEF Pending
  <2>. QED  BY <2>1, <2>2 DEF Passing
<1>. QED  BY <1>2, <1>3 DEF Pending

LEMMA PendingTaken ==
  ASSUME NEW id, NEW c, TakeEvents, EventsInv, Pending(id, c)
  PROVE  Pending(id, c)'
BY DEF TakeEvents, Between, Pending, EventsInv

(* What is posted waits.                                                    *)
LEMMA PendingPosted ==
  ASSUME EventsInv, NEW q, NEW id \in SoundEventIds, NEW c \in Conns, PostOn(q, <<Ev(id, c)>>)
  PROVE  Pending(id, c)' /\ \E e \in SoundEvent : events' = events \o <<e>>
<1>1. Ev(id, c) \in SoundEvent /\ events' = events \o <<Ev(id, c)>>
  BY PostedEvent
<1>2. events \in Seq(SoundEvent)
  BY DEF EventsInv
<1>. DEFINE n == Len(events) + 1
<1>3. n \in 1..Len(events') /\ events'[n] = Ev(id, c)
  BY <1>1, <1>2
<1>. HIDE DEF n
<1>. QED  BY <1>1, <1>3 DEF Pending, Ev

(* The request for the sound of the detection leaves the workqueue only     *)
(* when it runs, and with the last state of a stack that is disabled.       *)
LEMMA PlayQueued ==
  ASSUME TimedInv, [Next]_vars, ~play_sound_work_handle, ~motion_poll_handle,
         ~(Quiet /\ state_changed_event /\ state = "DISABLED")
  PROVE  Queued(workq', "play_sound") <=> Queued(workq, "play_sound")
<1>. DEFINE Same(q) == Queued(q, "play_sound") <=> Queued(workq, "play_sound")
<1>0. WorkqueueOK(workq)
  BY DEF TimedInv
<1>1. \A q, evs : WorkqueueOK(q) /\ Same(q) /\ PostOn(q, evs) => Same(workq')
  BY PostedOnce
<1>2. \A q : WorkqueueOK(q) /\ Same(q) => WorkqueueOK(TimeoutsCancelled(q)) /\ Same(TimeoutsCancelled(q))
  BY CancelledOnce DEF TimeoutsCancelled
<1>3. \A q : WorkqueueOK(q) /\ Same(q) => /\ WorkqueueOK(Cancelled(q, "sound_timeout"))
                                          /\ Same(Cancelled(q, "sound_timeout"))
  BY CancelledOnce
<1>4. \A w : Running(w) /\ w # "play_sound" => WorkqueueOK(Tail(workq)) /\ Same(Tail(workq))
  BY <1>0, TailOnce DEF Running
<1>5. \A q, c : WorkqueueOK(q) /\ Same(q) /\ (sound_start(c, q) \/ sound_stop(c, q) \/ Refused(q)) => Same(workq')
  <2>. SUFFICES ASSUME NEW q, NEW c, WorkqueueOK(q), Same(q), sound_start(c, q) \/ sound_stop(c, q) \/ Refused(q)
                PROVE  Same(workq')
    OBVIOUS
  <2>1. CASE sound_start(c, q) \/ Refused(q)
    BY <2>1 DEF sound_start, Refused
  <2>2. CASE sound_stop(c, q)
    <3>1. PostOn(TimeoutsCancelled(q), <<Ev("SOUND_COMPLETED", c)>>)
      BY <2>2 DEF sound_stop
    <3>. QED  BY <1>1, <1>2, <3>1
  <2>. QED  BY <2>1, <2>2
<1>. HIDE DEF Same
<1>6. Same(workq)
  BY DEF Same
<1>7. CASE start_sound_handle \/ stop_sound_handle
  <2>1. PICK c : sound_start(c, workq) \/ sound_stop(c, workq) \/ Refused(workq)
    BY <1>7, Zenon DEF start_sound_handle, stop_sound_handle
  <2>2. Same(workq')
    BY <1>0, <1>5, <1>6, <2>1
  <2>. QED  BY <2>2 DEF Same
<1>8. CASE sound_timeout_work_handle
  <2>1. Running("sound_timeout") /\ (sound_stop(sound_initiator, Tail(workq)) \/ Refused(Tail(workq)))
    BY <1>8, Zenon DEF sound_timeout_work_handle
  <2>2. Same(workq')
    BY <1>4, <1>5, <2>1
  <2>. QED  BY <2>2 DEF Same
<1>9. CASE fmna_sound_completed_indicate
  <2>1. /\ Running("app_timeout")
        /\ \/ PostOn(Cancelled(Tail(workq), "sound_timeout"), <<Ev("SOUND_COMPLETED", sound_initiator)>>)
           \/ Refused(Tail(workq))
    BY <1>9, Zenon DEF fmna_sound_completed_indicate
  <2>2. WorkqueueOK(Tail(workq)) /\ Same(Tail(workq))
    BY <1>4, <2>1
  <2>3. Same(workq')
    BY <1>1, <1>3, <1>5, <2>1, <2>2
  <2>. QED  BY <2>3 DEF Same
<1>10. CASE sound_timeout_expires \/ app_timeout_expires
  <2>1. \E w \in Names \ {"play_sound"} : workq' = Submitted(workq, w)
    BY <1>10 DEF sound_timeout_expires, app_timeout_expires, Names
  <2>. QED  BY <1>0, <2>1, SubmittedOnce
<1>11. CASE TakeEvents
  BY <1>0, <1>11, TailOnce DEF TakeEvents
<1>12. CASE workq' = workq \/ \E evs : PostOn(workq, evs)
  BY <1>0, <1>1, <1>6, <1>12 DEF Same
<1>13. CASE \/ security_changed_event \/ peer_disconnected_event \/ owner_connected_event
            \/ sound_completed_event \/ connected_owner_handle \/ sound_completed_handle
            \/ motion_enable_timeout_handle \/ motion_poll_duration_timeout_handle
            \/ connected \/ disconnected \/ security_changed \/ config_cp_write \/ non_owner_cp_write
            \/ nearby_separated_work_handle \/ fmna_enable \/ fmna_disable \/ UNCHANGED vars
  <2>1. workq' = workq \/ \E evs : PostOn(workq, evs)
    BY <1>13, Zenon DEF security_changed_event, peer_disconnected_event,
     owner_connected_event, sound_completed_event, connected_owner_handle, sound_completed_handle,
     motion_enable_timeout_handle, motion_poll_duration_timeout_handle, connected, disconnected,
     security_changed, config_cp_write, non_owner_cp_write, nearby_separated_work_handle, fmna_enable,
     fmna_disable, Post, queueVars, vars
  <2>. QED  BY <1>12, <2>1
<1>14. CASE Quiet /\ state_changed_event
  <2>1. state # "DISABLED"
    BY <1>14
  <2>2. workq' = workq
    BY <1>14, <2>1 DEF state_changed_event
  <2>. QED  BY <2>2
<1>. QED
  BY <1>7, <1>8, <1>9, <1>10, <1>11, <1>13, <1>14, Zenon
     DEF Next, WorkqueueStep, SoundTimer, AppTimer, MotionTimer, Peers, Application

-----------------------------------------------------------------------------
(* The detection does not get stuck. *)

(* The owner's window is open only in the state that owner_connected_event  *)
(* left behind, so what connected_owner_handle() ends is not Separated.     *)
WindowInv ==
  /\ state \in {"DISABLED", "CONNECTED", "NEARBY", "SEPARATED"}
  /\ OwnerWindow => state \in {"CONNECTED", "DISABLED"}

LEMMA WindowStep ==
  ASSUME WindowInv, [Next]_vars
  PROVE  WindowInv'
<1>1. CASE owner_connected_event
  BY <1>1 DEF owner_connected_event, WindowInv
<1>2. CASE connected_owner_handle \/ sound_completed_handle \/ MotionTimer \/ SoundTimer \/ AppTimer
           \/ Peers \/ UNCHANGED vars
  <2>1. UNCHANGED state /\ (isr_window' = "none" \/ UNCHANGED isr_window)
    BY <1>2, Zenon DEF connected_owner_handle, sound_completed_handle, NotSound, MotionTimer,
       motion_enable_timeout_handle, motion_poll_handle, motion_poll_duration_timeout_handle,
       SoundTimer, sound_timeout_expires, AppTimer, app_timeout_expires, Peers, connected,
       disconnected, security_changed, config_cp_write, non_owner_cp_write, MotionUnchanged,
       linkVars, vars
  <2>. QED  BY <2>1 DEF WindowInv, OwnerWindow
<1>3. CASE /\ Quiet
           /\ \/ TakeEvents /\ NotSound
              \/ start_sound_handle \/ stop_sound_handle \/ sound_timeout_work_handle
              \/ fmna_sound_completed_indicate \/ security_changed_event
           /\ MotionUnchanged
  <2>1. UNCHANGED state /\ isr_window' = "none"
    BY <1>3, Zenon DEF NotSound, start_sound_handle, stop_sound_handle,
       sound_timeout_work_handle, fmna_sound_completed_indicate, security_changed_event,
       linkVars, MotionUnchanged, Quiet
  <2>. QED  BY <2>1 DEF WindowInv, OwnerWindow
<1>4. CASE Quiet /\ (play_sound_work_handle \/ sound_completed_event \/ state_changed_event)
  <2>1. UNCHANGED state /\ isr_window' \in {"none", "completed"}
    BY <1>4 DEF play_sound_work_handle, sound_completed_event, state_changed_event, NotSound,
       linkVars, Quiet
  <2>. QED  BY <2>1 DEF WindowInv, OwnerWindow
<1>5. CASE \/ Quiet /\ peer_disconnected_event /\ MotionUnchanged
           \/ Application
  <2>1. /\ isr_window' = "none"
        /\ UNCHANGED state \/ state' \in {"DISABLED", "NEARBY", "SEPARATED"}
    BY <1>5 DEF peer_disconnected_event, Application, nearby_separated_work_handle, fmna_enable,
       fmna_disable, MotionUnchanged, Quiet
  <2>. QED  BY <2>1 DEF WindowInv, OwnerWindow
<1>. QED
  BY <1>1, <1>2, <1>3, <1>4, <1>5, Zenon DEF Next, WorkqueueStep

(* DetectionNotStuck, with the facts it rests on.                           *)
DetectionInv ==
  /\ TimedInv /\ EventsInv /\ InitiatorInv /\ WindowInv
  /\ DetectionNotStuck

(* The detection's sound will start, plays, or its end waits to be handled.*)
SoundAhead ==
  Queued(workq, "play_sound") \/ play_sound_in_progress \/ PendingAny("SOUND_COMPLETED")

(* The stack is in the Separated state and has handled the news of it.     *)
Settled == state = "SEPARATED" /\ ~Pending("STATE_CHANGED", NULL)

LEMMA DetectionLeft ==
  ASSUME DetectionNotStuck, MotionUnchanged, Settled' => Settled, SoundAhead => SoundAhead'
  PROVE  DetectionNotStuck'
BY DEF DetectionNotStuck, MotionUnchanged, motionVars, timerVars, SoundAhead, Settled

(* A step that handles no event of the detection and takes no sound of it  *)
(* away leaves what it waits for ahead.                                     *)
LEMMA AheadLeft ==
  ASSUME EventsInv,
         Queued(workq, "play_sound") => Queued(workq', "play_sound"),
         play_sound_in_progress => play_sound_in_progress' \/ PendingAny("SOUND_COMPLETED")',
         Passing("SOUND_COMPLETED") \/ TakeEvents
  PROVE  SoundAhead => SoundAhead'
<1>1. \A c : Pending("SOUND_COMPLETED", c) => Pending("SOUND_COMPLETED", c)'
  BY PendingPasses, PendingTaken
<1>. QED  BY <1>1 DEF SoundAhead, PendingAny

LEMMA SettledLeft ==
  ASSUME EventsInv,
         Passing("STATE_CHANGED") \/ TakeEvents,
         \/ UNCHANGED state \/ state' # "SEPARATED"
         \/ Pending("STATE_CHANGED", NULL)'
  PROVE  Settled' => Settled
<1>1. Pending("STATE_CHANGED", NULL) => Pending("STATE_CHANGED", NULL)'
  BY PendingPasses, PendingTaken
<1>. QED  BY <1>1 DEF Settled

(* The handlers of the sounds, and the events that are not the detection's.*)
LEMMA HandlersDetect ==
  ASSUME DetectionInv, MotionUnchanged, [Next]_vars,
         \/ TakeEvents /\ NotSound
         \/ start_sound_handle \/ stop_sound_handle
         \/ sound_timeout_work_handle \/ fmna_sound_completed_indicate
         \/ security_changed_event \/ peer_disconnected_event,
         ~play_sound_work_handle, ~motion_poll_handle, ~state_changed_event
  PROVE  DetectionNotStuck'
<1>. USE DEF DetectionInv
<1>1. Queued(workq', "play_sound") <=> Queued(workq, "play_sound")
  BY PlayQueued
<1>2. batch # <<>> => Head(batch) \in SoundEvent
  BY HeadTailProperties DEF EventsInv
<1>3. batch # <<>> => Head(batch).conn \in Conns
  BY <1>2 DEF SoundEvent
<1>4. NULL \in Conns /\ Commands = {"OWNER_START", "OWNER_STOP", "NON_OWNER_START", "NON_OWNER_STOP"}
  BY DEF Conns, Commands
<1>5. \A q : \A id \in SoundEventIds : \A c \in Conns :
        PostOn(q, <<Ev(id, c)>>) => Pending(id, c)' /\ \E e \in SoundEvent : events' = events \o <<e>>
  BY PendingPosted
<1>. DEFINE Taken(ids) == batch # <<>> /\ Head(batch).id \in ids /\ batch' = Tail(batch)
            Posted == UNCHANGED events \/ \E e \in SoundEvent : events' = events \o <<e>>
            Sounding == play_sound_in_progress => play_sound_in_progress' \/ PendingAny("SOUND_COMPLETED")'
            Staying == UNCHANGED state \/ Pending("STATE_CHANGED", NULL)'
<1>6. ASSUME UNCHANGED batch \/ Taken(Commands \cup {"PEER_SECURITY_CHANGED", "PEER_DISCONNECTED"}), Posted
      PROVE  Passing("SOUND_COMPLETED") /\ Passing("STATE_CHANGED")
  BY <1>4, <1>6 DEF Passing
<1>7. ASSUME (Passing("SOUND_COMPLETED") /\ Passing("STATE_CHANGED")) \/ TakeEvents, Sounding, Staying
      PROVE  DetectionNotStuck'
  BY <1>1, <1>7, AheadLeft, SettledLeft, DetectionLeft
<1>8. ASSUME NEW c \in Conns,
              \/ UNCHANGED <<events, play_sound_in_progress>>
              \/ \E q : PostOn(q, <<Ev("SOUND_COMPLETED", c)>>)
       PROVE  Posted /\ Sounding
  <2>1. CASE UNCHANGED <<events, play_sound_in_progress>>
    BY <2>1
  <2>2. CASE \E q : PostOn(q, <<Ev("SOUND_COMPLETED", c)>>)
    <3>1. "SOUND_COMPLETED" \in SoundEventIds
      BY DEF SoundEventIds
    <3>2. Pending("SOUND_COMPLETED", c)' /\ \E e \in SoundEvent : events' = events \o <<e>>
      BY <1>5, <2>2, <3>1
    <3>. QED  BY <3>2, Zenon DEF PendingAny
  <2>. QED  BY <1>8, <2>1, <2>2
<1>9. CASE TakeEvents /\ NotSound
  BY <1>7, <1>9 DEF NotSound, soundVars, linkVars
<1>10. CASE start_sound_handle
  <2>1. Taken(Commands) /\ UNCHANGED <<events, state>>
    BY <1>4, <1>10, Zenon DEF start_sound_handle, Handling, sound_start, Refused
  <2>2. play_sound_in_progress' \/ UNCHANGED play_sound_in_progress
    BY <1>10, Zenon DEF start_sound_handle, sound_start, Refused, soundVars
  <2>. QED  BY <1>6, <1>7, <2>1, <2>2
<1>11. CASE stop_sound_handle
  <2>1. Taken(Commands) /\ UNCHANGED state
    BY <1>4, <1>11, Zenon DEF stop_sound_handle, Handling
  <2>2. \/ UNCHANGED <<events, play_sound_in_progress>>
        \/ \E q : PostOn(q, <<Ev("SOUND_COMPLETED", Head(batch).conn)>>)
    BY <1>11, Zenon DEF stop_sound_handle, sound_stop, Refused, soundVars
  <2>3. Posted /\ Sounding
    BY <1>3, <1>8, <2>1, <2>2
  <2>. QED  BY <1>6, <1>7, <2>1, <2>3
<1>12. CASE sound_timeout_work_handle \/ fmna_sound_completed_indicate
  <2>1. UNCHANGED <<batch, state>>
    BY <1>12, Zenon DEF sound_timeout_work_handle, fmna_sound_completed_indicate, Running
  <2>2. \/ UNCHANGED <<events, play_sound_in_progress>>
        \/ \E q : PostOn(q, <<Ev("SOUND_COMPLETED", sound_initiator)>>)
    BY <1>12, Zenon DEF sound_timeout_work_handle, fmna_sound_completed_indicate, sound_stop, Refused, soundVars
  <2>3. Posted /\ Sounding
    BY <1>8, <2>2 DEF InitiatorInv
  <2>. QED  BY <1>6, <1>7, <2>1, <2>3
<1>13. CASE security_changed_event
  <2>1. Taken({"PEER_SECURITY_CHANGED"}) /\ UNCHANGED <<state, play_sound_in_progress>>
    BY <1>13, Zenon DEF security_changed_event, Handling, soundVars
  <2>2. UNCHANGED events \/ PostOn(workq, <<Ev("OWNER_CONNECTED", Head(batch).conn)>>)
    BY <1>13, Zenon DEF security_changed_event, Post
  <2>3. Posted
    BY <1>3, <1>5, <2>1, <2>2 DEF SoundEventIds
  <2>. QED  BY <1>6, <1>7, <2>1, <2>3
<1>14. CASE peer_disconnected_event
  <2>1. Taken({"PEER_DISCONNECTED"}) /\ UNCHANGED play_sound_in_progress
    BY <1>14, Zenon DEF peer_disconnected_event, Handling, soundVars
  <2>2. UNCHANGED <<state, events>> \/ PostOn(workq, <<Ev("STATE_CHANGED", NULL)>>)
    BY <1>14 DEF peer_disconnected_event, Post
  <2>3. Posted /\ Staying
    BY <1>4, <1>5, <2>2 DEF SoundEventIds
  <2>. QED  BY <1>6, <1>7, <2>1, <2>3
<1>. QED  BY <1>9, <1>10, <1>11, <1>12, <1>13, <1>14

(* The timers of the sound, the peers and the application.                  *)
LEMMA OthersDetect ==
  ASSUME DetectionInv, [Next]_vars,
         \/ SoundTimer \/ AppTimer \/ Peers
         \/ (nearby_separated_work_handle \/ fmna_enable) /\ MotionUnchanged
         \/ UNCHANGED vars,
         ~play_sound_work_handle, ~motion_poll_handle, ~state_changed_event
  PROVE  DetectionNotStuck'
<1>. USE DEF DetectionInv
<1>1. Queued(workq', "play_sound") <=> Queued(workq, "play_sound")
  BY PlayQueued
<1>2. /\ UNCHANGED <<batch, play_sound_in_progress>> /\ MotionUnchanged
      /\ \/ UNCHANGED <<events, state>>
         \/ PostOn(workq, <<Ev("STATE_CHANGED", NULL)>>)
         \/ UNCHANGED state /\ \E id \in SoundEventIds : \E c \in Slots : PostOn(workq, <<Ev(id, c)>>)
  <2>1. CASE SoundTimer \/ AppTimer \/ UNCHANGED vars
    BY <2>1, Zenon DEF SoundTimer, sound_timeout_expires, AppTimer, app_timeout_expires, vars,
       queueVars, linkVars, soundVars, MotionUnchanged
  <2>2. CASE Peers
    <3>1. Commands = {"OWNER_START", "OWNER_STOP", "NON_OWNER_START", "NON_OWNER_STOP"}
      BY DEF Commands
    <3>. QED  BY <2>2, <3>1, Zenon DEF Peers, connected, disconnected, security_changed, config_cp_write,
       non_owner_cp_write, EnvUnchanged, queueVars, linkVars, soundVars, Post, SoundEventIds
  <2>3. CASE (nearby_separated_work_handle \/ fmna_enable) /\ MotionUnchanged
    BY <2>3, Zenon DEF nearby_separated_work_handle, fmna_enable, Post, soundVars
  <2>. QED  BY <2>1, <2>2, <2>3
<1>3. NULL \in Conns /\ Slots \subseteq Conns /\ "STATE_CHANGED" \in SoundEventIds
  BY DEF Conns, SoundEventIds
<1>4. /\ UNCHANGED events \/ \E e \in SoundEvent : events' = events \o <<e>>
      /\ UNCHANGED state \/ Pending("STATE_CHANGED", NULL)'
  BY <1>2, <1>3, PendingPosted
<1>5. Passing("SOUND_COMPLETED") /\ Passing("STATE_CHANGED")
  BY <1>2, <1>4 DEF Passing
<1>. QED  BY <1>1, <1>2, <1>4, <1>5, AheadLeft, SettledLeft, DetectionLeft

(* The timers of the detection: it polls, asks for a sound or backs off.    *)
LEMMA TimersDetect ==
  ASSUME DetectionInv, MotionTimer
  PROVE  DetectionNotStuck'
<1>. USE DEF DetectionNotStuck
<1>1. CASE motion_enable_timeout_handle
  BY <1>1 DEF motion_enable_timeout_handle
<1>2. CASE motion_poll_handle
  <2>1. Queued(workq', "play_sound")
    <3>1. "play_sound" \in Names /\ WorkqueueOK(workq)
      BY DEF Names, DetectionInv, TimedInv
    <3>2. workq' = Submitted(workq, "play_sound")
      BY <1>2 DEF motion_poll_handle
    <3>. QED  BY <3>1, <3>2, SubmittedOnce
  <2>2. motion_enable_timer' \/ play_sound_requested'
    BY <1>2, Zenon DEF motion_poll_handle, backoff
  <2>. QED  BY <2>1, <2>2
<1>3. CASE motion_poll_duration_timeout_handle
  BY <1>3 DEF motion_poll_duration_timeout_handle, backoff
<1>. QED  BY <1>1, <1>2, <1>3 DEF MotionTimer

(* The handlers of the detection.                                           *)
LEMMA DetectionHandlersDetect ==
  ASSUME DetectionInv,
         \/ play_sound_work_handle \/ state_changed_event
         \/ Quiet /\ (owner_connected_event \/ sound_completed_event)
         \/ connected_owner_handle \/ sound_completed_handle
  PROVE  DetectionNotStuck'
<1>. USE DEF DetectionInv
<1>1. CASE play_sound_work_handle
  <2>1. play_sound_in_progress'
    BY <1>1 DEF play_sound_work_handle, sound_start, Refused, soundVars
  <2>2. UNCHANGED <<state, batch, events, motion_enable_timer, motion_poll_timer, play_sound_requested, isr_window>>
    BY <1>1, Zenon DEF play_sound_work_handle, Running, sound_start, Refused, timerVars
  <2>. QED  BY <2>1, <2>2 DEF DetectionNotStuck, Pending
<1>2. CASE owner_connected_event
  <2>1. state' # "SEPARATED"
    BY <1>2 DEF owner_connected_event, WindowInv
  <2>. QED  BY <2>1 DEF DetectionNotStuck
<1>3. CASE Quiet /\ sound_completed_event
  <2>1. /\ UNCHANGED <<state, events, motion_enable_timer, motion_poll_timer>>
        /\ isr_window' = IF play_sound_requested THEN "completed" ELSE "none"
        /\ isr_window = "none"
        /\ batch # <<>> /\ Head(batch).id = "SOUND_COMPLETED" /\ batch' = Tail(batch)
    BY <1>3, Zenon DEF sound_completed_event, Handling, NotSound, linkVars, timerVars, Quiet
  <2>2. Passing("STATE_CHANGED")
    BY <2>1 DEF Passing
  <2>3. Pending("STATE_CHANGED", NULL) => Pending("STATE_CHANGED", NULL)'
    BY <2>2, PendingPasses
  <2>. QED  BY <2>1, <2>3 DEF DetectionNotStuck
<1>4. CASE state_changed_event
  BY <1>4 DEF state_changed_event, NotSound, linkVars, DetectionNotStuck
<1>5. CASE connected_owner_handle
  <2>1. state' # "SEPARATED"
    BY <1>5 DEF connected_owner_handle, NotSound, linkVars, WindowInv, OwnerWindow
  <2>. QED  BY <2>1 DEF DetectionNotStuck
<1>6. CASE sound_completed_handle
  BY <1>6 DEF sound_completed_handle, ActivePolling, DetectionNotStuck
<1>. QED  BY <1>1, <1>2, <1>3, <1>4, <1>5, <1>6

LEMMA DetectionStep ==
  ASSUME DetectionInv, [Next]_vars
  PROVE  DetectionInv'
<1>1. TimedInv' /\ EventsInv' /\ InitiatorInv' /\ WindowInv'
  BY TimedStep, EventsStep, InitiatorStep, WindowStep DEF DetectionInv, InitiatorInv
<1>2. DetectionNotStuck'
  <2>1. CASE MotionTimer
    BY <2>1, TimersDetect
  <2>2. CASE \/ play_sound_work_handle \/ state_changed_event
             \/ Quiet /\ (owner_connected_event \/ sound_completed_event)
             \/ connected_owner_handle \/ sound_completed_handle
    BY <2>2, DetectionHandlersDetect
  <2>3. CASE fmna_disable
    <3>1. state' # "SEPARATED"
      BY <2>3 DEF fmna_disable
    <3>. QED  BY <3>1 DEF DetectionNotStuck
  <2>. DEFINE Other == ~play_sound_work_handle /\ ~motion_poll_handle /\ ~state_changed_event
  <2>4. CASE /\ Other /\ MotionUnchanged
             /\ \/ TakeEvents /\ NotSound
                \/ start_sound_handle \/ stop_sound_handle
                \/ sound_timeout_work_handle \/ fmna_sound_completed_indicate
                \/ security_changed_event \/ peer_disconnected_event
    BY <2>4, HandlersDetect
  <2>5. CASE /\ Other
             /\ \/ SoundTimer \/ AppTimer \/ Peers
                \/ (nearby_separated_work_handle \/ fmna_enable) /\ MotionUnchanged
                \/ UNCHANGED vars
    BY <2>5, OthersDetect
  <2>6. motion_poll_handle => MotionTimer
    BY DEF MotionTimer
  <2>. QED
    BY <2>1, <2>2, <2>3, <2>4, <2>5, <2>6, Zenon DEF Next, WorkqueueStep, Application
<1>. QED  BY <1>1, <1>2 DEF DetectionInv

(* Under every race: in the Separated state, once its STATE_CHANGED has     *)
(* been handled, the detection waits for its start, polls, or has asked    *)
(* for a sound whose end will still be handled (fmna_motion_detection.c:   *)
(* nothing else ever starts it again).                                     *)
THEOREM DetectionIsNotStuck == Spec => []DetectionNotStuck
<1>1. Init => DetectionInv
  <2>. SUFFICES ASSUME Init PROVE DetectionInv
    OBVIOUS
  <2>1. state = "DISABLED" /\ isr_window = "none" /\ sound_initiator = NULL
    BY DEF Init, SoundInit
  <2>2. WindowInv /\ InitiatorInv /\ DetectionNotStuck
    BY <2>1 DEF WindowInv, OwnerWindow, InitiatorInv, Conns, DetectionNotStuck
  <2>. QED  BY <2>2, TimedInit, EndsInit DEF DetectionInv
<1>2. DetectionInv /\ [Next]_vars => DetectionInv'
  BY DetectionStep
<1>3. DetectionInv => DetectionNotStuck
  BY DEF DetectionInv
<1>. QED  BY <1>1, <1>2, <1>3, PTL DEF Spec

-----------------------------------------------------------------------------
(* The sounds of the detection are limited. *)

(* The sounds it played since its start, with the one that waits to start.  *)
SoundsAsked == ut_sounds + (IF Queued(workq, "play_sound") THEN 1 ELSE 0)

(* SoundBudget, and why: while the detection may still ask for a sound, its *)
(* count is at least the sounds it asked for, and the count is short of     *)
(* the limit; the sound that reaches the limit backs off.                   *)
BudgetInv ==
  /\ TimedInv
  /\ ut_sounds \in Nat /\ sound_count \in 0..(SEPARATED_UT_MAX_SOUND_COUNT - 1)
  /\ SoundsAsked <= SEPARATED_UT_MAX_SOUND_COUNT
  /\ motion_poll_timer \/ play_sound_requested \/ isr_window = "completed" =>
       SoundsAsked <= sound_count

LEMMA BudgetLeft ==
  ASSUME BudgetInv, TimedInv', MotionUnchanged,
         Queued(workq', "play_sound") <=> Queued(workq, "play_sound")
  PROVE  BudgetInv'
BY DEF BudgetInv, MotionUnchanged, motionVars, timerVars, SoundsAsked

(* The detection ends: nothing is left that asks for a sound.               *)
LEMMA BudgetReset ==
  ASSUME BudgetInv, TimedInv', state_reset, UNCHANGED ut_sounds, isr_window' = "none",
         SoundsAsked' <= SEPARATED_UT_MAX_SOUND_COUNT
  PROVE  BudgetInv'
BY MotionAssumption DEF BudgetInv, state_reset

LEMMA BudgetTimers ==
  ASSUME BudgetInv, TimedInv', "isr" \notin SoundRaces, MotionTimer
  PROVE  BudgetInv'
<1>1. isr_window = "none" /\ UNCHANGED isr_window
  BY Zenon DEF MotionTimer, motion_enable_timeout_handle, motion_poll_handle,
     motion_poll_duration_timeout_handle, Interruptible
<1>2. CASE motion_enable_timeout_handle
  <2>1. /\ ~Queued(workq', "play_sound") /\ ut_sounds' = 0
        /\ UNCHANGED sound_count
    BY <1>2 DEF motion_enable_timeout_handle, queueVars
  <2>2. SoundsAsked' = 0
    BY <2>1 DEF SoundsAsked
  <2>. QED  BY <1>1, <2>1, <2>2, MotionAssumption DEF BudgetInv
<1>3. CASE motion_poll_handle
  <2>1. Queued(workq', "play_sound")
    <3>1. "play_sound" \in Names /\ WorkqueueOK(workq)
      BY DEF Names, BudgetInv, TimedInv
    <3>2. workq' = Submitted(workq, "play_sound")
      BY <1>3 DEF motion_poll_handle
    <3>. QED  BY <3>1, <3>2, SubmittedOnce
  <2>2. SoundsAsked <= sound_count /\ UNCHANGED ut_sounds
    BY <1>3 DEF motion_poll_handle, BudgetInv
  <2>3. SoundsAsked' <= sound_count + 1
    BY <2>1, <2>2 DEF SoundsAsked, BudgetInv
  <2>4. CASE LastSound /\ backoff
    <3>1. SoundsAsked' <= SEPARATED_UT_MAX_SOUND_COUNT
      BY <2>2, <2>3, MotionAssumption DEF BudgetInv, SoundsAsked
    <3>. QED  BY <1>1, <2>2, <2>4, <3>1, BudgetReset DEF backoff
  <2>5. CASE ~LastSound /\ sound_count' = sound_count + 1
    <3>1. SoundsAsked' \in Nat
      BY <2>2 DEF SoundsAsked, BudgetInv
    <3>2. sound_count' < SEPARATED_UT_MAX_SOUND_COUNT
      BY <2>5, MotionAssumption DEF LastSound, BudgetInv
    <3>. QED  BY <2>2, <2>3, <2>5, <3>1, <3>2, MotionAssumption DEF BudgetInv
  <2>. QED  BY <1>3, <2>4, <2>5, Zenon DEF motion_poll_handle
<1>4. CASE motion_poll_duration_timeout_handle
  <2>1. state_reset /\ UNCHANGED <<workq, ut_sounds>>
    BY <1>4 DEF motion_poll_duration_timeout_handle, backoff, queueVars
  <2>2. SoundsAsked' <= SEPARATED_UT_MAX_SOUND_COUNT
    BY <2>1 DEF SoundsAsked, BudgetInv
  <2>. QED  BY <1>1, <2>1, <2>2, BudgetReset
<1>. QED  BY <1>2, <1>3, <1>4 DEF MotionTimer

(* The handlers of the detection that move what it counts.                  *)
LEMMA BudgetHandlers ==
  ASSUME BudgetInv, TimedInv',
         \/ play_sound_work_handle
         \/ Quiet /\ state_changed_event /\ state = "DISABLED"
  PROVE  BudgetInv'
<1>1. CASE play_sound_work_handle
  <2>1. Running("play_sound") /\ workq' = Tail(workq) /\ (ut_sounds' = ut_sounds + 1 \/ UNCHANGED ut_sounds)
    BY <1>1 DEF play_sound_work_handle, sound_start, Refused
  <2>2. Queued(workq, "play_sound") /\ ~Queued(workq', "play_sound")
    <3>1. WorkqueueOK(workq) /\ workq # <<>> /\ Head(workq) = "play_sound"
      BY <2>1 DEF Running, BudgetInv, TimedInv
    <3>2. Queued(workq, "play_sound")
      BY <3>1 DEF Queued, WorkqueueOK
    <3>. QED  BY <2>1, <3>1, <3>2, TailOnce
  <2>3. SoundsAsked' \in Nat /\ SoundsAsked \in Nat /\ SoundsAsked' <= SoundsAsked /\ ut_sounds' \in Nat
    BY <2>1, <2>2 DEF SoundsAsked, BudgetInv
  <2>4. UNCHANGED <<motion_poll_timer, play_sound_requested, sound_count, isr_window>>
    BY <1>1 DEF play_sound_work_handle, timerVars
  <2>. QED  BY <2>3, <2>4, MotionAssumption DEF BudgetInv
<1>2. CASE Quiet /\ state_changed_event /\ state = "DISABLED"
  <2>1. /\ state_reset /\ workq' = Cancelled(workq, "play_sound")
        /\ UNCHANGED ut_sounds /\ isr_window' = "none"
    BY <1>2 DEF state_changed_event, Quiet
  <2>2. ~Queued(workq', "play_sound")
    BY <2>1, CancelledOnce DEF BudgetInv, TimedInv
  <2>3. SoundsAsked' <= SEPARATED_UT_MAX_SOUND_COUNT
    BY <2>1, <2>2, MotionAssumption DEF SoundsAsked, BudgetInv
  <2>. QED  BY <2>1, <2>3, BudgetReset
<1>. QED  BY <1>1, <1>2

(* The steps that leave the sounds it asked for alone.                      *)
LEMMA BudgetOthers ==
  ASSUME BudgetInv, TimedInv', UNCHANGED ut_sounds,
         Queued(workq', "play_sound") <=> Queued(workq, "play_sound"),
         \/ owner_connected_event \/ sound_completed_event
         \/ Quiet /\ state_changed_event /\ state # "DISABLED"
         \/ connected_owner_handle \/ sound_completed_handle
         \/ fmna_disable /\ UNCHANGED <<timerVars, play_sound_requested, sound_count, isr_window>>
  PROVE  BudgetInv'
<1>1. SoundsAsked' = SoundsAsked
  BY DEF SoundsAsked
<1>2. CASE connected_owner_handle
  BY <1>1, <1>2, BudgetReset DEF connected_owner_handle, BudgetInv
<1>3. CASE owner_connected_event
  <2>1. UNCHANGED <<motion_poll_timer, play_sound_requested, sound_count>> /\ isr_window' # "completed"
    BY <1>3 DEF owner_connected_event, motionVars, timerVars
  <2>. QED  BY <1>1, <2>1 DEF BudgetInv
<1>4. CASE sound_completed_event
  <2>1. /\ UNCHANGED <<motion_poll_timer, sound_count>> /\ ~play_sound_requested'
        /\ isr_window' = "completed" => play_sound_requested
    BY <1>4 DEF sound_completed_event, timerVars
  <2>. QED  BY <1>1, <2>1 DEF BudgetInv
<1>5. CASE \/ Quiet /\ state_changed_event /\ state # "DISABLED"
           \/ fmna_disable /\ UNCHANGED <<timerVars, play_sound_requested, sound_count, isr_window>>
  <2>1. UNCHANGED <<motion_poll_timer, play_sound_requested, sound_count, isr_window>>
    BY <1>5 DEF state_changed_event, timerVars
  <2>. QED  BY <1>1, <2>1 DEF BudgetInv
<1>6. CASE sound_completed_handle
  <2>1. isr_window = "completed" /\ UNCHANGED sound_count
    BY <1>6 DEF sound_completed_handle
  <2>. QED  BY <1>1, <2>1 DEF BudgetInv
<1>. QED  BY <1>2, <1>3, <1>4, <1>5, <1>6

LEMMA BudgetStep ==
  ASSUME BudgetInv, "isr" \notin SoundRaces, [Next]_vars
  PROVE  BudgetInv'
<1>1. TimedInv'
  BY TimedStep DEF BudgetInv
<1>2. CASE MotionTimer
  BY <1>1, <1>2, BudgetTimers
<1>3. CASE \/ play_sound_work_handle
           \/ Quiet /\ state_changed_event /\ state = "DISABLED"
  BY <1>1, <1>3, BudgetHandlers
<1>. DEFINE Other == /\ ~play_sound_work_handle /\ ~motion_poll_handle
                     /\ ~(Quiet /\ state_changed_event /\ state = "DISABLED")
            Disabling == /\ fmna_disable /\ UNCHANGED ut_sounds
                         /\ UNCHANGED <<timerVars, play_sound_requested, sound_count, isr_window>>
            Detecting == \/ owner_connected_event \/ sound_completed_event
                         \/ Quiet /\ state_changed_event /\ state # "DISABLED"
                         \/ connected_owner_handle \/ sound_completed_handle
<1>4. Other => (Queued(workq', "play_sound") <=> Queued(workq, "play_sound"))
  BY PlayQueued DEF BudgetInv
<1>5. CASE Other /\ (Detecting \/ Disabling)
  <2>1. UNCHANGED ut_sounds
    BY <1>5, Zenon DEF owner_connected_event, sound_completed_event, state_changed_event,
       connected_owner_handle, sound_completed_handle, motionVars
  <2>. QED  BY <1>1, <1>4, <1>5, <2>1, BudgetOthers
<1>6. CASE Other /\ MotionUnchanged
  BY <1>1, <1>4, <1>6, BudgetLeft
<1>7. UNCHANGED vars => MotionUnchanged
  BY Zenon DEF vars, MotionUnchanged
<1>8. motion_poll_handle => MotionTimer
  BY DEF MotionTimer
<1>. QED
  BY <1>2, <1>3, <1>5, <1>6, <1>7, <1>8, Zenon
     DEF Next, WorkqueueStep, SoundTimer, AppTimer, Peers, Application

(* Without an interrupt inside a handler of the detection (the race "isr"), *)
(* it plays at most SEPARATED_UT_MAX_SOUND_COUNT sounds before it backs off *)
(* (fmna_motion_detection.c: motion_poll_timeout_handle() compares its      *)
(* count after the request, and every end of the detection clears it).      *)
THEOREM SoundsAreLimited ==
  ASSUME "isr" \notin SoundRaces
  PROVE  Spec => []SoundBudget
<1>1. Init => BudgetInv
  <2>. SUFFICES ASSUME Init PROVE BudgetInv
    OBVIOUS
  <2>1. /\ workq = <<>> /\ ut_sounds = 0 /\ sound_count = 0 /\ isr_window = "none"
        /\ ~motion_poll_timer /\ ~play_sound_requested
    BY DEF Init, SoundInit
  <2>2. SoundsAsked = 0
    BY <2>1 DEF SoundsAsked, Queued
  <2>. QED  BY <2>1, <2>2, TimedInit, MotionAssumption DEF BudgetInv
<1>2. BudgetInv /\ [Next]_vars => BudgetInv'
  BY BudgetStep
<1>3. BudgetInv => SoundBudget
  BY MotionAssumption DEF BudgetInv, SoundBudget, SoundsAsked
<1>. QED  BY <1>1, <1>2, <1>3, PTL DEF Spec

-----------------------------------------------------------------------------
(* The status an owner reads. *)

(* PlayingBit, on the types it needs: only the record of the initiator has  *)
(* its bit set, so the end of the sound clears every bit there is.          *)
BitInv ==
  /\ conns \in [Slots -> [valid : BOOLEAN, owner : BOOLEAN, playing : BOOLEAN]]
  /\ EventsInv /\ InitiatorInv
  /\ PlayingBit

LEMMA BitLeft ==
  ASSUME BitInv, EventsInv', InitiatorInv', UNCHANGED <<conns, play_sound_in_progress, sound_initiator>>
  PROVE  BitInv'
BY DEF BitInv, PlayingBit

(* Nobody's sound plays when one starts, so no other bit is set.            *)
LEMMA BitStarts ==
  ASSUME BitInv, EventsInv', InitiatorInv', NEW c \in Conns, NEW q, sound_start(c, q)
  PROVE  BitInv'
<1>1. /\ ~play_sound_in_progress /\ play_sound_in_progress' /\ sound_initiator' = c
      /\ conns' = IF c # NULL /\ conns[c].valid THEN [conns EXCEPT ![c].playing = TRUE] ELSE conns
  BY DEF sound_start
<1>2. \A d \in Slots : ~conns[d].playing
  BY <1>1 DEF BitInv, PlayingBit
<1>3. CASE c # NULL /\ conns' = [conns EXCEPT ![c].playing = TRUE]
  <2>1. c \in Slots
    BY <1>3 DEF Conns
  <2>2. conns' \in [Slots -> [valid : BOOLEAN, owner : BOOLEAN, playing : BOOLEAN]]
    BY <1>3, <2>1 DEF BitInv
  <2>3. \A d \in Slots : d # c => ~conns'[d].playing
    BY <1>2, <1>3, <2>1 DEF BitInv
  <2>. QED  BY <1>1, <2>2, <2>3 DEF BitInv, PlayingBit
<1>4. CASE UNCHANGED conns
  BY <1>2, <1>4 DEF BitInv, PlayingBit
<1>. QED  BY <1>1, <1>3, <1>4

LEMMA BitStops ==
  ASSUME BitInv, EventsInv', InitiatorInv', NEW c \in Conns, stops(c), sound_stopped,
         conns' = PlayingCleared(c)
  PROVE  BitInv'
<1>1. sound_initiator = c /\ ~play_sound_in_progress'
  BY DEF stops, sound_stopped
<1>2. \A d \in Slots : d # c => ~conns[d].playing
  BY <1>1 DEF BitInv, PlayingBit
<1>3. CASE c = NULL
  <2>1. \A d \in Slots : d # c
    BY <1>3, ConnAssumption DEF Slots, NULL
  <2>. QED  BY <1>2, <1>3, <2>1 DEF BitInv, PlayingBit, PlayingCleared
<1>4. CASE c # NULL
  <2>1. c \in Slots /\ conns' = [conns EXCEPT ![c].playing = FALSE]
    BY <1>4 DEF Conns, PlayingCleared
  <2>2. conns' \in [Slots -> [valid : BOOLEAN, owner : BOOLEAN, playing : BOOLEAN]]
    BY <2>1 DEF BitInv
  <2>3. \A d \in Slots : ~conns'[d].playing
    BY <1>2, <2>1 DEF BitInv
  <2>. QED  BY <2>2, <2>3 DEF BitInv, PlayingBit
<1>. QED  BY <1>3, <1>4

(* A record is taken, given back or marked as an owner's: no bit is set.    *)
LEMMA BitRecords ==
  ASSUME BitInv, EventsInv', InitiatorInv',
         connected \/ security_changed_event \/ peer_disconnected_event \/ fmna_enable
  PROVE  BitInv'
<1>. DEFINE Record == [valid : BOOLEAN, owner : BOOLEAN, playing : BOOLEAN]
<1>1. UNCHANGED <<play_sound_in_progress, sound_initiator>>
  BY DEF connected, security_changed_event, peer_disconnected_event, fmna_enable, EnvUnchanged,
     soundVars
<1>2. conns' \in [Slots -> Record] /\ \A d \in Slots : conns'[d].playing => conns[d].playing
  <2>1. CASE \E c \in Slots : conns' = [conns EXCEPT ![c] = [NoConn EXCEPT !.valid = TRUE]]
    BY <2>1 DEF BitInv, NoConn
  <2>2. CASE \E c \in Slots : conns' = [conns EXCEPT ![c] = NoConn]
    BY <2>2 DEF BitInv, NoConn
  <2>3. CASE \E c : conns' = [conns EXCEPT ![c].owner = TRUE]
    BY <2>3 DEF BitInv
  <2>4. CASE UNCHANGED conns \/ conns' = [c \in Slots |-> NoConn]
    <3>1. NoConn \in Record /\ ~NoConn.playing
      BY DEF NoConn
    <3>2. CASE conns' = [c \in Slots |-> NoConn]
      <4>1. \A d \in Slots : conns'[d] = NoConn
        BY <3>2
      <4>. QED  BY <3>1, <3>2, <4>1
    <3>. QED  BY <2>4, <3>2 DEF BitInv
  <2>5. CASE peer_disconnected_event
    <3>1. PICK c : conns' = [conns EXCEPT ![c] = NoConn]
      BY <2>5 DEF peer_disconnected_event
    <3>. QED  BY <3>1 DEF BitInv, NoConn
  <2>6. CASE connected \/ security_changed_event \/ fmna_enable
    BY <2>1, <2>3, <2>4, <2>6, Zenon DEF connected, security_changed_event, fmna_enable
  <2>. QED  BY <2>5, <2>6
<1>. QED  BY <1>1, <1>2 DEF BitInv, PlayingBit

LEMMA BitStep ==
  ASSUME BitInv, [Next]_vars
  PROVE  BitInv'
<1>1. EventsInv' /\ InitiatorInv'
  BY EventsStep, InitiatorStep DEF BitInv, InitiatorInv
<1>2. batch # <<>> => Head(batch).conn \in Conns
  <2>1. batch # <<>> => Head(batch) \in SoundEvent
    BY HeadTailProperties DEF BitInv, EventsInv
  <2>. QED  BY <2>1 DEF SoundEvent
<1>3. NULL \in Conns /\ sound_initiator \in Conns
  BY DEF Conns, BitInv, InitiatorInv
<1>4. ASSUME NEW q, Refused(q)
      PROVE  BitInv'
  BY <1>1, <1>4, BitLeft DEF Refused, soundVars
<1>5. CASE start_sound_handle \/ stop_sound_handle
  <2>1. \E c \in Conns : \E q : Refused(q) \/ sound_start(c, q) \/ sound_stop(c, q)
    BY <1>2, <1>5, Zenon DEF start_sound_handle, stop_sound_handle, Handling
  <2>. QED  BY <1>1, <1>4, <2>1, BitStarts, BitStops DEF sound_stop
<1>6. CASE play_sound_work_handle
  BY <1>1, <1>3, <1>4, <1>6, BitStarts DEF play_sound_work_handle
<1>7. CASE sound_timeout_work_handle \/ fmna_sound_completed_indicate
  BY <1>1, <1>3, <1>4, <1>7, BitStops
     DEF sound_timeout_work_handle, fmna_sound_completed_indicate, sound_stop
<1>8. CASE connected \/ security_changed_event \/ peer_disconnected_event \/ fmna_enable
  BY <1>1, <1>8, BitRecords
<1>9. CASE \/ TakeEvents /\ NotSound
           \/ owner_connected_event \/ sound_completed_event \/ state_changed_event
           \/ connected_owner_handle \/ sound_completed_handle
           \/ SoundTimer \/ AppTimer \/ MotionTimer
           \/ disconnected \/ security_changed \/ config_cp_write \/ non_owner_cp_write
           \/ nearby_separated_work_handle \/ fmna_disable \/ UNCHANGED vars
  <2>1. UNCHANGED <<conns, play_sound_in_progress, sound_initiator>>
    BY <1>9, Zenon DEF NotSound, owner_connected_event, sound_completed_event,
       state_changed_event, connected_owner_handle, sound_completed_handle, SoundTimer,
       sound_timeout_expires, AppTimer, app_timeout_expires, MotionTimer,
       motion_enable_timeout_handle, motion_poll_handle, motion_poll_duration_timeout_handle,
       disconnected, security_changed, config_cp_write, non_owner_cp_write,
       nearby_separated_work_handle, fmna_disable, EnvUnchanged, linkVars, soundVars, vars
  <2>. QED  BY <1>1, <2>1, BitLeft
<1>. QED
  BY <1>5, <1>6, <1>7, <1>8, <1>9, Zenon DEF Next, WorkqueueStep, Peers, Application

(* Under every race, also when a peer takes the connection object of an     *)
(* initiator that left: the status bit that the owner's command point       *)
(* reports is set for the initiator of the sound that plays and for nobody  *)
(* else (fmna_sound.c: sound_stop() and fmna_sound_completed_indicate()     *)
(* clear it, fmna_conn.c clears it with the record).                        *)
THEOREM BitsFollowSound == Spec => []PlayingBit
<1>1. Init => BitInv
  <2>. SUFFICES ASSUME Init PROVE BitInv
    OBVIOUS
  <2>1. conns = [c \in Slots |-> NoConn] /\ sound_initiator = NULL
    BY DEF Init, SoundInit
  <2>. QED  BY <2>1, EndsInit DEF BitInv, NoConn, PlayingBit, InitiatorInv, Conns
<1>2. BitInv /\ [Next]_vars => BitInv'
  BY BitStep
<1>3. BitInv => PlayingBit
  BY DEF BitInv
<1>. QED  BY <1>1, <1>2, <1>3, PTL DEF Spec

=============================================================================
