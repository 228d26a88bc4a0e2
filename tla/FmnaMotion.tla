----------------------------- MODULE FmnaMotion -----------------------------
(***************************************************************************)
(* fmna_motion_detection.c: the detection of unwanted tracking.  After a   *)
(* long time in the Separated state the accessory starts to poll a motion  *)
(* detector; when it moves it plays a sound, polls faster for a while, and *)
(* after too many sounds or that while it backs off.                       *)
(*                                                                         *)
(* Its three timers expire in interrupt context and run their handlers     *)
(* there, between any two steps of the workqueue and, under the race       *)
(* "isr", inside two of its handlers.                                      *)
(***************************************************************************)
EXTENDS FmnaSound

CONSTANT SEPARATED_UT_MAX_SOUND_COUNT

ASSUME MotionAssumption == SEPARATED_UT_MAX_SOUND_COUNT \in Nat \ {0}

VARIABLES
  motion_enable_timer, motion_poll_timer, motion_poll_duration_timer, \* running
  poll_period,              \* motion_poll_timer.period, which a stop leaves alone
  motion_detection_enabled,
  play_sound_requested,
  sound_count,
  app_motion,               \* The application's motion detector is started
  isr_window,               \* The handler an interrupt may come into
  ut_sounds                 \* History: sounds played since the detector started

timerVars  == <<motion_enable_timer, motion_poll_timer, motion_poll_duration_timer,
                poll_period>>
motionVars == <<timerVars, motion_detection_enabled, play_sound_requested, sound_count,
                app_motion, ut_sounds>>
vars == <<queueVars, linkVars, soundVars, appVars, histVars, motionVars, isr_window>>

TypeOK ==
  /\ SoundTypeOK
  /\ motion_enable_timer \in BOOLEAN /\ motion_poll_timer \in BOOLEAN
  /\ motion_poll_duration_timer \in BOOLEAN
  /\ poll_period \in {"none", "SAMPLING_RATE1", "SAMPLING_RATE2"}
  /\ motion_detection_enabled \in BOOLEAN
  /\ play_sound_requested \in BOOLEAN
  /\ sound_count \in 0..(SEPARATED_UT_MAX_SOUND_COUNT - 1)
  /\ app_motion \in BOOLEAN
  /\ isr_window \in {"none", "owner_was_off", "owner_was_on", "completed"}
  /\ ut_sounds \in 0..(SEPARATED_UT_MAX_SOUND_COUNT + 1)

Init ==
  /\ SoundInit
  /\ motion_enable_timer = FALSE /\ motion_poll_timer = FALSE
  /\ motion_poll_duration_timer = FALSE /\ poll_period = "none"
  /\ motion_detection_enabled = FALSE /\ play_sound_requested = FALSE /\ sound_count = 0
  /\ app_motion = FALSE /\ isr_window = "none" /\ ut_sounds = 0

(* A motion timer may expire now. *)
Interruptible ==
  (isr_window = "none" /\ state # "DISABLED") \/ "isr" \in SoundRaces

NotSound == UNCHANGED <<linkVars, soundVars, appVars, histVars>>

-----------------------------------------------------------------------------
(* Timers (interrupt context). *)

motion_enable_timeout_handle ==
  /\ motion_enable_timer /\ Interruptible
  /\ ~Queued(workq, "play_sound")  \* days or hours have passed since its start
  /\ ~(state = "SEPARATED" /\ Pending("STATE_CHANGED", NULL))
  /\ app_motion' = TRUE
  /\ motion_detection_enabled' = TRUE
  /\ motion_enable_timer' = FALSE
  /\ motion_poll_timer' = TRUE /\ poll_period' = "SAMPLING_RATE1"
  /\ ut_sounds' = 0
  /\ NotSound /\ UNCHANGED <<queueVars, motion_poll_duration_timer, play_sound_requested,
                             sound_count, isr_window>>

state_reset ==  \* the caller restarts motion_enable_timer or leaves it stopped
  /\ motion_detection_enabled' = FALSE
  /\ play_sound_requested' = FALSE
  /\ sound_count' = 0
  /\ motion_poll_timer' = FALSE
  /\ motion_poll_duration_timer' = FALSE
  /\ UNCHANGED poll_period

(* backoff_setup() and motion_detection_stop(). *)
backoff ==
  /\ state_reset
  /\ motion_enable_timer' = TRUE
  /\ app_motion' = FALSE

one_sound_more == sound_count + 1 > SEPARATED_UT_MAX_SOUND_COUNT  \* mutant
LastSound == sound_count + 1 >= SEPARATED_UT_MAX_SOUND_COUNT

(* motion_poll_timeout_handle() and motion_poll_handle(): the detector has *)
(* seen a motion in the last period; otherwise nothing changes.            *)
motion_poll_handle ==
  /\ motion_poll_timer /\ Interruptible
  /\ workq' = Submitted(workq, "play_sound")
  /\ \/ LastSound /\ backoff
     \/ /\ ~LastSound
        /\ motion_poll_timer' = FALSE
        /\ play_sound_requested' = TRUE
        /\ sound_count' = sound_count + 1
        /\ UNCHANGED <<motion_enable_timer, motion_poll_duration_timer, poll_period,
                       motion_detection_enabled, app_motion>>
  /\ NotSound /\ UNCHANGED <<batch, events, isr_window, ut_sounds>>

motion_poll_duration_timeout_handle ==
  /\ motion_poll_duration_timer /\ Interruptible
  /\ backoff
  /\ NotSound /\ UNCHANGED <<queueVars, isr_window, ut_sounds>>

-----------------------------------------------------------------------------
(* Handlers (system workqueue). *)

play_sound_work_handle ==
  /\ Running("play_sound")
  /\ \/ /\ sound_start(NULL, Tail(workq))
        /\ ut_sounds' = IF ut_sounds > SEPARATED_UT_MAX_SOUND_COUNT
                        THEN ut_sounds ELSE ut_sounds + 1
     \/ play_sound_in_progress /\ Refused(Tail(workq)) /\ UNCHANGED ut_sounds
  /\ UNCHANGED <<state, link, timerVars, motion_detection_enabled, play_sound_requested,
                 sound_count, app_motion, isr_window>>

(* OWNER_CONNECTED: fmna_state.c enters the Connected state, and           *)
(* connected_owner_handle() reads whether the detection runs ...           *)
owner_connected_event ==
  /\ Handling("OWNER_CONNECTED")
  /\ IF state \in {"NEARBY", "SEPARATED"}
     THEN state' = "CONNECTED" /\ Post(<<Ev("STATE_CHANGED", NULL)>>)
     ELSE UNCHANGED <<state, workq, events>>
  /\ isr_window' = IF motion_detection_enabled THEN "owner_was_on" ELSE "owner_was_off"
  /\ UNCHANGED <<link, conns, soundVars, appVars, histVars, motionVars>>

enable_timer_left == UNCHANGED motion_enable_timer  \* mutant
EnableTimerStopped == motion_enable_timer' = FALSE

(* ... and ends the detection. *)
connected_owner_handle ==
  /\ isr_window \in {"owner_was_on", "owner_was_off"}
  /\ isr_window' = "none"
  /\ state_reset
  /\ EnableTimerStopped
  /\ app_motion' = (isr_window = "owner_was_off" /\ app_motion)
  /\ NotSound /\ UNCHANGED <<queueVars, ut_sounds>>

(* SOUND_COMPLETED: sound_completed_handle() takes the request ...         *)
sound_completed_event ==
  /\ Handling("SOUND_COMPLETED")
  /\ play_sound_requested' = FALSE
  /\ isr_window' = IF play_sound_requested THEN "completed" ELSE "none"
  /\ NotSound
  /\ UNCHANGED <<workq, events, timerVars, motion_detection_enabled, sound_count, app_motion,
                 ut_sounds>>

never_restarts == UNCHANGED <<motion_poll_timer, motion_poll_duration_timer, poll_period>>  \* mutant
ActivePolling ==
  /\ motion_poll_duration_timer' =
       (motion_poll_duration_timer \/ poll_period = "SAMPLING_RATE1")
  /\ motion_poll_timer' = TRUE /\ poll_period' = "SAMPLING_RATE2"

(* ... and polls on, at the fast rate. *)
sound_completed_handle ==
  /\ isr_window = "completed"
  /\ isr_window' = "none"
  /\ ActivePolling
  /\ NotSound
  /\ UNCHANGED <<queueVars, motion_enable_timer, motion_detection_enabled,
                 play_sound_requested, sound_count, app_motion, ut_sounds>>

(* STATE_CHANGED: state_transition_handle() reads the state of now. *)
state_changed_event ==
  /\ Handling("STATE_CHANGED")
  /\ CASE state = "SEPARATED" ->
            /\ motion_enable_timer' = TRUE
            /\ UNCHANGED <<workq, motion_poll_timer, motion_poll_duration_timer, poll_period,
                           motion_detection_enabled, play_sound_requested, sound_count>>
       [] state = "DISABLED" ->
            /\ state_reset
            /\ motion_enable_timer' = FALSE
            /\ workq' = Cancelled(workq, "play_sound")
       [] OTHER -> UNCHANGED <<workq, timerVars, motion_detection_enabled,
                               play_sound_requested, sound_count>>
  /\ NotSound /\ UNCHANGED <<events, app_motion, isr_window, ut_sounds>>

-----------------------------------------------------------------------------
(* The rest of the stack. *)

Quiet == isr_window = "none"

MotionUnchanged == UNCHANGED <<motionVars, isr_window>>

(* PEER_SECURITY_CHANGED (fmna_keys.c): the link is one of an owner. *)
security_changed_event ==
  LET c == Head(batch).conn IN
  /\ Handling("PEER_SECURITY_CHANGED")
  /\ IF conns[c].valid /\ state # "DISABLED"
     THEN /\ conns' = [conns EXCEPT ![c].owner = TRUE]
          /\ Post(<<Ev("OWNER_CONNECTED", c)>>)
     ELSE UNCHANGED <<conns, workq, events>>
  /\ UNCHANGED <<state, link, soundVars, appVars, histVars>>

(* PEER_DISCONNECTED (fmna_conn.c, fmna_state.c): the record is given back; *)
(* when the last owner has left, Nearby follows, or Separated at once.     *)
peer_disconnected_event ==
  LET c == Head(batch).conn
      last == state = "CONNECTED" /\ \A d \in Slots \ {c} : ~conns[d].owner
  IN
  /\ Handling("PEER_DISCONNECTED")
  /\ conns' = [conns EXCEPT ![c] = NoConn]
  /\ IF last THEN /\ state' \in {"NEARBY", "SEPARATED"}
                  /\ Post(<<Ev("STATE_CHANGED", NULL)>>)
     ELSE UNCHANGED <<state, workq, events>>
  /\ UNCHANGED <<link, soundVars, appVars, histVars>>

nearby_separated_work_handle ==
  /\ Between /\ Quiet /\ state = "NEARBY"
  /\ state' = "SEPARATED"
  /\ Post(<<Ev("STATE_CHANGED", NULL)>>)
  /\ UNCHANGED <<batch, link, conns, soundVars, appVars, histVars>>

fmna_enable ==
  /\ Between /\ Quiet /\ state = "DISABLED" /\ events = <<>>
  /\ state' = "SEPARATED"
  /\ conns' = [c \in Slots |-> NoConn]
  /\ Post(<<Ev("STATE_CHANGED", NULL)>>)
  /\ UNCHANGED <<batch, link, soundVars, appVars, histVars>>

(* fmna_disable() drops every link before it returns; the application      *)
(* forgets its motion detector (disable_work_handle).                      *)
fmna_disable ==
  /\ Between /\ Quiet /\ state # "DISABLED" /\ workq = <<>>
  /\ state' = "DISABLED"
  /\ link' = [c \in Slots |-> FALSE]
  /\ ringing' = [c \in Slots |-> FALSE]
  /\ Post(<<Ev("STATE_CHANGED", NULL)>>)
  /\ UNCHANGED <<batch, conns, soundVars, appVars, stray>>

-----------------------------------------------------------------------------
(* The system. *)

WorkqueueStep ==
  \/ /\ Quiet
     /\ \/ TakeEvents /\ NotSound
        \/ start_sound_handle \/ stop_sound_handle
        \/ sound_timeout_work_handle \/ fmna_sound_completed_indicate
        \/ security_changed_event \/ peer_disconnected_event
     /\ MotionUnchanged
  \/ Quiet /\ (play_sound_work_handle \/ owner_connected_event \/ sound_completed_event
               \/ state_changed_event)
  \/ connected_owner_handle
  \/ sound_completed_handle

SoundTimer == sound_timeout_expires /\ MotionUnchanged
AppTimer   == app_timeout_expires /\ MotionUnchanged

MotionTimer ==
  \/ motion_enable_timeout_handle
  \/ motion_poll_handle
  \/ motion_poll_duration_timeout_handle

Peers ==
  /\ \/ connected \/ disconnected \/ security_changed
     \/ config_cp_write \/ non_owner_cp_write
  /\ MotionUnchanged

Application ==
  \/ (nearby_separated_work_handle \/ fmna_enable) /\ MotionUnchanged
  \/ /\ fmna_disable
     /\ app_motion' = FALSE
     /\ UNCHANGED <<timerVars, motion_detection_enabled, play_sound_requested, sound_count,
                    ut_sounds, isr_window>>

Next == WorkqueueStep \/ SoundTimer \/ AppTimer \/ MotionTimer \/ Peers \/ Application

(* The workqueue thread runs whenever it has work, and a work item that is  *)
(* scheduled becomes due.                                                  *)
Spec == Init /\ [][Next]_vars /\ WF_vars(WorkqueueStep) /\ WF_vars(SoundTimer)

-----------------------------------------------------------------------------
(* Safety. *)

PendingAny(id) == \E c \in Conns : Pending(id, c)

(* In the Separated state the detection never gets stuck: it waits for its *)
(* start, polls, or waits for the end of a sound that will come.  A peer's *)
(* sound may be in the way of its own, and SOUND_COMPLETED may be that of  *)
(* either.                                                                 *)
DetectionNotStuck ==
  state = "SEPARATED" /\ ~Pending("STATE_CHANGED", NULL) =>
    \/ motion_enable_timer \/ motion_poll_timer \/ isr_window # "none"
    \/ /\ play_sound_requested
       /\ Queued(workq, "play_sound") \/ play_sound_in_progress \/ PendingAny("SOUND_COMPLETED")

(* With an owner connected nothing of the detection runs, although the     *)
(* STATE_CHANGED of an earlier Separated state may be handled after the    *)
(* owner came.                                                             *)
QuietWithOwner ==
  state = "CONNECTED" /\ isr_window = "none" =>
    /\ ~motion_enable_timer /\ ~motion_poll_timer /\ ~motion_poll_duration_timer
    /\ ~motion_detection_enabled /\ ~app_motion

(* Between two starts of the detector at most SEPARATED_UT_MAX_SOUND_COUNT *)
(* sounds are played.                                                      *)
SoundBudget == ut_sounds <= SEPARATED_UT_MAX_SOUND_COUNT

(* fmna.h: "The motion detection activity stops when the                   *)
(* motion_detection_stop is called": no period expires after that.         *)
PollsWhileStarted == motion_poll_timer /\ state # "DISABLED" => app_motion

(* Liveness. *)

(* Every sound ends, also when its initiator has left and the application  *)
(* never reports the end.                                                  *)
SoundEnds == play_sound_in_progress ~> ~play_sound_in_progress

(* A detection that asked for a sound polls again, backs off, or ends.     *)
DetectionContinues ==
  play_sound_requested ~> (motion_poll_timer \/ motion_enable_timer \/ state # "SEPARATED")

=============================================================================
