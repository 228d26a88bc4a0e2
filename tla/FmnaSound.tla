----------------------------- MODULE FmnaSound ------------------------------
(***************************************************************************)
(* fmna_sound.c, the play sound action, with the application that plays it *)
(* (samples/locator_tag), and the part of the stack that asks for sounds:  *)
(* commands of owners and of non-owners.  FmnaMotion adds the detection of *)
(* unwanted tracking.                                                      *)
(*                                                                         *)
(* The stack around it is reduced to a paired accessory: the state, the    *)
(* links with their status bits, and the events between them.  Peers write *)
(* commands at any time; commands, timeouts and completions are handled on *)
(* the system workqueue.                                                   *)
(***************************************************************************)
EXTENDS FmnaEvents

CONSTANTS
  SoundRaces,      \* "slot_reuse": a peer takes the connection object of an
                   \* initiator that left while its sound still plays;
                   \* "isr": a timer expires inside a handler of FmnaMotion,
                   \* or between fmna_disable() and its STATE_CHANGED
  MaxSoundEvents   \* Bound: peers act while fewer events wait

ASSUME SoundAssumption ==
  /\ SoundRaces \subseteq {"slot_reuse", "isr"}
  /\ MaxSoundEvents \in Nat

VARIABLES
  state,                  \* fmna_state.c
  link,                   \* Links of the Bluetooth host
  conns,                  \* fmna_conn.c: the link's record and its status bits
  play_sound_in_progress,
  sound_initiator,
  sound_timeout,          \* sound_timeout_work scheduled
  app_playing,            \* The application plays the sound
  app_timeout,            \* Its own sound_timeout_work scheduled
  ringing,                \* History: peers that started a sound and wait for its end
  stray                   \* History: an end was reported to a peer that did not wait

soundVars == <<play_sound_in_progress, sound_initiator, sound_timeout>>
appVars   == <<app_playing, app_timeout>>
linkVars  == <<state, link, conns>>
histVars  == <<ringing, stray>>

Commands == {"OWNER_START", "OWNER_STOP", "NON_OWNER_START", "NON_OWNER_STOP"}

NoConn == [valid |-> FALSE, owner |-> FALSE, playing |-> FALSE]

SoundTypeOK ==
  /\ state \in {"DISABLED", "CONNECTED", "NEARBY", "SEPARATED"}
  /\ link \in [Slots -> BOOLEAN]
  /\ conns \in [Slots -> [valid : BOOLEAN, owner : BOOLEAN, playing : BOOLEAN]]
  /\ play_sound_in_progress \in BOOLEAN
  /\ sound_initiator \in Conns
  /\ sound_timeout \in BOOLEAN
  /\ app_playing \in BOOLEAN /\ app_timeout \in BOOLEAN
  /\ ringing \in [Slots -> BOOLEAN] /\ stray \in BOOLEAN

SoundInit ==
  /\ workq = <<>> /\ batch = <<>> /\ events = <<>>
  /\ state = "DISABLED"
  /\ link = [c \in Slots |-> FALSE]
  /\ conns = [c \in Slots |-> NoConn]
  /\ play_sound_in_progress = FALSE /\ sound_initiator = NULL /\ sound_timeout = FALSE
  /\ app_playing = FALSE /\ app_timeout = FALSE
  /\ ringing = [c \in Slots |-> FALSE] /\ stray = FALSE

-----------------------------------------------------------------------------
(* The application's callbacks (samples/locator_tag/src/main.c). *)

sound_start_cb ==
  /\ app_playing' = TRUE
  /\ app_timeout' = TRUE

sound_stop_cb ==
  /\ app_playing' = FALSE
  /\ app_timeout' = FALSE

(* k_work_cancel_delayable() of both timeouts, on workqueue q. *)
TimeoutsCancelled(q) == Cancelled(Cancelled(q, "sound_timeout"), "app_timeout")

-----------------------------------------------------------------------------
(* Starting and stopping (fmna_sound.c). *)

conns_only_stop(c) ==  \* mutant
  play_sound_in_progress /\ sound_initiator = c /\ c # NULL
any_conn_stops(c) == play_sound_in_progress  \* mutant
stops(c) == play_sound_in_progress /\ sound_initiator = c

timer_left_running ==  \* mutant
  /\ play_sound_in_progress' = FALSE
  /\ UNCHANGED <<sound_initiator, sound_timeout>>
sound_stopped ==
  /\ play_sound_in_progress' = FALSE
  /\ sound_timeout' = FALSE
  /\ UNCHANGED sound_initiator

bit_kept(c) == conns  \* mutant
PlayingCleared(c) ==
  IF c = NULL THEN conns ELSE [conns EXCEPT ![c].playing = FALSE]

(* sound_completed_indication_send(), to the peer on connection object c.   *)
sound_completed_indication_send(c) ==
  IF c # NULL /\ link[c]
  THEN /\ ringing' = [ringing EXCEPT ![c] = FALSE]
       /\ stray' = (stray \/ ~ringing[c])
  ELSE UNCHANGED histVars

(* sound_stop(): it stops the sound of c and tells the application, which  *)
(* stops playing.                                                          *)
sound_stop(c, q) ==
  /\ stops(c)
  /\ sound_stopped
  /\ conns' = PlayingCleared(c)
  /\ sound_stop_cb
  /\ PostOn(TimeoutsCancelled(q), <<Ev("SOUND_COMPLETED", c)>>)

(* sound_start() by connection c, or by the motion detection (NULL). *)
sound_start(c, q) ==
  /\ ~play_sound_in_progress
  /\ play_sound_in_progress' = TRUE
  /\ sound_initiator' = c
  /\ sound_timeout' = TRUE
  /\ conns' = IF c # NULL /\ conns[c].valid
              THEN [conns EXCEPT ![c].playing = TRUE] ELSE conns
  /\ sound_start_cb
  /\ ringing' = IF c # NULL /\ link[c] THEN [ringing EXCEPT ![c] = TRUE] ELSE ringing
  /\ workq' = q
  /\ UNCHANGED <<events, stray>>

Refused(q) ==
  /\ workq' = q
  /\ UNCHANGED <<events, soundVars, appVars, conns, histVars>>

(* owner_start_sound_handle() and non_owner_start_sound_handle(). *)
start_sound_handle ==
  \E id \in {"OWNER_START", "NON_OWNER_START"} :
    LET c == Head(batch).conn IN
    /\ Handling(id)
    /\ \/ sound_start(c, workq)
       \/ play_sound_in_progress /\ Refused(workq)
    /\ UNCHANGED <<state, link>>

(* owner_stop_sound_handle() and non_owner_stop_sound_handle(). *)
stop_sound_handle ==
  \E id \in {"OWNER_STOP", "NON_OWNER_STOP"} :
    LET c == Head(batch).conn IN
    /\ Handling(id)
    /\ \/ sound_stop(c, workq) /\ sound_completed_indication_send(c)
       \/ ~stops(c) /\ Refused(workq)
    /\ UNCHANGED <<state, link>>

(* The sound lasted longer than SOUND_TIMEOUT. *)
sound_timeout_expires ==
  /\ sound_timeout
  /\ sound_timeout' = FALSE
  /\ workq' = Submitted(workq, "sound_timeout")
  /\ UNCHANGED <<batch, events, play_sound_in_progress, sound_initiator, appVars, linkVars,
                 histVars>>

sound_timeout_work_handle ==
  /\ Running("sound_timeout")
  /\ \/ /\ sound_stop(sound_initiator, Tail(workq))
        /\ sound_completed_indication_send(sound_initiator)
     \/ ~stops(sound_initiator) /\ Refused(Tail(workq))
  /\ UNCHANGED <<state, link>>

(* The application has played the sound. *)
app_timeout_expires ==
  /\ app_timeout
  /\ app_timeout' = FALSE
  /\ workq' = Submitted(workq, "app_timeout")
  /\ UNCHANGED <<batch, events, soundVars, app_playing, linkVars, histVars>>

(* The application's sound_timeout_work_handle(): fmna_sound_completed_indicate(). *)
fmna_sound_completed_indicate ==
  /\ Running("app_timeout")
  /\ \/ /\ stops(sound_initiator)
        /\ sound_stopped
        /\ conns' = PlayingCleared(sound_initiator)
        /\ PostOn(Cancelled(Tail(workq), "sound_timeout"),
                  <<Ev("SOUND_COMPLETED", sound_initiator)>>)
        /\ sound_completed_indication_send(sound_initiator)
        /\ app_playing' = FALSE /\ UNCHANGED app_timeout
     \/ ~stops(sound_initiator) /\ Refused(Tail(workq))
  /\ UNCHANGED <<state, link>>

-----------------------------------------------------------------------------
(* The peers. *)

Room == Len(batch) + Len(events) < MaxSoundEvents

EnvUnchanged == UNCHANGED <<soundVars, appVars>>

(* connected(): the new peer gets a record; a record is reused only after  *)
(* PEER_DISCONNECTED has been handled.                                     *)
connected ==
  \E c \in Slots :
    /\ state # "DISABLED" /\ ~link[c] /\ ~conns[c].valid
    /\ "slot_reuse" \in SoundRaces \/ ~(play_sound_in_progress /\ sound_initiator = c)
    /\ \A id \in Commands : ~Pending(id, c)
    /\ link' = [link EXCEPT ![c] = TRUE]
    /\ conns' = [conns EXCEPT ![c] = [NoConn EXCEPT !.valid = TRUE]]
    /\ EnvUnchanged /\ UNCHANGED <<queueVars, state, histVars>>

disconnected ==  \* an owner stays until OWNER_CONNECTED is handled (see FmnaStack)
  \E c \in Slots :
    /\ link[c]
    /\ ~Pending("PEER_SECURITY_CHANGED", c) /\ ~Pending("OWNER_CONNECTED", c)
    /\ link' = [link EXCEPT ![c] = FALSE]
    /\ ringing' = [ringing EXCEPT ![c] = FALSE]
    /\ Post(<<Ev("PEER_DISCONNECTED", c)>>)
    /\ EnvUnchanged /\ UNCHANGED <<batch, state, conns, stray>>

(* The peer encrypts the link with the keys of an owner. *)
security_changed ==
  \E c \in Slots :
    /\ Room /\ link[c] /\ ~conns[c].owner
    /\ ~Pending("PEER_SECURITY_CHANGED", c)
    /\ Post(<<Ev("PEER_SECURITY_CHANGED", c)>>)
    /\ EnvUnchanged /\ UNCHANGED <<batch, linkVars, histVars>>

config_cp_write ==
  \E c \in Slots, id \in {"OWNER_START", "OWNER_STOP"} :
    /\ Room /\ link[c] /\ conns[c].owner
    /\ Post(<<Ev(id, c)>>)
    /\ EnvUnchanged /\ UNCHANGED <<batch, linkVars, histVars>>

non_owner_cp_write ==
  \E c \in Slots, id \in {"NON_OWNER_START", "NON_OWNER_STOP"} :
    /\ Room /\ link[c] /\ state = "SEPARATED"
    /\ Post(<<Ev(id, c)>>)
    /\ EnvUnchanged /\ UNCHANGED <<batch, linkVars, histVars>>

-----------------------------------------------------------------------------
(* Safety. *)

SoundQueued == sound_timeout \/ Queued(workq, "sound_timeout")

(* A sound plays exactly as long as its timeout is ahead, the application  *)
(* plays exactly the sound the stack knows of, and no timeout of an old    *)
(* sound is left to cut the next one short.                                *)
SoundTimed ==
  /\ play_sound_in_progress <=> SoundQueued
  /\ play_sound_in_progress <=> app_playing
  /\ (app_timeout \/ Queued(workq, "app_timeout")) <=> app_playing

(* The status an owner reads says that the link plays a sound only while   *)
(* the sound it started plays.                                             *)
PlayingBit ==
  \A c \in Slots : conns[c].playing => play_sound_in_progress /\ sound_initiator = c

(* The end of a sound is reported to the peer that started it and to no    *)
(* other, and to it for every sound it started.                            *)
CompletionToInitiator ==
  /\ ~stray
  /\ \A c \in Slots : ringing[c] => play_sound_in_progress /\ sound_initiator = c

=============================================================================
