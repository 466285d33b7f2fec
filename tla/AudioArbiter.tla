---------------------------- MODULE AudioArbiter ----------------------------
(***************************************************************************)
(* One speaker shared by the fire siren and the operators' broadcasts, on  *)
(* RPi C: audio_arbiter.c and audio_event.c.  Four actors run concurrently: *)
(*                                                                         *)
(*   callback  the MQTT thread: fire bitmaps, START/STOP/KEEPALIVE of a    *)
(*             broadcast, sound commands; a handler runs to its end before *)
(*             the next message, and blocks in systemctl and in waits      *)
(*   worker    the arbiter's thread: repeats the siren, ends the broadcast *)
(*             whose keepalives stopped                                    *)
(*   event     audio_event's thread: opens the device and plays            *)
(*   receiver  the RTP receiver unit, started and stopped with systemctl   *)
(*                                                                         *)
(* A critical section is one action; what a thread does after unlocking is *)
(* a step of its own.  Time is a choice: a wait with a limit may give up   *)
(* whenever its condition fails, and keepalives may become stale.          *)
(***************************************************************************)
EXTENDS Naturals

CONSTANTS
  Session,      \* broadcast session ids, all different from NoSession
  NoSession,    \* broadcast_session = 0
  Mishaps,      \* which sets of mishaps a behaviour may have, see Mishap
  MaxCommands   \* bound: messages the callback handles

ASSUME SessionAssumption == NoSession \notin Session
(* systemctl fails to start or to stop the receiver; keepalives are missed. *)
Mishap == {"start", "stop", "expiry"}
ASSUME MishapAssumption == Mishaps \subseteq SUBSET Mishap
ASSUME BoundAssumption == MaxCommands \in Nat

VARIABLES
  fire_active, broadcast_active, broadcast_session,  \* audio_arbiter.c, under its lock
  stale,        \* last_keepalive is older than GUARDX_BROADCAST_TIMEOUT_MS
  cb,           \* the callback thread: place, its session, the session that ended
  worker,       \* the arbiter thread: place, the session that expired
  event,        \* the event thread: place, what it plays
  pending,      \* pending_scenario of audio_event.c
  paused,       \* paused of audio_event.c
  g_stop,       \* rpic_audio.c: the running playback shall stop
  holder,       \* who holds the ALSA device
  rx,           \* the RTP receiver
  state,        \* the retained broadcast state on the broker
  answer,       \* the last READY message
  mishaps,      \* the mishaps this behaviour may have
  commands      \* counter of the bound

arbiter == <<fire_active, broadcast_active, broadcast_session, stale>>
player  == <<event, pending, paused, g_stop>>
outside == <<holder, rx>>
told    == <<state, answer>>
bounds  == <<mishaps, commands>>
vars == <<arbiter, cb, worker, player, outside, told, bounds>>

Scene == {"fire", "beep"}
Nothing == "nothing"

-----------------------------------------------------------------------------
Init ==
  /\ fire_active = FALSE /\ broadcast_active = FALSE
  /\ broadcast_session = NoSession /\ stale = FALSE
  /\ cb = [pc |-> "idle", session |-> NoSession, gone |-> NoSession]
  /\ worker = [pc |-> "loop", gone |-> NoSession]
  /\ event = [pc |-> "wait", scene |-> Nothing]
  /\ pending = Nothing /\ paused = FALSE /\ g_stop = FALSE
  /\ holder = "none" /\ rx = "stopped"
  /\ state = [active |-> FALSE, session |-> NoSession]
  /\ answer = [session |-> NoSession, result |-> "none"]
  /\ mishaps \in Mishaps /\ commands = 0

playing == event.pc # "wait"
speaker_held == holder # "none"

(* audio_event.c, called from either thread.                               *)
request_play(scene) == pending' = IF paused THEN pending ELSE scene

(* Setting the pause drops the request and asks the playback to stop.      *)
set_paused(value) ==
  /\ paused' = value
  /\ pending' = IF value THEN Nothing ELSE pending
  /\ g_stop' = (g_stop \/ (value /\ playing))
  /\ UNCHANGED event

stop_playback ==
  /\ pending' = Nothing
  /\ g_stop' = (g_stop \/ playing)
  /\ UNCHANGED <<paused, event>>

(* Slip: only a receiver that holds the device is stopped.                 *)
systemctl_stop_holder ==
  /\ rx' = IF rx = "holding" THEN "stopped" ELSE rx
  /\ holder' = IF holder = "receiver" THEN "none" ELSE holder

(* systemctl on the receiver's unit; stop kills it and frees the device.   *)
systemctl_stop ==
  \/ /\ rx' = "stopped"
     /\ holder' = IF holder = "receiver" THEN "none" ELSE holder
  \/ "stop" \in mishaps /\ UNCHANGED outside

(* Slip: only the wait with a limit is woken.                              *)
wake_worker_polling ==
  worker' = IF worker.pc = "polling" THEN [worker EXCEPT !.pc = "loop"] ELSE worker

wake_worker ==
  worker' = IF worker.pc \in {"waiting", "polling"} THEN [worker EXCEPT !.pc = "loop"] ELSE worker

EndSession ==
  /\ broadcast_active' = FALSE
  /\ broadcast_session' = NoSession

publish_state(active, s) == state' = [active |-> active, session |-> s]

-----------------------------------------------------------------------------
(* The callback thread: messages.                                          *)

Handles(pc, s, gone) ==
  /\ cb.pc = "idle"
  /\ commands < MaxCommands
  /\ commands' = commands + 1 /\ UNCHANGED mishaps
  /\ cb' = [pc |-> pc, session |-> s, gone |-> gone]

(* audio_arbiter_set_fire: only a change of the value does anything.       *)
FireRises ==
  /\ ~ fire_active
  /\ Handles("fire_tell", NoSession, broadcast_session)
  /\ fire_active' = TRUE
  /\ EndSession
  /\ UNCHANGED <<stale, worker, player, outside, told>>

FireFalls ==
  /\ fire_active
  /\ Handles("clear_stop", NoSession, NoSession)
  /\ fire_active' = FALSE
  /\ UNCHANGED <<broadcast_active, broadcast_session, stale, worker, player, outside, told>>

(* audio_arbiter_set_broadcast(true): a START of the running session only  *)
(* refreshes its clock; one of another session is refused unless it takes  *)
(* over.                                                                   *)
StartAgain(s) ==
  /\ broadcast_active /\ broadcast_session = s
  /\ Handles("idle", NoSession, NoSession)
  /\ stale' = FALSE
  /\ UNCHANGED <<fire_active, broadcast_active, broadcast_session, worker, player, outside, told>>

StartRefused(s) ==
  /\ broadcast_active /\ broadcast_session # s
  /\ Handles("idle", NoSession, NoSession)
  /\ answer' = [session |-> s, result |-> "busy"]
  /\ UNCHANGED <<arbiter, worker, player, outside, state>>

StartAccepted(s, takeover) ==
  /\ broadcast_active => takeover /\ broadcast_session # s
  /\ Handles("start_tell", s, broadcast_session)
  /\ broadcast_active' = TRUE
  /\ broadcast_session' = s
  /\ stale' = FALSE
  /\ UNCHANGED <<fire_active, worker, player, outside, told>>

(* Slip: any STOP ends the running broadcast.                              *)
StopAny(s) ==
  /\ broadcast_active
  /\ Handles("stop_receiver", s, s)
  /\ EndSession
  /\ UNCHANGED <<fire_active, stale, worker, player, outside, told>>

(* audio_arbiter_set_broadcast(false): a late STOP of another session, or  *)
(* one without a broadcast, changes nothing.                               *)
Stop(s) ==
  /\ broadcast_active /\ broadcast_session = s
  /\ Handles("stop_receiver", s, s)
  /\ EndSession
  /\ UNCHANGED <<fire_active, stale, worker, player, outside, told>>

Keepalive(s) ==
  /\ broadcast_active /\ broadcast_session = s
  /\ Handles("idle", NoSession, NoSession)
  /\ stale' = FALSE
  /\ UNCHANGED <<fire_active, broadcast_active, broadcast_session, worker, player, outside, told>>

(* handle_sound: ON and SET play at once, OFF stops what plays.            *)
SoundOn ==
  /\ Handles("idle", NoSession, NoSession)
  /\ request_play("beep")
  /\ UNCHANGED <<arbiter, worker, event, paused, g_stop, outside, told>>

SoundOff ==
  /\ Handles("off_quiet", NoSession, NoSession)
  /\ stop_playback
  /\ UNCHANGED <<arbiter, worker, outside, told>>

(* on_connect: the connection to the broker was lost and is back.          *)
Republish ==
  /\ Handles("idle", NoSession, NoSession)
  /\ publish_state(broadcast_active, broadcast_session)
  /\ UNCHANGED <<arbiter, worker, player, outside, answer>>

Message ==
  \/ FireRises \/ FireFalls \/ SoundOn \/ SoundOff \/ Republish
  \/ \E s \in Session : \/ StartAgain(s) \/ StartRefused(s) \/ Stop(s) \/ Keepalive(s)
                        \/ \E takeover \in BOOLEAN : StartAccepted(s, takeover)

-----------------------------------------------------------------------------
(* The callback thread: what follows the critical section, step by step.   *)

Step(from, to) == cb.pc = from /\ cb' = [cb EXCEPT !.pc = to] /\ UNCHANGED bounds
Done(from)     == Step(from, "idle")

(* Slip: the end of the broadcast is told to nobody.                       *)
TellGoneNobody(from, to) ==
  /\ Step(from, to)
  /\ UNCHANGED <<arbiter, worker, player, outside, told>>

(* The end of a broadcast that was preempted or taken over is announced.   *)
TellGone(from, to) ==
  /\ Step(from, to)
  /\ IF cb.gone # NoSession THEN publish_state(FALSE, cb.gone) ELSE UNCHANGED state
  /\ UNCHANGED <<arbiter, worker, player, outside, answer>>

StopReceiver(from, to) ==
  /\ Step(from, to)
  /\ systemctl_stop
  /\ UNCHANGED <<arbiter, worker, player, told>>

Unpause(from, to) ==
  /\ Step(from, to)
  /\ set_paused(FALSE)
  /\ UNCHANGED <<arbiter, worker, outside, told>>

(* The wait for the device succeeds, or gives up after its limit.          *)
Proceed(from, to) ==
  /\ Step(from, to)
  /\ UNCHANGED <<arbiter, worker, player, outside, told>>

Wake(from, to) ==
  /\ Step(from, to)
  /\ wake_worker
  /\ UNCHANGED <<arbiter, player, outside, told>>

AwaitQuiet(from, to) == ~ playing /\ Proceed(from, to)

(* The fire handler waits for the release and goes on either way.          *)
FireSteps ==
  \/ TellGone("fire_tell", "fire_unpause")
  \/ Unpause("fire_unpause", "fire_stop")
  \/ StopReceiver("fire_stop", "fire_release")
  \/ Proceed("fire_release", "wake")

ClearSteps ==
  \/ /\ Step("clear_stop", "clear_quiet")
     /\ stop_playback
     /\ UNCHANGED <<arbiter, worker, outside, told>>
  \/ AwaitQuiet("clear_quiet", "wake")

Answer(from, to, result) ==
  /\ Step(from, to)
  /\ answer' = [session |-> cb.session, result |-> result]

(* systemctl start fails, which it does not for a unit that runs already.  *)
StartFails ==
  /\ "start" \in mishaps
  /\ rx = "stopped"
  /\ Answer("start_receiver", "undo", "error")
  /\ UNCHANGED <<arbiter, worker, player, outside, state>>

(* A start that failed undoes its session, if it is still the one.         *)
Undo ==
  /\ Step("undo", "undo_tell")
  /\ IF broadcast_session = cb.session THEN EndSession
     ELSE UNCHANGED <<broadcast_active, broadcast_session>>
  /\ UNCHANGED <<fire_active, stale, worker, player, outside, told>>

(* Slip: an undone session is told like an announced one.                  *)
UndoTellActive ==
  /\ Step("undo_tell", "undo_unpause")
  /\ publish_state(TRUE, cb.session)
  /\ UNCHANGED <<arbiter, worker, player, outside, answer>>

UndoTell ==
  /\ Step("undo_tell", "undo_unpause")
  /\ publish_state(FALSE, cb.session)
  /\ UNCHANGED <<arbiter, worker, player, outside, answer>>

StartPause ==
  /\ Step("start_pause", "start_quiet")
  /\ set_paused(TRUE)
  /\ UNCHANGED <<arbiter, worker, outside, told>>

ReceiverStarts ==
  /\ Step("start_receiver", "start_acquire")
  /\ rx' = IF rx = "stopped" THEN "starting" ELSE rx
  /\ UNCHANGED <<arbiter, worker, player, holder, told>>

(* Slip: the answer does not wait for the device to be held.               *)
AcquiredBlindly == Proceed("start_acquire", "start_ready")

(* wait_device_acquire sees the device held, by whomever.                  *)
Acquired == speaker_held /\ Proceed("start_acquire", "start_ready")

StartSteps ==
  \/ TellGone("start_tell", "start_pause")
  \/ StartPause
  \/ AwaitQuiet("start_quiet", "start_wake")
  \/ Wake("start_wake", "start_release")
  \/ ~ speaker_held /\ Proceed("start_release", "start_receiver")
  \/ /\ speaker_held
     /\ Answer("start_release", "idle", "error")
     /\ UNCHANGED <<arbiter, worker, player, outside, state>>
  \/ ReceiverStarts \/ StartFails \/ Undo \/ UndoTell
  \/ Unpause("undo_unpause", "wake")
  \/ Acquired
  \/ /\ ~ speaker_held
     /\ Answer("start_acquire", "idle", "error")
     /\ UNCHANGED <<arbiter, worker, player, outside, state>>
  \/ /\ Answer("start_ready", "announce", "ready")
     /\ UNCHANGED <<arbiter, worker, player, outside, state>>
  \/ /\ Done("announce")
     /\ publish_state(TRUE, cb.session)
     /\ UNCHANGED <<arbiter, worker, player, outside, answer>>

StopSteps ==
  \/ StopReceiver("stop_receiver", "stop_release")
  \/ Proceed("stop_release", "stop_unpause")
  \/ Unpause("stop_unpause", "stop_wake")
  \/ Wake("stop_wake", "stop_tell")
  \/ TellGone("stop_tell", "idle")

CallbackStep ==
  FireSteps \/ ClearSteps \/ StartSteps \/ StopSteps
  \/ AwaitQuiet("off_quiet", "idle") \/ Wake("wake", "idle")

-----------------------------------------------------------------------------
(* The arbiter's worker.                                                   *)

keepalive_expired == broadcast_active /\ stale
siren_wanted == fire_active /\ ~ broadcast_active

WorkerTo(from, to) == worker.pc = from /\ worker' = [worker EXCEPT !.pc = to]

(* The expired broadcast is ended under the lock, cleaned up outside it.   *)
WorkerExpires ==
  /\ worker.pc = "loop"
  /\ keepalive_expired
  /\ worker' = [pc |-> "expired_tell", gone |-> broadcast_session]
  /\ EndSession
  /\ UNCHANGED <<fire_active, stale, cb, player, outside, told, bounds>>

WorkerTells ==
  /\ WorkerTo("expired_tell", "expired_stop")
  /\ publish_state(FALSE, worker.gone)
  /\ UNCHANGED <<arbiter, cb, player, outside, answer, bounds>>

WorkerStopsReceiver ==
  /\ WorkerTo("expired_stop", "expired_release")
  /\ systemctl_stop
  /\ UNCHANGED <<arbiter, cb, player, told, bounds>>

WorkerWaitsRelease ==
  /\ WorkerTo("expired_release", "expired_unpause")
  /\ UNCHANGED <<arbiter, cb, player, outside, told, bounds>>

(* Slip: the pause is left in place.                                       *)
WorkerKeepsPause ==
  /\ WorkerTo("expired_unpause", "loop")
  /\ UNCHANGED <<arbiter, cb, player, outside, told, bounds>>

WorkerUnpauses ==
  /\ WorkerTo("expired_unpause", "loop")
  /\ set_paused(FALSE)
  /\ UNCHANGED <<arbiter, cb, outside, told, bounds>>

(* Slip: with nothing to do the worker always waits without a limit.       *)
WorkerWaitsForever ==
  /\ ~ keepalive_expired /\ ~ siren_wanted
  /\ WorkerTo("loop", "waiting")
  /\ UNCHANGED <<arbiter, cb, player, outside, told, bounds>>

(* Without a broadcast only a wake-up ends the wait; with one, a second.   *)
WorkerWaits ==
  /\ ~ keepalive_expired /\ ~ siren_wanted
  /\ WorkerTo("loop", IF broadcast_active THEN "polling" ELSE "waiting")
  /\ UNCHANGED <<arbiter, cb, player, outside, told, bounds>>

WorkerPolls ==
  /\ WorkerTo("polling", "loop")
  /\ UNCHANGED <<arbiter, cb, player, outside, told, bounds>>

WorkerDecidesSiren ==
  /\ ~ keepalive_expired /\ siren_wanted
  /\ WorkerTo("loop", "play")
  /\ UNCHANGED <<arbiter, cb, player, outside, told, bounds>>

(* The request is made, after the lock was released, and 1.5 s are slept.  *)
WorkerPlays ==
  /\ WorkerTo("play", "sleep")
  /\ request_play("fire")
  /\ UNCHANGED <<arbiter, cb, event, paused, g_stop, outside, told, bounds>>

WorkerWakes ==
  /\ WorkerTo("sleep", "loop")
  /\ UNCHANGED <<arbiter, cb, player, outside, told, bounds>>

WorkerStep ==
  \/ WorkerExpires \/ WorkerTells \/ WorkerStopsReceiver \/ WorkerWaitsRelease \/ WorkerUnpauses
  \/ WorkerWaits \/ WorkerPolls \/ WorkerDecidesSiren \/ WorkerPlays \/ WorkerWakes

-----------------------------------------------------------------------------
(* audio_event's worker.                                                   *)

Untouched == UNCHANGED <<arbiter, cb, worker, told, bounds>>

EventTakes ==
  /\ event.pc = "wait"
  /\ pending # Nothing /\ ~ paused
  /\ event' = [pc |-> "opening", scene |-> pending]
  /\ pending' = Nothing
  /\ UNCHANGED <<paused, g_stop, outside>> /\ Untouched

(* Opening resets g_stop: a stop requested since EventTakes is forgotten.  *)
EventOpens ==
  /\ event.pc = "opening"
  /\ ~ speaker_held
  /\ event' = [event EXCEPT !.pc = "playing"]
  /\ holder' = "event"
  /\ g_stop' = FALSE
  /\ UNCHANGED <<pending, paused, rx>> /\ Untouched

(* EBUSY: the request is skipped.                                          *)
EventSkips ==
  /\ event.pc = "opening"
  /\ speaker_held
  /\ event' = [event EXCEPT !.pc = "ending"]
  /\ UNCHANGED <<pending, paused, g_stop, outside>> /\ Untouched

(* At the end of the sound, or because g_stop was set.                     *)
EventCloses ==
  /\ event.pc = "playing"
  /\ event' = [event EXCEPT !.pc = "ending"]
  /\ holder' = "none"
  /\ UNCHANGED <<pending, paused, g_stop, rx>> /\ Untouched

EventEnds ==
  /\ event.pc = "ending"
  /\ event' = [pc |-> "wait", scene |-> Nothing]
  /\ UNCHANGED <<pending, paused, g_stop, outside>> /\ Untouched

EventStep == EventTakes \/ EventOpens \/ EventSkips \/ EventCloses \/ EventEnds

-----------------------------------------------------------------------------
(* The receiver (Restart=no) and time.                                     *)

ReceiverAcquires ==
  /\ rx = "starting"
  /\ ~ speaker_held
  /\ rx' = "holding" /\ holder' = "receiver"
  /\ UNCHANGED player /\ Untouched

ReceiverExits ==
  /\ rx = "starting"
  /\ rx' = "stopped"
  /\ UNCHANGED <<player, holder>> /\ Untouched

(* Five seconds do not pass between the critical section that restarted    *)
(* the clock and the first statement of the handler that can block.        *)
KeepaliveMissed ==
  /\ "expiry" \in mishaps
  /\ broadcast_active /\ ~ stale
  /\ cb.pc \notin {"start_tell", "start_pause"}
  /\ stale' = TRUE
  /\ UNCHANGED <<fire_active, broadcast_active, broadcast_session, cb, worker, player,
                 outside, told, bounds>>

Next == Message \/ CallbackStep \/ WorkerStep \/ EventStep
        \/ ReceiverAcquires \/ ReceiverExits \/ KeepaliveMissed

(* Every thread runs, a sound ends, and a clock nobody refreshes runs out. *)
Fairness ==
  /\ WF_vars(CallbackStep) /\ WF_vars(WorkerStep) /\ WF_vars(EventStep)
  /\ WF_vars(ReceiverAcquires \/ ReceiverExits) /\ WF_vars(KeepaliveMissed)

Spec == Init /\ [][Next]_vars
FairSpec == Spec /\ Fairness

-----------------------------------------------------------------------------
(* Properties.                                                             *)

Id == Session \cup {NoSession}
CallbackPlace ==
  {"idle", "wake", "off_quiet", "clear_stop", "clear_quiet",
   "fire_tell", "fire_unpause", "fire_stop", "fire_release",
   "start_tell", "start_pause", "start_quiet", "start_wake", "start_release", "start_receiver",
   "start_acquire", "start_ready", "announce", "undo", "undo_tell", "undo_unpause",
   "stop_receiver", "stop_release", "stop_unpause", "stop_wake", "stop_tell"}
WorkerPlace ==
  {"loop", "waiting", "polling", "play", "sleep",
   "expired_tell", "expired_stop", "expired_release", "expired_unpause"}

SessionTypes ==
  /\ broadcast_session \in Id /\ broadcast_active \in BOOLEAN
  /\ broadcast_active <=> broadcast_session # NoSession
  /\ fire_active \in BOOLEAN /\ stale \in BOOLEAN
CallbackTypes == cb \in [pc : CallbackPlace, session : Id, gone : Id]
WorkerTypes == worker \in [pc : WorkerPlace, gone : Id]
PlayerTypes ==
  /\ event \in [pc : {"wait", "opening", "playing", "ending"}, scene : Scene \cup {Nothing}]
  /\ pending \in Scene \cup {Nothing} /\ paused \in BOOLEAN /\ g_stop \in BOOLEAN
DeviceTypes ==
  /\ holder \in {"none", "event", "receiver"} /\ rx \in {"stopped", "starting", "holding"}
  /\ (holder = "event") <=> (event.pc = "playing")
  /\ (holder = "receiver") <=> (rx = "holding")
ToldTypes ==
  /\ state \in [active : BOOLEAN, session : Id]
  /\ answer \in [session : Id, result : {"none", "ready", "busy", "error"}]
BoundTypes == mishaps \in Mishaps /\ commands \in 0 .. MaxCommands

(* A broadcast has a session, and who holds the device is using it.        *)
TypeOK == SessionTypes /\ CallbackTypes /\ WorkerTypes /\ PlayerTypes /\ DeviceTypes /\ ToldTypes /\ BoundTypes

Cleaning == worker.pc \in {"expired_tell", "expired_stop", "expired_release", "expired_unpause"}

(* The pause never outlives the broadcast it was set for: between messages *)
(* and outside the worker's cleanup, paused means that a broadcast is on.  *)
(* A pause left behind would silence the siren of the next fire.           *)
PauseMeansBroadcast ==
  (cb.pc = "idle" /\ ~ Cleaning /\ paused) => broadcast_active

(* Once the VMS is silent every broadcast ends, also one whose START was   *)
(* answered with an error, and the siren may use the speaker again.        *)
SessionsEnd == "expiry" \in mishaps => <>[](~ broadcast_active /\ ~ paused)

(* Only the session that asked, an expiry, a takeover by the operator or a *)
(* rising fire ends a broadcast: a late STOP of an earlier one does not.   *)
NoForeignStop ==
  [][(broadcast_active /\ ~ broadcast_active')
       => \/ cb'.pc = "stop_receiver" /\ cb'.session = broadcast_session
          \/ cb'.pc = "undo_tell" /\ cb.session = broadcast_session
          \/ stale \/ (~ fire_active /\ fire_active')]_vars

(* Keepalives arrive in time and the receiver can be stopped.              *)
Orderly == mishaps \subseteq {"start"}

(* Rule 3: in a lasting fire without a broadcast the siren sounds again    *)
(* and again, whatever broadcasts came before.                             *)
SirenSounds ==
  Orderly => \/ []<>(event.pc = "playing" /\ event.scene = "fire")
             \/ []<>(~ fire_active \/ broadcast_active)

(* "The receiver lives only while there is a broadcast": with no message   *)
(* in hand and no cleanup under way, no receiver without a broadcast.      *)
ReceiverOnlyInBroadcast ==
  (cb.pc = "idle" /\ ~ Cleaning /\ rx # "stopped") => broadcast_active
OrderlyReceiver == Orderly => ReceiverOnlyInBroadcast

(* READY is sent after the receiver holds the speaker.                     *)
HeldAtReady == (answer' # answer /\ answer'.result = "ready") => rx = "holding"
ReadyWhenHeld == [][HeldAtReady]_vars
OrderlyReady == [][Orderly => HeldAtReady]_vars

(* Between messages the retained state claims no broadcast but the one     *)
(* that is on: a claim left behind would have every VMS ask its operator   *)
(* about a broadcast that is over.                                         *)
NoStaleClaim ==
  (Orderly /\ cb.pc = "idle" /\ state.active)
    => broadcast_active /\ state.session = broadcast_session

(* What a VMS sees of all this is Speaker: the threads, the blocking steps *)
(* and the cleanup outside the lock add no behaviour to it.                *)
Serving == {"start_tell", "start_pause", "start_quiet", "start_wake", "start_release",
            "start_receiver", "start_acquire", "start_ready", "announce", "undo"}
Telling == {"fire_tell", "start_tell", "stop_receiver", "stop_release", "stop_unpause",
            "stop_wake", "stop_tell"}
untold == (IF cb.pc \in Telling THEN {cb.gone} ELSE {})
          \cup (IF cb.pc = "undo_tell" THEN {cb.session} ELSE {})
          \cup (IF worker.pc = "expired_tell" THEN {worker.gone} ELSE {})
Seen == INSTANCE Speaker WITH
          owner <- broadcast_session,
          serving <- IF cb.pc \in Serving THEN cb.session ELSE NoSession,
          ended <- untold \ {NoSession}
IsSpeaker == Seen!Spec

(* audio_arbiter.h: a START with takeover ends the earlier session and     *)
(* hands over.  So it is not refused because the receiver of the session   *)
(* it has just ended still holds the speaker.                              *)
TakeoverHandsOver ==
  [][(answer' # answer /\ answer'.result = "error")
       => ~ (cb.pc = "start_release" /\ cb.gone # NoSession /\ holder = "receiver")]_vars

(* Clearing the fire cuts the siren at once: once the handler is done, no  *)
(* siren plays without a fire.                                             *)
SirenEndsWithFire ==
  (cb.pc = "idle" /\ event.pc = "playing" /\ event.scene = "fire") => fire_active
=============================================================================
