------------------------- MODULE AudioArbiterProofs -------------------------
(***************************************************************************)
(* For every set of sessions and every kind of mishap: the pause ends with *)
(* its broadcast, nobody else's STOP ends one, and the VMSs see Speaker.   *)
(* In orderly behaviours the receiver, READY and the retained state tell   *)
(* the truth.                                                              *)
(***************************************************************************)
EXTENDS AudioArbiter, TLAPS

(* Places of the callback from which a pause is still going to be lifted.  *)
Lifting == {"stop_receiver", "stop_release", "stop_unpause", "fire_tell", "fire_unpause",
            "undo_tell", "undo_unpause"}
PauseCovered == paused => broadcast_active \/ Cleaning \/ cb.pc \in Lifting

(* The clock of a session that was just started cannot have run out.       *)
JustStarted == cb.pc \in {"start_tell", "start_pause"} => broadcast_active /\ ~ stale

(* What the callback and the worker hold is what they act on.              *)
SessionsAtHand ==
  /\ cb.pc \in Serving \cup {"undo_tell"} => cb.session # NoSession
  /\ worker.pc = "expired_tell" => worker.gone # NoSession
  /\ cb.pc = "announce" => answer = [session |-> cb.session, result |-> "ready"]
  /\ cb.pc = "undo" => answer = [session |-> cb.session, result |-> "error"]

Silenced == {"start_quiet", "start_wake", "start_release", "start_receiver", "start_acquire", "start_ready"}

(* Without expiries and failed stops the callback is alone.                *)
Alone ==
  /\ ~ stale /\ ~ Cleaning
  /\ cb.pc \in Serving => broadcast_session = cb.session
ReceiverCovered ==
  /\ rx # "stopped" => \/ broadcast_active
                       \/ cb.pc \in {"fire_tell", "fire_unpause", "fire_stop", "stop_receiver"}
  /\ cb.pc \in {"undo", "undo_tell", "undo_unpause"} => rx = "stopped"
SpeakerFreed ==
  /\ cb.pc \in Silenced => paused
  /\ cb.pc \in Silenced \ {"start_quiet"} => event.pc = "wait"
  /\ cb.pc = "start_ready" => rx = "holding"
ClaimCovered ==
  state.active => \/ broadcast_active /\ state.session = broadcast_session
                  \/ cb.pc \in Telling /\ cb.gone # NoSession
                  \/ cb.pc = "undo_tell"

ArbiterInv ==
  /\ TypeOK /\ JustStarted /\ SessionsAtHand /\ PauseCovered
  /\ Orderly => Alone /\ ReceiverCovered /\ SpeakerFreed /\ ClaimCovered

-----------------------------------------------------------------------------
(* Types, part by part: what a step leaves alone keeps its type.           *)

LEMMA KeptTypes ==
  ASSUME TypeOK
  PROVE  /\ UNCHANGED arbiter => SessionTypes'
         /\ /\ UNCHANGED <<broadcast_active, broadcast_session>>
            /\ fire_active' \in BOOLEAN /\ stale' \in BOOLEAN
           => SessionTypes'
         /\ UNCHANGED cb => CallbackTypes'
         /\ UNCHANGED worker => WorkerTypes'
         /\ UNCHANGED player => PlayerTypes'
         /\ UNCHANGED outside /\ UNCHANGED event => DeviceTypes'
         /\ UNCHANGED told => ToldTypes'
         /\ UNCHANGED bounds => BoundTypes'
<1>1. UNCHANGED arbiter => SessionTypes'
  BY DEF TypeOK, SessionTypes, arbiter
<1>2. ASSUME UNCHANGED <<broadcast_active, broadcast_session>>, fire_active' \in BOOLEAN, stale' \in BOOLEAN
      PROVE  SessionTypes'
  BY <1>2 DEF TypeOK, SessionTypes
<1>3. (UNCHANGED cb => CallbackTypes') /\ (UNCHANGED worker => WorkerTypes')
  BY DEF TypeOK, CallbackTypes, WorkerTypes
<1>4. (UNCHANGED player => PlayerTypes') /\ (UNCHANGED outside /\ UNCHANGED event => DeviceTypes')
  BY DEF TypeOK, PlayerTypes, DeviceTypes, player, outside
<1>5. (UNCHANGED told => ToldTypes') /\ (UNCHANGED bounds => BoundTypes')
  BY DEF TypeOK, ToldTypes, BoundTypes, told, bounds
<1> QED
  BY <1>1, <1>2, <1>3, <1>4, <1>5

LEMMA TypesOf ==
  SessionTypes' /\ CallbackTypes' /\ WorkerTypes' /\ PlayerTypes' /\ DeviceTypes' /\ ToldTypes' /\ BoundTypes'
    => TypeOK'
  BY DEF TypeOK

(* The callback goes from one place to another.                            *)
LEMMA StepsTo ==
  ASSUME TypeOK, NEW from, NEW to \in CallbackPlace, Step(from, to)
  PROVE  CallbackTypes' /\ BoundTypes' /\ cb.session \in Id /\ cb.gone \in Id
  BY DEF TypeOK, Step, CallbackTypes, BoundTypes, bounds

LEMMA HandlesTo ==
  ASSUME TypeOK, NEW pc \in CallbackPlace, NEW s \in Id, NEW gone \in Id, Handles(pc, s, gone)
  PROVE  CallbackTypes' /\ BoundTypes'
  BY BoundAssumption DEF TypeOK, Handles, CallbackTypes, BoundTypes

LEMMA PublishTypes ==
  ASSUME TypeOK, NEW b \in BOOLEAN, NEW s \in Id, publish_state(b, s), UNCHANGED answer
  PROVE  ToldTypes'
  BY DEF TypeOK, ToldTypes, publish_state

LEMMA AnswerTypes ==
  ASSUME TypeOK, NEW s \in Id, NEW r \in {"ready", "busy", "error"},
         answer' = [session |-> s, result |-> r], UNCHANGED state
  PROVE  ToldTypes'
  BY DEF TypeOK, ToldTypes

LEMMA PlayerChanges ==
  ASSUME TypeOK,
         \/ \E scene \in Scene : request_play(scene) /\ UNCHANGED <<event, paused, g_stop>>
         \/ \E value \in BOOLEAN : set_paused(value)
         \/ stop_playback
  PROVE  PlayerTypes' /\ UNCHANGED event
  BY DEF TypeOK, PlayerTypes, request_play, set_paused, stop_playback, Scene

LEMMA StopTypes ==
  ASSUME TypeOK, systemctl_stop, UNCHANGED event
  PROVE  DeviceTypes'
  BY DEF TypeOK, DeviceTypes, systemctl_stop, outside

LEMMA WakeTypes ==
  ASSUME TypeOK, wake_worker
  PROVE  WorkerTypes'
  BY DEF TypeOK, WorkerTypes, wake_worker, WorkerPlace

LEMMA EndTypes ==
  ASSUME TypeOK, EndSession, fire_active' \in BOOLEAN, stale' \in BOOLEAN
  PROVE  SessionTypes'
  BY DEF TypeOK, SessionTypes, EndSession, Id

LEMMA Booleans ==
  ASSUME TypeOK
  PROVE  /\ fire_active \in BOOLEAN /\ stale \in BOOLEAN
         /\ broadcast_active \in BOOLEAN /\ broadcast_session \in Id
  BY DEF TypeOK, SessionTypes

LEMMA MessageTypes == ASSUME TypeOK, Message PROVE TypeOK'
<1> USE KeptTypes, TypesOf, Booleans
<1>0. /\ Session \subseteq Id /\ NoSession \in Id
      /\ {"idle", "fire_tell", "clear_stop", "off_quiet", "start_tell", "stop_receiver"} \subseteq CallbackPlace
  BY DEF Id, CallbackPlace
<1>1. CASE FireRises
  BY <1>0, <1>1, HandlesTo, EndTypes DEF FireRises, player, outside
<1>2. CASE FireFalls
  BY <1>0, <1>2, HandlesTo DEF FireFalls, player, outside
<1>3. CASE SoundOn \/ SoundOff
  BY <1>0, <1>3, HandlesTo, PlayerChanges DEF SoundOn, SoundOff, Scene, outside
<1>4. CASE Republish
  BY <1>0, <1>4, HandlesTo, PublishTypes DEF Republish, player, outside
<1>5. ASSUME NEW s \in Session, StartAgain(s) \/ Keepalive(s) PROVE TypeOK'
  BY <1>0, <1>5, HandlesTo DEF StartAgain, Keepalive, player, outside
<1>6. ASSUME NEW s \in Session, StartRefused(s) PROVE TypeOK'
  BY <1>0, <1>6, HandlesTo, AnswerTypes DEF StartRefused, player, outside
<1>7. ASSUME NEW s \in Session, Stop(s) PROVE TypeOK'
  BY <1>0, <1>7, HandlesTo, EndTypes DEF Stop, player, outside
<1>8. ASSUME NEW s \in Session, NEW takeover \in BOOLEAN, StartAccepted(s, takeover) PROVE TypeOK'
  <2>1. SessionTypes'
    BY <1>0, <1>8, SessionAssumption DEF StartAccepted, SessionTypes
  <2> QED
    BY <1>0, <1>8, <2>1, HandlesTo DEF StartAccepted, player, outside
<1> QED
  BY <1>1, <1>2, <1>3, <1>4, <1>5, <1>6, <1>7, <1>8 DEF Message

LEMMA CallbackStepTypes == ASSUME TypeOK, CallbackStep PROVE TypeOK'
<1> USE KeptTypes, TypesOf, Booleans
<1>1. ASSUME NEW from, NEW to \in CallbackPlace, TellGone(from, to) PROVE TypeOK'
  <2>1. ToldTypes'
    BY <1>1, StepsTo, PublishTypes DEF TellGone, told
  <2> QED
    BY <1>1, <2>1, StepsTo DEF TellGone, player, outside
<1>2. ASSUME NEW from, NEW to \in CallbackPlace, StopReceiver(from, to) PROVE TypeOK'
  BY <1>2, StepsTo, StopTypes DEF StopReceiver, player
<1>3. ASSUME NEW from, NEW to \in CallbackPlace, Unpause(from, to) PROVE TypeOK'
  BY <1>3, StepsTo, PlayerChanges DEF Unpause, outside
<1>4. ASSUME NEW from, NEW to \in CallbackPlace, Proceed(from, to) PROVE TypeOK'
  BY <1>4, StepsTo DEF Proceed, player, outside
<1>5. ASSUME NEW from, NEW to \in CallbackPlace, Wake(from, to) PROVE TypeOK'
  BY <1>5, StepsTo, WakeTypes DEF Wake, player, outside
<1>6. ASSUME NEW from, NEW to \in CallbackPlace, NEW r \in {"ready", "error"},
             Answer(from, to, r), UNCHANGED <<arbiter, worker, player, outside, state>>
      PROVE  TypeOK'
  BY <1>6, StepsTo, AnswerTypes DEF Answer, player, outside
<1>7. ASSUME Step("clear_stop", "clear_quiet"), stop_playback, UNCHANGED <<arbiter, worker, outside, told>>
      PROVE  TypeOK'
  BY <1>7, StepsTo, PlayerChanges DEF CallbackPlace
<1>8. CASE StartPause
  BY <1>8, StepsTo, PlayerChanges DEF StartPause, CallbackPlace
<1>9. CASE ReceiverStarts
  <2>1. DeviceTypes'
    BY <1>9 DEF ReceiverStarts, TypeOK, DeviceTypes, player
  <2> QED
    BY <1>9, <2>1, StepsTo DEF ReceiverStarts, CallbackPlace
<1>10. CASE Undo
  <2>1. SessionTypes'
    BY <1>10, EndTypes DEF Undo
  <2> QED
    BY <1>10, <2>1, StepsTo DEF Undo, CallbackPlace, player, outside
<1>11. ASSUME NEW b \in BOOLEAN, publish_state(b, cb.session),
              NEW from, NEW to \in CallbackPlace, Step(from, to),
              UNCHANGED <<arbiter, worker, player, outside, answer>>
       PROVE  TypeOK'
  BY <1>11, StepsTo, PublishTypes DEF player, outside
<1>12. CASE FireSteps
  BY <1>1, <1>2, <1>3, <1>4, <1>12 DEF FireSteps, CallbackPlace
<1>13. CASE ClearSteps \/ AwaitQuiet("off_quiet", "idle") \/ Wake("wake", "idle")
  BY <1>4, <1>5, <1>7, <1>13 DEF ClearSteps, AwaitQuiet, CallbackPlace
<1>14. CASE StopSteps
  BY <1>1, <1>2, <1>3, <1>4, <1>5, <1>14 DEF StopSteps, CallbackPlace
<1>15. CASE StartSteps
  <2>1. CASE \/ TellGone("start_tell", "start_pause") \/ AwaitQuiet("start_quiet", "start_wake")
             \/ Wake("start_wake", "start_release") \/ Proceed("start_release", "start_receiver")
             \/ Acquired \/ Unpause("undo_unpause", "wake")
    BY <1>1, <1>3, <1>4, <1>5, <2>1 DEF AwaitQuiet, Acquired, CallbackPlace
  <2>2. CASE \/ UndoTell
             \/ /\ Done("announce") /\ publish_state(TRUE, cb.session)
                /\ UNCHANGED <<arbiter, worker, player, outside, answer>>
    BY <1>11, <2>2 DEF UndoTell, Done, CallbackPlace
  <2>3. CASE /\ UNCHANGED <<arbiter, worker, player, outside, state>>
             /\ \/ Answer("start_release", "idle", "error") \/ Answer("start_acquire", "idle", "error")
                \/ Answer("start_ready", "announce", "ready") \/ Answer("start_receiver", "undo", "error")
    BY <1>6, <2>3 DEF CallbackPlace
  <2> QED
    BY <1>8, <1>9, <1>10, <1>15, <2>1, <2>2, <2>3 DEF StartSteps, StartFails
<1> QED
  BY <1>12, <1>13, <1>14, <1>15 DEF CallbackStep

LEMMA WorkerStepTypes == ASSUME TypeOK, WorkerStep PROVE TypeOK'
<1> USE KeptTypes, TypesOf, Booleans
<1>1. ASSUME NEW from, NEW to \in WorkerPlace, WorkerTo(from, to) PROVE WorkerTypes' /\ worker.gone \in Id
  BY <1>1 DEF WorkerTo, TypeOK, WorkerTypes
<1>2. CASE WorkerExpires
  <2>1. WorkerTypes'
    BY <1>2 DEF WorkerExpires, WorkerTypes, WorkerPlace
  <2> QED
    BY <1>2, <2>1, EndTypes DEF WorkerExpires, player, outside
<1>3. CASE WorkerTells
  BY <1>1, <1>3, PublishTypes DEF WorkerTells, WorkerPlace, player, outside
<1>4. CASE WorkerStopsReceiver
  BY <1>1, <1>4, StopTypes DEF WorkerStopsReceiver, WorkerPlace, player
<1>5. CASE WorkerUnpauses
  BY <1>1, <1>5, PlayerChanges DEF WorkerUnpauses, WorkerPlace
<1>6. CASE WorkerPlays
  BY <1>1, <1>6, PlayerChanges DEF WorkerPlays, WorkerPlace, Scene
<1>7. CASE WorkerWaitsRelease \/ WorkerWaits \/ WorkerPolls \/ WorkerDecidesSiren \/ WorkerWakes
  BY <1>1, <1>7 DEF WorkerWaitsRelease, WorkerWaits, WorkerPolls, WorkerDecidesSiren, WorkerWakes,
              WorkerPlace, player, outside
<1> QED
  BY <1>2, <1>3, <1>4, <1>5, <1>6, <1>7 DEF WorkerStep

LEMMA OtherTypes ==
  ASSUME TypeOK, EventStep \/ ReceiverAcquires \/ ReceiverExits \/ KeepaliveMissed \/ UNCHANGED vars
  PROVE  TypeOK'
<1> USE KeptTypes, TypesOf, Booleans
<1>1. ASSUME EventStep PROVE PlayerTypes' /\ DeviceTypes'
  <2>1. CASE EventTakes \/ EventEnds
    BY <2>1 DEF EventTakes, EventEnds, TypeOK, PlayerTypes, DeviceTypes, outside
  <2>2. CASE EventOpens \/ EventSkips \/ EventCloses
    BY <2>2 DEF EventOpens, EventSkips, EventCloses, TypeOK, PlayerTypes, DeviceTypes, outside, speaker_held
  <2> QED
    BY <1>1, <2>1, <2>2 DEF EventStep
<1>2. CASE EventStep
  BY <1>1, <1>2 DEF EventStep, EventTakes, EventOpens, EventSkips, EventCloses, EventEnds, Untouched
<1>3. CASE ReceiverAcquires \/ ReceiverExits
  <2>1. DeviceTypes'
    BY <1>3 DEF ReceiverAcquires, ReceiverExits, TypeOK, DeviceTypes, player, speaker_held
  <2> QED
    BY <1>3, <2>1 DEF ReceiverAcquires, ReceiverExits, Untouched
<1>4. CASE KeepaliveMissed
  BY <1>4 DEF KeepaliveMissed, player, outside
<1>5. CASE UNCHANGED vars
  BY <1>5 DEF vars, player, outside
<1> QED
  BY <1>2, <1>3, <1>4, <1>5

LEMMA InitTypes == Init => TypeOK
<1> SUFFICES ASSUME Init PROVE TypeOK
  OBVIOUS
<1>1. SessionTypes /\ PlayerTypes /\ DeviceTypes
  BY DEF Init, SessionTypes, PlayerTypes, DeviceTypes, Id
<1>2. CallbackTypes /\ WorkerTypes
  BY DEF Init, CallbackTypes, WorkerTypes, Id, CallbackPlace, WorkerPlace
<1>3. ToldTypes
  BY DEF Init, ToldTypes, Id
<1>4. BoundTypes
  BY BoundAssumption DEF Init, BoundTypes
<1> QED
  BY <1>1, <1>2, <1>3, <1>4 DEF TypeOK

LEMMA StepTypes == TypeOK /\ [Next]_vars => TypeOK'
  BY MessageTypes, CallbackStepTypes, WorkerStepTypes, OtherTypes DEF Next

(* The type invariant: places, sessions, the device and the messages.      *)
THEOREM ArbiterTypes == Spec => []TypeOK
  BY InitTypes, StepTypes, PTL DEF Spec

-----------------------------------------------------------------------------
(* The invariant.  What a step does to the places:                         *)

CommonInv == JustStarted /\ SessionsAtHand /\ PauseCovered
OrderlyInv == Orderly => Alone /\ ReceiverCovered /\ SpeakerFreed /\ ClaimCovered

LEMMA InvParts == ArbiterInv <=> TypeOK /\ CommonInv /\ OrderlyInv
  BY DEF ArbiterInv, CommonInv, OrderlyInv

LEMMA Moves ==
  ASSUME TypeOK, NEW from, NEW to, Step(from, to)
  PROVE  /\ cb.pc = from /\ cb'.pc = to /\ cb'.session = cb.session /\ cb'.gone = cb.gone
         /\ mishaps' = mishaps
  BY DEF TypeOK, CallbackTypes, Step, bounds

LEMMA Begins ==
  ASSUME NEW pc, NEW s, NEW gone, Handles(pc, s, gone)
  PROVE  /\ cb.pc = "idle" /\ cb'.pc = pc /\ cb'.session = s /\ cb'.gone = gone
         /\ mishaps' = mishaps
  BY DEF Handles

LEMMA WorkerMoves ==
  ASSUME TypeOK, NEW from, NEW to, WorkerTo(from, to)
  PROVE  worker.pc = from /\ worker'.pc = to /\ worker'.gone = worker.gone
  BY DEF TypeOK, WorkerTypes, WorkerTo

CleansTheSame ==
  /\ Cleaning' <=> Cleaning
  /\ worker'.pc = "expired_tell" => worker.pc = "expired_tell" /\ worker'.gone = worker.gone

LEMMA Wakes == ASSUME TypeOK, wake_worker \/ UNCHANGED worker PROVE CleansTheSame
  BY DEF TypeOK, WorkerTypes, wake_worker, CleansTheSame, Cleaning

(* A step that touches nothing the invariant speaks of.                    *)
LEMMA Frame ==
  ASSUME TypeOK, CommonInv, OrderlyInv, CleansTheSame,
         UNCHANGED <<broadcast_active, broadcast_session, stale, cb, paused, rx, state, answer, mishaps>>,
         event' = event \/ event.pc # "wait" \/ ~ paused
  PROVE  CommonInv' /\ OrderlyInv'
<1>1. CommonInv'
  BY DEF CommonInv, JustStarted, SessionsAtHand, PauseCovered, CleansTheSame
<1>2. OrderlyInv'
  BY DEF OrderlyInv, Orderly, Alone, ReceiverCovered, SpeakerFreed, ClaimCovered, CleansTheSame, Silenced
<1> QED
  BY <1>1, <1>2

LEMMA MessageInv == ASSUME TypeOK, CommonInv, OrderlyInv, Message PROVE CommonInv' /\ OrderlyInv'
<1> USE DEF CommonInv, OrderlyInv, JustStarted, SessionsAtHand, PauseCovered,
            Orderly, Alone, ReceiverCovered, SpeakerFreed, ClaimCovered,
            Serving, Silenced, Telling, Lifting
<1>0. broadcast_active <=> broadcast_session # NoSession
  BY DEF TypeOK, SessionTypes
<1>w. UNCHANGED worker => (Cleaning' <=> Cleaning)
  BY DEF Cleaning
<1> USE <1>0, <1>w, Begins
<1>1. CASE FireRises
  BY <1>1 DEF FireRises, EndSession, player, outside, told
<1>2. CASE FireFalls
  BY <1>2 DEF FireFalls, player, outside, told
<1>3. CASE SoundOn \/ SoundOff
  BY <1>3 DEF SoundOn, SoundOff, stop_playback, arbiter, outside, told
<1>4. CASE Republish
  BY <1>4 DEF Republish, publish_state, arbiter, player, outside
<1>5. ASSUME NEW s \in Session, StartAgain(s) \/ Keepalive(s) PROVE CommonInv' /\ OrderlyInv'
  BY <1>5 DEF StartAgain, Keepalive, player, outside, told
<1>6. ASSUME NEW s \in Session, StartRefused(s) PROVE CommonInv' /\ OrderlyInv'
  BY <1>6 DEF StartRefused, arbiter, player, outside
<1>7. ASSUME NEW s \in Session, Stop(s) PROVE CommonInv' /\ OrderlyInv'
  BY <1>7, SessionAssumption DEF Stop, EndSession, player, outside, told
<1>8. ASSUME NEW s \in Session, NEW takeover \in BOOLEAN, StartAccepted(s, takeover) PROVE CommonInv' /\ OrderlyInv'
  BY <1>8, SessionAssumption DEF StartAccepted, player, outside, told
<1> QED
  BY <1>1, <1>2, <1>3, <1>4, <1>5, <1>6, <1>7, <1>8 DEF Message

LEMMA CallbackInv == ASSUME TypeOK, CommonInv, OrderlyInv, CallbackStep PROVE CommonInv' /\ OrderlyInv'
<1> USE DEF CommonInv, OrderlyInv, JustStarted, SessionsAtHand, PauseCovered,
            Orderly, Alone, ReceiverCovered, SpeakerFreed, ClaimCovered,
            Serving, Silenced, Telling, Lifting
<1>0. broadcast_active <=> broadcast_session # NoSession
  BY DEF TypeOK, SessionTypes
<1>w. UNCHANGED worker => CleansTheSame
  BY Wakes
<1> USE <1>0, <1>w, Moves DEF CleansTheSame
<1>1. CASE FireSteps
  <2>1. CASE TellGone("fire_tell", "fire_unpause")
    BY <2>1 DEF TellGone, publish_state, arbiter, player, outside
  <2>2. CASE Unpause("fire_unpause", "fire_stop")
    BY <2>2 DEF Unpause, set_paused, arbiter, outside, told
  <2>3. CASE StopReceiver("fire_stop", "fire_release")
    BY <2>3 DEF StopReceiver, systemctl_stop, outside, arbiter, player, told
  <2>4. CASE Proceed("fire_release", "wake")
    BY <2>4 DEF Proceed, arbiter, player, outside, told
  <2> QED
    BY <1>1, <2>1, <2>2, <2>3, <2>4 DEF FireSteps
<1>2. CASE ClearSteps \/ AwaitQuiet("off_quiet", "idle")
  BY <1>2 DEF ClearSteps, AwaitQuiet, Proceed, stop_playback, arbiter, player, outside, told
<1>3. CASE Wake("wake", "idle")
  BY <1>3, Wakes DEF Wake, arbiter, player, outside, told
<1>4. CASE StopSteps
  <2>1. CASE StopReceiver("stop_receiver", "stop_release")
    BY <2>1 DEF StopReceiver, systemctl_stop, outside, arbiter, player, told
  <2>2. CASE Proceed("stop_release", "stop_unpause")
    BY <2>2 DEF Proceed, arbiter, player, outside, told
  <2>3. CASE Unpause("stop_unpause", "stop_wake")
    BY <2>3 DEF Unpause, set_paused, arbiter, outside, told
  <2>4. CASE Wake("stop_wake", "stop_tell")
    BY <2>4, Wakes DEF Wake, arbiter, player, outside, told
  <2>5. CASE TellGone("stop_tell", "idle")
    BY <2>5 DEF TellGone, publish_state, arbiter, player, outside
  <2> QED
    BY <1>4, <2>1, <2>2, <2>3, <2>4, <2>5 DEF StopSteps
<1>5. CASE StartSteps
  <2>1. CASE TellGone("start_tell", "start_pause")
    BY <2>1 DEF TellGone, publish_state, arbiter, player, outside
  <2>2. CASE StartPause
    BY <2>2 DEF StartPause, set_paused, arbiter, outside, told
  <2>3. CASE AwaitQuiet("start_quiet", "start_wake")
    BY <2>3 DEF AwaitQuiet, playing, Proceed, arbiter, player, outside, told
  <2>4. CASE Wake("start_wake", "start_release")
    BY <2>4, Wakes DEF Wake, arbiter, player, outside, told
  <2>5. CASE Proceed("start_release", "start_receiver")
    BY <2>5 DEF Proceed, arbiter, player, outside, told
  <2>6. CASE /\ UNCHANGED <<arbiter, worker, player, outside, state>>
             /\ \/ Answer("start_release", "idle", "error") \/ Answer("start_acquire", "idle", "error")
                \/ Answer("start_ready", "announce", "ready")
    BY <2>6 DEF Answer, arbiter, player, outside
  <2>7. CASE ReceiverStarts
    BY <2>7 DEF ReceiverStarts, arbiter, player, told
  <2>8. CASE StartFails
    BY <2>8 DEF StartFails, Answer, arbiter, player, outside
  <2>9. CASE Undo
    BY <2>9 DEF Undo, EndSession, player, outside, told
  <2>10. CASE UndoTell
    BY <2>10 DEF UndoTell, publish_state, arbiter, player, outside
  <2>11. CASE Unpause("undo_unpause", "wake")
    BY <2>11 DEF Unpause, set_paused, arbiter, outside, told
  <2>12. CASE Acquired
    <3>1. Orderly /\ cb.pc = "start_acquire" => rx = "holding"
      BY <2>12 DEF Acquired, speaker_held, TypeOK, DeviceTypes
    <3> QED
      BY <2>12, <3>1 DEF Acquired, Proceed, arbiter, player, outside, told
  <2>13. CASE /\ Done("announce") /\ publish_state(TRUE, cb.session)
              /\ UNCHANGED <<arbiter, worker, player, outside, answer>>
    BY <2>13 DEF Done, publish_state, arbiter, player, outside
  <2> QED
    BY <1>5, <2>1, <2>2, <2>3, <2>4, <2>5, <2>6, <2>7, <2>8, <2>9, <2>10, <2>11, <2>12, <2>13 DEF StartSteps
<1> QED
  BY <1>1, <1>2, <1>3, <1>4, <1>5 DEF CallbackStep

CleaningPlace == {"expired_tell", "expired_stop", "expired_release", "expired_unpause"}

LEMMA WorkerInv == ASSUME TypeOK, CommonInv, OrderlyInv, WorkerStep PROVE CommonInv' /\ OrderlyInv'
<1>0. Orderly => ~ stale /\ ~ Cleaning
  BY DEF OrderlyInv, Alone
<1>1. CASE WorkerExpires
  <2>1. ~ Orderly'
    BY <1>0, <1>1 DEF WorkerExpires, keepalive_expired, Orderly, bounds
  <2>2. /\ cb.pc \notin {"start_tell", "start_pause"} /\ UNCHANGED <<cb, answer>>
        /\ broadcast_session # NoSession
    BY <1>1 DEF WorkerExpires, keepalive_expired, CommonInv, JustStarted, TypeOK, SessionTypes, told
  <2>3. worker'.pc = "expired_tell" /\ worker'.gone = broadcast_session
    BY <1>1 DEF WorkerExpires
  <2>4. CommonInv'
    BY <2>2, <2>3 DEF CommonInv, JustStarted, SessionsAtHand, PauseCovered, Cleaning
  <2> QED
    BY <2>1, <2>4 DEF OrderlyInv
<1>2. CASE WorkerTells \/ WorkerStopsReceiver \/ WorkerWaitsRelease
  <2>1. Cleaning /\ Cleaning' /\ worker'.pc # "expired_tell" /\ mishaps' = mishaps
    <3>1. ASSUME NEW from \in CleaningPlace, NEW to \in CleaningPlace \ {"expired_tell"},
                 WorkerTo(from, to), UNCHANGED bounds
          PROVE  Cleaning /\ Cleaning' /\ worker'.pc # "expired_tell" /\ mishaps' = mishaps
      BY <3>1, WorkerMoves DEF CleaningPlace, Cleaning, bounds
    <3> QED
      BY <1>2, <3>1 DEF WorkerTells, WorkerStopsReceiver, WorkerWaitsRelease, CleaningPlace
  <2>2. UNCHANGED <<broadcast_active, broadcast_session, stale, cb, paused, answer>>
    BY <1>2 DEF WorkerTells, WorkerStopsReceiver, WorkerWaitsRelease, arbiter, player, told
  <2> QED
    BY <1>0, <2>1, <2>2 DEF CommonInv, JustStarted, SessionsAtHand, PauseCovered, OrderlyInv, Orderly
<1>3. CASE WorkerUnpauses
  <2>1. Cleaning /\ worker'.pc = "loop" /\ mishaps' = mishaps /\ paused' = FALSE
    BY <1>3, WorkerMoves DEF WorkerUnpauses, Cleaning, set_paused, bounds
  <2>2. UNCHANGED <<broadcast_active, broadcast_session, stale, cb, answer>>
    BY <1>3 DEF WorkerUnpauses, arbiter, told
  <2> QED
    BY <1>0, <2>1, <2>2 DEF CommonInv, JustStarted, SessionsAtHand, PauseCovered, OrderlyInv, Orderly
<1>4. CASE WorkerWaits \/ WorkerPolls \/ WorkerDecidesSiren \/ WorkerPlays \/ WorkerWakes
  <2>1. CleansTheSame
    BY <1>4, WorkerMoves DEF WorkerWaits, WorkerPolls, WorkerDecidesSiren, WorkerPlays, WorkerWakes, CleansTheSame, Cleaning
  <2>2. UNCHANGED <<broadcast_active, broadcast_session, stale, cb, paused, rx, state, answer, mishaps, event>>
    BY <1>4 DEF WorkerWaits, WorkerPolls, WorkerDecidesSiren, WorkerPlays, WorkerWakes,
                arbiter, player, outside, told, bounds
  <2> QED
    BY <2>1, <2>2, Frame
<1> QED
  BY <1>1, <1>2, <1>3, <1>4 DEF WorkerStep

LEMMA OtherInv ==
  ASSUME TypeOK, CommonInv, OrderlyInv,
         EventStep \/ ReceiverAcquires \/ ReceiverExits \/ KeepaliveMissed \/ UNCHANGED vars
  PROVE  CommonInv' /\ OrderlyInv'
<1>1. CASE EventStep
  <2>1. CleansTheSame
    BY <1>1, Wakes DEF EventStep, EventTakes, EventOpens, EventSkips, EventCloses, EventEnds, Untouched
  <2>2. UNCHANGED <<broadcast_active, broadcast_session, stale, cb, paused, rx, state, answer, mishaps>>
    BY <1>1 DEF EventStep, EventTakes, EventOpens, EventSkips, EventCloses, EventEnds, Untouched,
                arbiter, outside, told, bounds
  <2>3. event.pc # "wait" \/ ~ paused
    BY <1>1 DEF EventStep, EventTakes, EventOpens, EventSkips, EventCloses, EventEnds
  <2> QED
    BY <2>1, <2>2, <2>3, Frame
<1>2. CASE ReceiverAcquires \/ ReceiverExits
  <2>1. CleansTheSame
    BY <1>2, Wakes DEF ReceiverAcquires, ReceiverExits, Untouched
  <2>2. /\ UNCHANGED <<broadcast_active, broadcast_session, stale, cb, paused, event, state, answer, mishaps>>
        /\ rx = "starting"
    BY <1>2 DEF ReceiverAcquires, ReceiverExits, Untouched, arbiter, player, told, bounds
  <2>3. CommonInv'
    BY <2>1, <2>2 DEF CommonInv, JustStarted, SessionsAtHand, PauseCovered, CleansTheSame
  <2>4. OrderlyInv'
    BY <2>1, <2>2 DEF OrderlyInv, Orderly, Alone, ReceiverCovered, SpeakerFreed, ClaimCovered, CleansTheSame
  <2> QED
    BY <2>3, <2>4
<1>3. CASE KeepaliveMissed
  <2>1. ~ Orderly'
    BY <1>3 DEF KeepaliveMissed, Orderly, bounds
  <2>2. UNCHANGED <<broadcast_active, broadcast_session, cb, worker, paused, answer>> /\ cb.pc \notin {"start_tell", "start_pause"}
    BY <1>3 DEF KeepaliveMissed, player, told
  <2>3. CommonInv'
    BY <2>2 DEF CommonInv, JustStarted, SessionsAtHand, PauseCovered, Cleaning
  <2> QED
    BY <2>1, <2>3 DEF OrderlyInv
<1>4. CASE UNCHANGED vars
  BY <1>4, Wakes, Frame DEF vars, arbiter, player, outside, told, bounds
<1> QED
  BY <1>1, <1>2, <1>3, <1>4

LEMMA InitInv == Init => ArbiterInv
<1> SUFFICES ASSUME Init PROVE ArbiterInv
  OBVIOUS
<1>1. TypeOK
  BY InitTypes
<1>2. CommonInv
  BY DEF Init, CommonInv, JustStarted, SessionsAtHand, PauseCovered, Serving
<1>3. OrderlyInv
  BY DEF Init, OrderlyInv, Alone, ReceiverCovered, SpeakerFreed, ClaimCovered, Cleaning, Serving, Silenced
<1> QED
  BY <1>1, <1>2, <1>3, InvParts

LEMMA StepInv == ArbiterInv /\ [Next]_vars => ArbiterInv'
<1> SUFFICES ASSUME ArbiterInv, [Next]_vars PROVE ArbiterInv'
  OBVIOUS
<1>1. TypeOK /\ CommonInv /\ OrderlyInv
  BY InvParts
<1>2. TypeOK'
  BY <1>1, StepTypes
<1>3. CommonInv' /\ OrderlyInv'
  BY <1>1, MessageInv, CallbackInv, WorkerInv, OtherInv DEF Next
<1> QED
  BY <1>2, <1>3 DEF ArbiterInv, CommonInv, OrderlyInv

LEMMA Invariance == Spec => []ArbiterInv
  BY InitInv, StepInv, PTL DEF Spec
-----------------------------------------------------------------------------
(* Results.                                                                *)

(* A pause never outlives the broadcast it was set for, whatever is late,  *)
(* refused, expired or cannot be stopped: the next fire's siren is heard.  *)
THEOREM PauseEnds == Spec => []PauseMeansBroadcast
<1>1. ArbiterInv => PauseMeansBroadcast
  BY DEF ArbiterInv, PauseCovered, PauseMeansBroadcast, Lifting
<1> QED
  BY <1>1, Invariance, PTL

(* When keepalives are in time and the receiver can be stopped, it never   *)
(* lives on without a broadcast.                                           *)
THEOREM ReceiverEnds == Spec => []OrderlyReceiver
<1>1. ArbiterInv => OrderlyReceiver
  BY DEF ArbiterInv, Alone, ReceiverCovered, OrderlyReceiver, ReceiverOnlyInBroadcast
<1> QED
  BY <1>1, Invariance, PTL

(* In the same behaviours the retained state claims no broadcast that is   *)
(* over, so no VMS asks its operator about one.                            *)
THEOREM ClaimsAreTrue == Spec => []NoStaleClaim
<1>1. ArbiterInv => NoStaleClaim
  BY DEF ArbiterInv, ClaimCovered, NoStaleClaim, Telling
<1> QED
  BY <1>1, Invariance, PTL

-----------------------------------------------------------------------------
(* Steps that end no broadcast.                                            *)

LEMMA OthersKeepOwner ==
  ASSUME TypeOK, [Next]_vars
  PROVE  \/ UNCHANGED <<broadcast_active, broadcast_session>>
         \/ FireRises \/ Undo \/ WorkerExpires
         \/ \E s \in Session : Stop(s) \/ \E takeover \in BOOLEAN : StartAccepted(s, takeover)
<1> DEFINE Kept == UNCHANGED <<broadcast_active, broadcast_session>>
<1>1. UNCHANGED arbiter => Kept
  BY DEF arbiter
<1>2. ASSUME FireFalls \/ SoundOn \/ SoundOff \/ Republish \/ KeepaliveMissed PROVE Kept
  BY <1>1, <1>2 DEF FireFalls, SoundOn, SoundOff, Republish, KeepaliveMissed
<1>3. ASSUME NEW s \in Session, StartAgain(s) \/ Keepalive(s) \/ StartRefused(s) PROVE Kept
  BY <1>1, <1>3 DEF StartAgain, Keepalive, StartRefused
<1>4. ASSUME NEW from, NEW to,
             TellGone(from, to) \/ StopReceiver(from, to) \/ Unpause(from, to) \/ Proceed(from, to) \/ Wake(from, to)
      PROVE  Kept
  BY <1>1, <1>4 DEF TellGone, StopReceiver, Unpause, Proceed, Wake
<1>5. ASSUME FireSteps \/ ClearSteps \/ StopSteps \/ AwaitQuiet("off_quiet", "idle") \/ Wake("wake", "idle") PROVE Kept
  BY <1>1, <1>4, <1>5 DEF FireSteps, ClearSteps, StopSteps, AwaitQuiet
<1>6. ASSUME StartSteps, ~ Undo PROVE Kept
  <2>1. CASE UNCHANGED arbiter
    BY <1>1, <2>1
  <2>2. CASE StartPause \/ ReceiverStarts \/ StartFails \/ UndoTell \/ Acquired
    BY <1>1, <1>4, <2>2 DEF StartPause, ReceiverStarts, StartFails, UndoTell, Acquired
  <2> QED
    BY <1>4, <1>6, <2>1, <2>2 DEF StartSteps, AwaitQuiet
<1>7. ASSUME WorkerStep, ~ WorkerExpires PROVE Kept
  BY <1>1, <1>7 DEF WorkerStep, WorkerTells, WorkerStopsReceiver, WorkerWaitsRelease, WorkerUnpauses,
                    WorkerWaits, WorkerPolls, WorkerDecidesSiren, WorkerPlays, WorkerWakes
<1>8. ASSUME EventStep \/ ReceiverAcquires \/ ReceiverExits PROVE Kept
  BY <1>1, <1>8 DEF EventStep, EventTakes, EventOpens, EventSkips, EventCloses, EventEnds,
                    ReceiverAcquires, ReceiverExits, Untouched
<1>9. UNCHANGED vars => Kept
  BY <1>1 DEF vars
<1> QED
  BY <1>2, <1>3, <1>5, <1>6, <1>7, <1>8, <1>9 DEF Next, Message, CallbackStep

(* Nobody's late STOP ends the broadcast of another: it takes the session  *)
(* itself, its expiry, its failed start, a takeover or a rising fire.      *)
THEOREM OnlyOwnStops == Spec => NoForeignStop
<1> DEFINE Rightly == \/ cb'.pc = "stop_receiver" /\ cb'.session = broadcast_session
                      \/ cb'.pc = "undo_tell" /\ cb.session = broadcast_session
                      \/ stale \/ (~ fire_active /\ fire_active')
<1>1. ASSUME ArbiterInv, [Next]_vars PROVE (broadcast_active /\ ~ broadcast_active') => Rightly
  <2>1. TypeOK
    BY <1>1 DEF ArbiterInv
  <2>2. ASSUME NEW s \in Session, Stop(s) PROVE Rightly
    BY <2>2, Begins DEF Stop
  <2>3. ASSUME Undo PROVE Rightly \/ UNCHANGED broadcast_active
    BY <2>1, <2>3, Moves DEF Undo
  <2>4. FireRises \/ WorkerExpires => Rightly
    BY DEF FireRises, WorkerExpires, keepalive_expired
  <2>5. ASSUME NEW s \in Session, NEW takeover \in BOOLEAN, StartAccepted(s, takeover) PROVE broadcast_active'
    BY <2>5 DEF StartAccepted
  <2> QED
    BY <1>1, <2>1, <2>2, <2>3, <2>4, <2>5, OthersKeepOwner
<1>2. ArbiterInv /\ [Next]_vars => [(broadcast_active /\ ~ broadcast_active') => Rightly]_vars
  BY <1>1
<1> QED
  BY <1>2, Invariance, PTL DEF Spec, NoForeignStop
-----------------------------------------------------------------------------
(* What the VMSs see.  A stutter of Speaker leaves these alone.            *)

Serves == IF cb.pc \in Serving THEN cb.session ELSE NoSession
Untold == untold \ {NoSession}
Unseen == UNCHANGED <<broadcast_session, Serves, Untold, state, answer>>
SeenStep == Seen!Next \/ Unseen

LEMMA UnseenStutters == Unseen => UNCHANGED Seen!speaker
  BY DEF Unseen, Serves, Untold, Seen!speaker

(* A step between places of one kind, that holds on to what ended.         *)
LEMMA PlacesUnseen ==
  ASSUME TypeOK, CleansTheSame, UNCHANGED <<broadcast_session, state, answer>>,
         UNCHANGED cb \/ (/\ cb'.session = cb.session /\ cb'.gone = cb.gone
                          /\ cb'.pc \in Serving <=> cb.pc \in Serving
                          /\ cb'.pc \in Telling <=> cb.pc \in Telling
                          /\ cb'.pc = "undo_tell" <=> cb.pc = "undo_tell"),
         worker.pc = "expired_tell" => worker'.pc = "expired_tell"
  PROVE  Unseen
<1>1. Serves' = Serves
  BY DEF Serves, Serving
<1>2. untold' = untold
  BY DEF untold, CleansTheSame, Telling
<1> QED
  BY <1>1, <1>2 DEF Unseen, Untold

LEMMA MessageSeen == ASSUME TypeOK, CommonInv, Message PROVE SeenStep
<1>0. (broadcast_active <=> broadcast_session # NoSession) /\ broadcast_session \in Id /\ broadcast_active \in BOOLEAN
  BY DEF TypeOK, SessionTypes
<1> USE <1>0, Begins DEF SeenStep, Untold, untold, Serves, Serving, Telling
<1>1. CASE FireRises
  <2>1. CASE broadcast_session = NoSession
    BY <1>1, <2>1 DEF FireRises, EndSession, Unseen, told
  <2>2. CASE broadcast_session # NoSession
    BY <1>1, <2>2 DEF FireRises, EndSession, told, Seen!Next, Seen!End, Seen!Ended
  <2> QED
    BY <2>1, <2>2
<1>2. CASE FireFalls \/ SoundOn \/ SoundOff
  BY <1>2 DEF FireFalls, SoundOn, SoundOff, Unseen, arbiter, told
<1>3. CASE Republish
  BY <1>3 DEF Republish, publish_state, arbiter, Seen!Next, Seen!Republish
<1>4. ASSUME NEW s \in Session, StartAgain(s) \/ Keepalive(s) PROVE SeenStep
  BY <1>4 DEF StartAgain, Keepalive, Unseen, told
<1>5. ASSUME NEW s \in Session, StartRefused(s) PROVE SeenStep
  BY <1>5 DEF StartRefused, arbiter, Seen!Next, Seen!Busy
<1>6. ASSUME NEW s \in Session, Stop(s) PROVE SeenStep
  BY <1>6, SessionAssumption DEF Stop, EndSession, told, Seen!Next, Seen!End, Seen!Ended
<1>7. ASSUME NEW s \in Session, NEW takeover \in BOOLEAN, StartAccepted(s, takeover) PROVE SeenStep
  <2>1. Seen!Take(s, takeover)
    BY <1>7, SessionAssumption DEF StartAccepted, told, Seen!Take, Seen!Ended
  <2> QED
    BY <2>1 DEF Seen!Next
<1> QED
  BY <1>1, <1>2, <1>3, <1>4, <1>5, <1>6, <1>7 DEF Message

LEMMA CallbackSeen == ASSUME TypeOK, CommonInv, CallbackStep PROVE SeenStep
<1>0. /\ cb.gone \in Id /\ cb.session \in Id
      /\ UNCHANGED arbiter => UNCHANGED <<broadcast_active, broadcast_session>>
      /\ UNCHANGED told => UNCHANGED <<state, answer>>
      /\ UNCHANGED worker \/ wake_worker
           => CleansTheSame /\ (worker.pc = "expired_tell" => worker'.pc = "expired_tell")
  BY Wakes DEF TypeOK, CallbackTypes, arbiter, told, wake_worker
<1> USE <1>0
<1>1. ASSUME NEW from \in Telling \ {"start_tell"}, NEW to \in CallbackPlace \ (Telling \cup Serving \cup {"undo_tell"}),
             TellGone(from, to)
      PROVE  SeenStep
  <2>1. CASE cb.gone = NoSession
    BY <1>1, <2>1, Moves DEF TellGone, SeenStep, Unseen, Untold, untold, Serves, Serving, Telling
  <2>2. CASE cb.gone # NoSession
    <3>1. Seen!TellEnd(cb.gone)
      BY <1>1, <2>2, Moves DEF TellGone, publish_state, Seen!TellEnd, untold, Serving, Telling
    <3> QED
      BY <3>1, <2>2 DEF SeenStep, Seen!Next, Id
  <2> QED
    BY <2>1, <2>2
<1>2. ASSUME NEW from, NEW to, Step(from, to),
             to \in Serving <=> from \in Serving, to \in Telling <=> from \in Telling,
             to # "undo_tell", from # "undo_tell",
             UNCHANGED <<broadcast_session, state, answer>>, UNCHANGED worker \/ wake_worker
      PROVE  SeenStep
  <2>1. /\ cb'.session = cb.session /\ cb'.gone = cb.gone
        /\ cb'.pc \in Serving <=> cb.pc \in Serving
        /\ cb'.pc \in Telling <=> cb.pc \in Telling
        /\ cb'.pc = "undo_tell" <=> cb.pc = "undo_tell"
    BY <1>2, Moves DEF Serving, Telling
  <2> QED
    BY <1>2, <2>1, PlacesUnseen DEF SeenStep
<1>3. CASE FireSteps
  <2>1. CASE TellGone("fire_tell", "fire_unpause")
    BY <1>1, <2>1 DEF CallbackPlace, Telling, Serving
  <2>2. CASE Unpause("fire_unpause", "fire_stop") \/ StopReceiver("fire_stop", "fire_release") \/ Proceed("fire_release", "wake")
    BY <1>2, <2>2 DEF Unpause, StopReceiver, Proceed, Telling, Serving
  <2> QED
    BY <1>3, <2>1, <2>2 DEF FireSteps
<1>4. CASE ClearSteps \/ AwaitQuiet("off_quiet", "idle") \/ Wake("wake", "idle")
  BY <1>2, <1>4 DEF ClearSteps, AwaitQuiet, Proceed, Wake, Telling, Serving
<1>5. CASE StopSteps
  <2>1. CASE TellGone("stop_tell", "idle")
    BY <1>1, <2>1 DEF CallbackPlace, Telling, Serving
  <2>2. CASE \/ StopReceiver("stop_receiver", "stop_release") \/ Proceed("stop_release", "stop_unpause")
             \/ Unpause("stop_unpause", "stop_wake") \/ Wake("stop_wake", "stop_tell")
    BY <1>2, <2>2 DEF StopReceiver, Proceed, Unpause, Wake, Telling, Serving
  <2> QED
    BY <1>5, <2>1, <2>2 DEF StopSteps
<1>6. CASE StartSteps
  <2> USE DEF SeenStep, Seen!Next, Untold, untold, Serves, Serving, Telling
  <2>1. CASE TellGone("start_tell", "start_pause")
    <3>1. CASE cb.gone = NoSession
      BY <2>1, <3>1, Moves DEF TellGone, Unseen
    <3>2. CASE cb.gone # NoSession
      <4>1. Seen!TellEnd(cb.gone)
        BY <2>1, <3>2, Moves DEF TellGone, publish_state, Seen!TellEnd
      <4> QED
        BY <4>1, <3>2 DEF Id
    <3> QED
      BY <3>1, <3>2
  <2>2. CASE \/ StartPause \/ AwaitQuiet("start_quiet", "start_wake") \/ Wake("start_wake", "start_release")
             \/ Proceed("start_release", "start_receiver") \/ ReceiverStarts \/ Acquired
             \/ Unpause("undo_unpause", "wake")
    BY <1>2, <2>2 DEF StartPause, AwaitQuiet, Wake, Proceed, ReceiverStarts, Acquired, Unpause
  <2>3. CASE /\ UNCHANGED <<arbiter, worker, player, outside, state>>
             /\ Answer("start_release", "idle", "error") \/ Answer("start_acquire", "idle", "error")
    <3>1. Seen!Refuse
      BY <2>3, Moves DEF Answer, Seen!Refuse, CommonInv, SessionsAtHand
    <3> QED
      BY <3>1
  <2>4. CASE Answer("start_ready", "announce", "ready") /\ UNCHANGED <<arbiter, worker, player, outside, state>>
    <3>1. Seen!Ready
      BY <2>4, Moves DEF Answer, Seen!Ready, CommonInv, SessionsAtHand
    <3> QED
      BY <3>1
  <2>5. CASE StartFails
    <3>1. Seen!ReceiverFails
      BY <2>5, Moves DEF StartFails, Answer, Seen!ReceiverFails, CommonInv, SessionsAtHand
    <3> QED
      BY <3>1
  <2>6. CASE Undo
    <3>1. Seen!Undo
      BY <2>6, Moves DEF Undo, EndSession, Seen!Undo, Seen!Ended, CommonInv, SessionsAtHand
    <3> QED
      BY <3>1
  <2>7. CASE UndoTell
    <3>1. cb.session # NoSession
      BY <2>7, Moves DEF UndoTell, CommonInv, SessionsAtHand
    <3>2. Seen!TellEnd(cb.session)
      BY <2>7, <3>1, Moves DEF UndoTell, publish_state, Seen!TellEnd
    <3> QED
      BY <3>1, <3>2 DEF Id
  <2>8. CASE /\ Done("announce") /\ publish_state(TRUE, cb.session)
             /\ UNCHANGED <<arbiter, worker, player, outside, answer>>
    <3>1. cb.pc = "announce" /\ cb'.pc = "idle"
      BY <2>8, Moves DEF Done
    <3>2. cb.session # NoSession /\ answer = [session |-> cb.session, result |-> "ready"]
      BY <3>1 DEF CommonInv, SessionsAtHand
    <3>3. Seen!Announce
      BY <2>8, <3>1, <3>2 DEF publish_state, Seen!Announce
    <3> QED
      BY <3>3
  <2> QED
    BY <1>6, <2>1, <2>2, <2>3, <2>4, <2>5, <2>6, <2>7, <2>8 DEF StartSteps
<1> QED
  BY <1>3, <1>4, <1>5, <1>6 DEF CallbackStep

LEMMA WorkerSeen == ASSUME TypeOK, CommonInv, WorkerStep PROVE SeenStep
<1>0. /\ UNCHANGED arbiter => UNCHANGED <<broadcast_active, broadcast_session>>
      /\ UNCHANGED told => UNCHANGED <<state, answer>>
  BY DEF arbiter, told
<1>1. CASE WorkerExpires
  <2>1. broadcast_session # NoSession
    BY <1>1 DEF WorkerExpires, keepalive_expired, TypeOK, SessionTypes
  <2>2. Seen!End
    BY <1>1, <2>1 DEF WorkerExpires, EndSession, told, Seen!End, Seen!Ended, untold
  <2> QED
    BY <2>2 DEF SeenStep, Seen!Next
<1>2. CASE WorkerTells
  <2>1. /\ worker.pc = "expired_tell" /\ worker'.pc = "expired_stop" /\ worker.gone # NoSession
        /\ worker.gone \in Id
    BY <1>2, WorkerMoves DEF WorkerTells, CommonInv, SessionsAtHand, TypeOK, WorkerTypes
  <2>2. Seen!TellEnd(worker.gone)
    BY <1>0, <1>2, <2>1 DEF WorkerTells, publish_state, Seen!TellEnd, untold
  <2> QED
    BY <2>1, <2>2 DEF SeenStep, Seen!Next, Id
<1>3. CASE \/ WorkerStopsReceiver \/ WorkerWaitsRelease \/ WorkerUnpauses \/ WorkerWaits \/ WorkerPolls
           \/ WorkerDecidesSiren \/ WorkerPlays \/ WorkerWakes
  <2>1. ASSUME NEW from \in WorkerPlace \ {"expired_tell"}, NEW to \in WorkerPlace \ {"expired_tell"},
               WorkerTo(from, to), UNCHANGED <<arbiter, cb, told>>
        PROVE  Unseen
    BY <1>0, <2>1, WorkerMoves DEF Unseen, Untold, untold, Serves
  <2> QED
    BY <1>3, <2>1 DEF WorkerStopsReceiver, WorkerWaitsRelease, WorkerUnpauses, WorkerWaits, WorkerPolls,
                      WorkerDecidesSiren, WorkerPlays, WorkerWakes, WorkerPlace, SeenStep
<1> QED
  BY <1>1, <1>2, <1>3 DEF WorkerStep

LEMMA OtherSeen ==
  ASSUME EventStep \/ ReceiverAcquires \/ ReceiverExits \/ KeepaliveMissed \/ UNCHANGED vars
  PROVE  SeenStep
<1>1. UNCHANGED <<broadcast_session, cb, worker, state, answer>>
  BY DEF EventStep, EventTakes, EventOpens, EventSkips, EventCloses, EventEnds, ReceiverAcquires,
         ReceiverExits, KeepaliveMissed, Untouched, vars, arbiter, told
<1> QED
  BY <1>1 DEF SeenStep, Unseen, Untold, untold, Serves

(* To the VMSs the arbiter is Speaker: blocking handlers, the worker's     *)
(* cleanup outside the lock and every mishap are within what it allows.    *)
THEOREM ArbiterRefinesSpeaker == Spec => IsSpeaker
<1>1. Init => Seen!Init
  BY DEF Init, Seen!Init, untold, Serving, Telling
<1>2. ArbiterInv /\ [Next]_vars => [Seen!Next]_(Seen!speaker)
  <2> SUFFICES ASSUME ArbiterInv, [Next]_vars PROVE [Seen!Next]_(Seen!speaker)
    OBVIOUS
  <2>1. SeenStep
    BY InvParts, MessageSeen, CallbackSeen, WorkerSeen, OtherSeen DEF Next
  <2> QED
    BY <2>1, UnseenStutters DEF SeenStep
<1> QED
  BY <1>1, <1>2, Invariance, PTL DEF Spec, IsSpeaker, Seen!Spec

-----------------------------------------------------------------------------
(* READY.                                                                  *)

(* In behaviours without expiries and failed stops READY is said only      *)
(* while the receiver holds the speaker.                                   *)
THEOREM HeldWhenReady == Spec => OrderlyReady
<1>1. ASSUME ArbiterInv, [Next]_vars, Orderly, answer' # answer, answer'.result = "ready" PROVE rx = "holding"
  <2>1. TypeOK /\ CommonInv /\ (cb.pc = "start_ready" => rx = "holding")
    BY <1>1, InvParts DEF ArbiterInv, SpeakerFreed
  <2>2. ~ UNCHANGED told
    BY <1>1 DEF told
  <2>3. ~ (\E s \in Session : StartRefused(s))
    BY <1>1 DEF StartRefused
  <2>4. ~ UNCHANGED answer
    BY <1>1
  <2>5. ~ Message
    BY <2>2, <2>3, <2>4 DEF Message, FireRises, FireFalls, SoundOn, SoundOff, Republish, StartAgain, Stop,
                       Keepalive, StartAccepted
  <2>6. ~ WorkerStep
    BY <2>2, <2>4 DEF WorkerStep, WorkerExpires, WorkerTells, WorkerStopsReceiver, WorkerWaitsRelease,
                 WorkerUnpauses, WorkerWaits, WorkerPolls, WorkerDecidesSiren, WorkerPlays, WorkerWakes
  <2>7. ~ (EventStep \/ ReceiverAcquires \/ ReceiverExits \/ KeepaliveMissed \/ UNCHANGED vars)
    BY <2>2 DEF EventStep, EventTakes, EventOpens, EventSkips, EventCloses, EventEnds, ReceiverAcquires,
                ReceiverExits, KeepaliveMissed, Untouched, vars
  <2>8. ASSUME NEW from, NEW to,
               TellGone(from, to) \/ StopReceiver(from, to) \/ Unpause(from, to) \/ Proceed(from, to) \/ Wake(from, to)
        PROVE  FALSE
    BY <2>2, <2>4, <2>8 DEF TellGone, StopReceiver, Unpause, Proceed, Wake
  <2>9. ~ (FireSteps \/ ClearSteps \/ StopSteps \/ AwaitQuiet("off_quiet", "idle") \/ Wake("wake", "idle"))
    BY <2>2, <2>8 DEF FireSteps, ClearSteps, StopSteps, AwaitQuiet
  <2>10. StartSteps
    BY <1>1, <2>5, <2>6, <2>7, <2>9 DEF Next, CallbackStep
  <2>11. ~ (StartPause \/ ReceiverStarts \/ Undo \/ UndoTell \/ Acquired)
    BY <2>2, <2>4, <2>8 DEF StartPause, ReceiverStarts, Undo, UndoTell, Acquired
  <2>12. ~ (\E from, to : Answer(from, to, "error"))
    BY <1>1 DEF Answer
  <2>13. cb.pc = "start_ready"
    BY <2>4, <2>8, <2>10, <2>11, <2>12 DEF StartSteps, StartFails, AwaitQuiet, Answer, Step
  <2> QED
    BY <2>1, <2>13
<1>2. ArbiterInv /\ [Next]_vars => [Orderly => HeldAtReady]_vars
  BY <1>1 DEF HeldAtReady
<1> QED
  BY <1>2, Invariance, PTL DEF Spec, OrderlyReady
=============================================================================
