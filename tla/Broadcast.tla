------------------------------ MODULE Broadcast ------------------------------
(***************************************************************************)
(* Several operators' VMSs and one speaker: broadcast_controller.cpp and   *)
(* broadcast_control_row.cpp of the VMS against the arbiter of RPi C,      *)
(* which is Speaker (AudioArbiter is shown to implement it).  Commands and *)
(* messages travel through the broker, in order between one sender and one *)
(* receiver; a VMS runs on one thread, so a handler is one action, and a   *)
(* confirmation dialog lets messages be handled while it is open.          *)
(*                                                                         *)
(* Time is a choice.  A VMS gives up waiting for READY whenever it waits,  *)
(* RPi C ends a session whose VMS does not send keepalives.  What goes     *)
(* wrong beyond that is named:                                             *)
(*   outage   a VMS loses its link long enough to notice (5 s)             *)
(*   blip     ... or gets it back before                                   *)
(*   slow     a START takes so long that its session expires meanwhile, or *)
(*            before the first keepalive, 2 s after READY                  *)
(*   restart  the program on RPi C is started again                        *)
(***************************************************************************)
EXTENDS Sequences, Faults

CONSTANTS
  VMS,
  Session,    \* the session ids the VMSs draw
  NoSession,  \* 0
  Client,     \* the VMS that draws a session
  Attempts,   \* bound: the sessions that a behaviour may draw
  Possible    \* the mishaps that may happen

Mishap == {"outage", "blip", "slow", "restart"}

ASSUME SessionAssumption == NoSession \notin Session /\ Client \in [Session -> VMS]
ASSUME BoundAssumption == Attempts \subseteq SUBSET Session /\ Possible \subseteq Mishap

VARIABLES
  owner, serving, ended, state, answer,  \* RPi C, see Speaker
  mode,        \* idle, awaiting (m_awaiting_ready) or active (m_active)
  m_session, m_takeover,
  asked,       \* the confirmation dialog is open
  remote,      \* m_remote_active and m_remote_session
  online,      \* the VMS has its link to the broker
  cmds,        \* commands of a VMS on their way to RPi C
  inbox,       \* messages on their way to a VMS
  fresh,       \* sessions not drawn yet
  mishaps      \* what has gone wrong so far

rpic == <<owner, serving, ended, state, answer>>
client == <<mode, m_session, m_takeover, asked, remote>>
vars == <<rpic, client, online, cmds, inbox, fresh, mishaps, faults>>

Arbiter == INSTANCE Speaker

Init ==
  /\ Arbiter!Init
  /\ mode = [v \in VMS |-> "idle"]
  /\ m_session = [v \in VMS |-> NoSession]
  /\ m_takeover = [v \in VMS |-> FALSE] /\ asked = [v \in VMS |-> FALSE]
  /\ remote = [v \in VMS |-> NoSession]
  /\ online = [v \in VMS |-> TRUE]
  /\ cmds = [v \in VMS |-> <<>>] /\ inbox = [v \in VMS |-> <<>>]
  /\ fresh \in Attempts
  /\ mishaps = {} /\ faults = 0

Suffer(m) == m \in Possible /\ Fault /\ mishaps' = mishaps \cup {m}

-----------------------------------------------------------------------------
(* Messages.                                                               *)
START(s, takeover) == [session |-> s, start |-> TRUE, takeover |-> takeover]
STOP(s) == [session |-> s, start |-> FALSE, takeover |-> FALSE]
StateMessage(active, s) == [session |-> s, says |-> IF active THEN "active" ELSE "over"]
Answer(s, result) == [session |-> s, says |-> result]

(* MqttLink::publish refuses while the link is down.                       *)
Send(v, c) == cmds' = IF online[v] THEN [cmds EXCEPT ![v] = Append(@, c)] ELSE cmds

(* RPi C publishes; a VMS without its link gets nothing.  An answer        *)
(* reaches every VMS and concerns the one that drew the session: the       *)
(* others drop it.                                                         *)
Publish(m) == inbox' = [v \in VMS |-> IF online[v] THEN Append(inbox[v], m) ELSE inbox[v]]
Reply(m) == LET v == Client[m.session] IN
            inbox' = IF online[v] THEN [inbox EXCEPT ![v] = Append(@, m)] ELSE inbox

-----------------------------------------------------------------------------
(* A VMS: the operator and the timers.                                     *)

other_broadcasting(v) == remote[v] # NoSession /\ Client[remote[v]] # v

(* The session becomes s and the VMS waits for its READY.                  *)
start(v, takeover) ==
  /\ mode[v] # "active"
  /\ \E s \in fresh :
       /\ Client[s] = v
       /\ fresh' = fresh \ {s}
       /\ m_session' = [m_session EXCEPT ![v] = s]
       /\ Send(v, START(s, takeover))
  /\ mode' = [mode EXCEPT ![v] = "awaiting"]
  /\ m_takeover' = [m_takeover EXCEPT ![v] = FALSE]

(* The button is locked only while the VMS is on the air.                  *)
ClickOn(v) ==
  /\ ~ asked[v] /\ ~ other_broadcasting(v)
  /\ start(v, m_takeover[v])
  /\ UNCHANGED <<rpic, asked, remote, online, inbox, mishaps, faults>>

ClickOnOther(v) ==
  /\ ~ asked[v] /\ other_broadcasting(v) /\ mode[v] # "active"
  /\ asked' = [asked EXCEPT ![v] = TRUE]
  /\ UNCHANGED <<rpic, mode, m_session, m_takeover, remote, online, cmds, inbox, fresh, mishaps, faults>>

(* start_takeover: what was asked about may have changed meanwhile, and    *)
(* start returns at once when the VMS is on the air by now.                *)
Confirm(v) ==
  /\ asked[v]
  /\ asked' = [asked EXCEPT ![v] = FALSE]
  /\ \/ start(v, TRUE)
     \/ /\ mode[v] = "active"
        /\ m_takeover' = [m_takeover EXCEPT ![v] = TRUE]
        /\ UNCHANGED <<mode, m_session, cmds, fresh>>
  /\ UNCHANGED <<rpic, remote, online, inbox, mishaps, faults>>

Cancel(v) ==
  /\ asked[v]
  /\ asked' = [asked EXCEPT ![v] = FALSE]
  /\ UNCHANGED <<rpic, mode, m_session, m_takeover, remote, online, cmds, inbox, fresh, mishaps, faults>>

Forget(v) ==
  /\ mode' = [mode EXCEPT ![v] = "idle"]
  /\ m_session' = [m_session EXCEPT ![v] = NoSession]

(* Off, an error of the RTP sender, and READY that did not come in time.   *)
stop(v) ==
  /\ mode[v] # "idle"
  /\ Send(v, STOP(m_session[v]))
  /\ Forget(v)
  /\ UNCHANGED <<rpic, m_takeover, asked, remote, online, inbox, fresh, mishaps, faults>>

ClickOff(v) == mode[v] = "active" /\ stop(v)
on_ready_timeout(v) == mode[v] = "awaiting" /\ stop(v)

(* abort_local: no STOP.                                                   *)
check_link_alive(v) ==
  /\ ~ online[v] /\ mode[v] # "idle"
  /\ Forget(v)
  /\ UNCHANGED <<rpic, m_takeover, asked, remote, online, cmds, inbox, fresh, mishaps, faults>>

-----------------------------------------------------------------------------
(* A VMS: messages.                                                        *)

Receives(v, says) == inbox[v] # <<>> /\ Head(inbox[v]).says \in says
Consume(v) == inbox' = [inbox EXCEPT ![v] = Tail(@)]
OwnSession(v) == m_session[v] # NoSession /\ Head(inbox[v]).session = m_session[v]

(* Slip: the end is heard only once the VMS is on the air.                 *)
on_remote_state_on_air(v) ==
  /\ Receives(v, {"active", "over"})
  /\ Consume(v)
  /\ LET m == Head(inbox[v]) IN
     /\ remote' = [remote EXCEPT ![v] = IF m.says = "active" THEN m.session ELSE NoSession]
     /\ IF m.says = "over" /\ OwnSession(v) /\ mode[v] = "active"
        THEN Forget(v) ELSE UNCHANGED <<mode, m_session>>
  /\ UNCHANGED <<rpic, m_takeover, asked, online, cmds, fresh, mishaps, faults>>

(* Only the end of its own session ends the broadcast of this VMS.         *)
on_remote_state(v) ==
  /\ Receives(v, {"active", "over"})
  /\ Consume(v)
  /\ LET m == Head(inbox[v]) IN
     /\ remote' = [remote EXCEPT ![v] = IF m.says = "active" THEN m.session ELSE NoSession]
     /\ IF m.says = "over" /\ OwnSession(v) /\ mode[v] # "idle"
        THEN Forget(v) ELSE UNCHANGED <<mode, m_session>>
  /\ UNCHANGED <<rpic, m_takeover, asked, online, cmds, fresh, mishaps, faults>>

(* A late answer, or one to an earlier attempt, is dropped.                *)
DropAnswer(v) ==
  /\ Receives(v, {"ready", "busy", "error"})
  /\ mode[v] # "awaiting" \/ ~ OwnSession(v)
  /\ Consume(v)
  /\ UNCHANGED <<rpic, client, online, cmds, fresh, mishaps, faults>>

IsBusy(v) ==
  /\ Receives(v, {"busy"}) /\ mode[v] = "awaiting" /\ OwnSession(v)
  /\ Consume(v)
  /\ Forget(v)
  /\ asked' = [asked EXCEPT ![v] = TRUE]
  /\ UNCHANGED <<rpic, m_takeover, remote, online, cmds, fresh, mishaps, faults>>

GoesOnAir(v) ==
  /\ Receives(v, {"ready"}) /\ mode[v] = "awaiting" /\ OwnSession(v)
  /\ Consume(v)
  /\ mode' = [mode EXCEPT ![v] = "active"]
  /\ UNCHANGED <<rpic, m_session, m_takeover, asked, remote, online, cmds, fresh, mishaps, faults>>

(* RPi C answers with an error, or the RTP sender does not start.          *)
IsRefused(v) ==
  /\ Receives(v, {"ready", "error"}) /\ mode[v] = "awaiting" /\ OwnSession(v)
  /\ Consume(v)
  /\ Send(v, STOP(m_session[v]))
  /\ Forget(v)
  /\ UNCHANGED <<rpic, m_takeover, asked, remote, online, fresh, mishaps, faults>>

on_ready(v) == DropAnswer(v) \/ IsBusy(v) \/ GoesOnAir(v) \/ IsRefused(v)

-----------------------------------------------------------------------------
(* RPi C.                                                                  *)

TakeCommand(v) ==
  /\ serving = NoSession /\ cmds[v] # <<>>
  /\ cmds' = [cmds EXCEPT ![v] = Tail(@)]

Unseen == UNCHANGED <<client, online, fresh, mishaps, faults>>

HandleStart(v) ==
  /\ TakeCommand(v) /\ Head(cmds[v]).start
  /\ LET c == Head(cmds[v]) IN
     \/ Arbiter!Take(c.session, c.takeover) /\ UNCHANGED inbox
     \/ ~ c.takeover /\ Arbiter!Busy(c.session) /\ Reply(Answer(c.session, "busy"))
  /\ Unseen

HandleStop(v) ==
  /\ TakeCommand(v) /\ ~ Head(cmds[v]).start
  /\ IF Head(cmds[v]).session = owner THEN Arbiter!End ELSE UNCHANGED rpic
  /\ UNCHANGED inbox /\ Unseen

(* A START is answered once; an announcement follows READY at once, and    *)
(* not before the ends of earlier sessions were told: that takes a line    *)
(* of code, starting the receiver takes tenths of a second.                *)
Unanswered == answer.session # serving
Serve ==
  /\ \/ Unanswered /\ Arbiter!Ready /\ Reply(Answer(serving, "ready"))
     \/ Unanswered /\ (Arbiter!Refuse \/ Arbiter!ReceiverFails) /\ Reply(Answer(serving, "error"))
     \/ ended = {} /\ Arbiter!Announce /\ Publish(StateMessage(TRUE, serving))
     \/ Arbiter!Undo /\ UNCHANGED inbox
  /\ UNCHANGED cmds /\ Unseen

TellEnd(s) ==
  /\ Arbiter!TellEnd(s) /\ s \notin ended'
  /\ Publish(StateMessage(FALSE, s))
  /\ UNCHANGED cmds /\ Unseen

(* A fire: one thread handles it and the commands.                         *)
Fire ==
  /\ serving = NoSession
  /\ Arbiter!End
  /\ UNCHANGED <<inbox, cmds>> /\ Unseen

OnAir(s) == LET v == Client[s] IN mode[v] = "active" /\ m_session[v] = s /\ online[v]

(* Slip: only a VMS whose link is down can be missed.                      *)
ExpireOffline ==
  /\ owner # NoSession /\ ~ online[Client[owner]]
  /\ Arbiter!End
  /\ UNCHANGED <<inbox, cmds>> /\ Unseen

(* Keepalives come from a VMS that is on the air; while a START is served  *)
(* they wait.                                                              *)
Expire ==
  /\ owner # NoSession /\ ~ OnAir(owner) /\ serving # owner
  /\ Arbiter!End
  /\ UNCHANGED <<inbox, cmds>> /\ Unseen

ExpireTooSoon ==
  /\ owner # NoSession
  /\ OnAir(owner) \/ serving = owner
  /\ Suffer("slow")
  /\ Arbiter!End
  /\ UNCHANGED <<inbox, cmds, client, online, fresh>>

(* Commands in transit are lost, and the state is told at reconnection.    *)
Restart ==
  /\ Suffer("restart")
  /\ owner' = NoSession /\ serving' = NoSession /\ ended' = {}
  /\ state' = [active |-> FALSE, session |-> NoSession]
  /\ cmds' = [v \in VMS |-> <<>>]
  /\ Publish(StateMessage(FALSE, NoSession))
  /\ UNCHANGED <<answer, client, online, fresh>>

-----------------------------------------------------------------------------
(* The link of a VMS: clean sessions, and the retained state on            *)
(* subscribing.                                                            *)
LinkDown(v) ==
  /\ Suffer("outage")
  /\ online[v]
  /\ online' = [online EXCEPT ![v] = FALSE]
  /\ inbox' = [inbox EXCEPT ![v] = <<>>]
  /\ cmds' \in {cmds, [cmds EXCEPT ![v] = <<>>]}
  /\ UNCHANGED <<rpic, client, fresh>>

(* Slip: the state is not retained.                                        *)
LinkUpUntold(v) ==
  /\ ~ online[v]
  /\ mode[v] = "idle" \/ "blip" \in Possible
  /\ online' = [online EXCEPT ![v] = TRUE]
  /\ UNCHANGED <<rpic, client, inbox, cmds, fresh, mishaps, faults>>

LinkUp(v) ==
  /\ ~ online[v]
  /\ \/ mode[v] = "idle" /\ UNCHANGED mishaps
     \/ mode[v] # "idle" /\ "blip" \in Possible /\ mishaps' = mishaps \cup {"blip"}
  /\ online' = [online EXCEPT ![v] = TRUE]
  /\ inbox' = [inbox EXCEPT ![v] = <<StateMessage(state.active, state.session)>>]
  /\ UNCHANGED <<rpic, client, cmds, fresh, faults>>

Next ==
  \/ \E v \in VMS :
       \/ ClickOn(v) \/ ClickOnOther(v) \/ Confirm(v) \/ Cancel(v)
       \/ ClickOff(v) \/ on_ready_timeout(v) \/ check_link_alive(v)
       \/ on_remote_state(v) \/ on_ready(v)
       \/ HandleStart(v) \/ HandleStop(v)
       \/ LinkDown(v) \/ LinkUp(v)
  \/ \E s \in Session : TellEnd(s)
  \/ Serve \/ Fire \/ Expire \/ ExpireTooSoon \/ Restart

(* A VMS handles what arrives, its timers fire and its link is tried       *)
(* again; RPi C finishes what it began, and its worker looks at the clock. *)
VmsRuns(v) == on_remote_state(v) \/ on_ready(v) \/ on_ready_timeout(v) \/ check_link_alive(v) \/ LinkUp(v)
RpicRuns == \/ \E v \in VMS : HandleStart(v) \/ HandleStop(v)
            \/ \E s \in Session : TellEnd(s)
            \/ Serve
Fairness == (\A v \in VMS : WF_vars(VmsRuns(v))) /\ WF_vars(RpicRuns) /\ WF_vars(Expire)

Spec == Init /\ [][Next]_vars
FairSpec == Spec /\ Fairness

-----------------------------------------------------------------------------
Id == Session \cup {NoSession}

BroadcastTypeOK ==
  /\ owner \in Id /\ serving \in Id /\ ended \subseteq Session
  /\ state \in [active : BOOLEAN, session : Id]
  /\ answer \in [session : Id, result : {"none", "ready", "busy", "error"}]
  /\ mode \in [VMS -> {"idle", "awaiting", "active"}]
  /\ m_session \in [VMS -> Id] /\ remote \in [VMS -> Id]
  /\ \A v \in VMS : m_session[v] = NoSession <=> mode[v] = "idle"
  /\ m_takeover \in [VMS -> BOOLEAN] /\ asked \in [VMS -> BOOLEAN] /\ online \in [VMS -> BOOLEAN]
  /\ cmds \in [VMS -> Seq([session : Session, start : BOOLEAN, takeover : BOOLEAN])]
  /\ inbox \in [VMS -> Seq([session : Id, says : {"active", "over", "ready", "busy", "error"}])]
  /\ fresh \subseteq Session /\ mishaps \subseteq Mishap

(* A VMS that is on the air without owning the speaker is going to hear of *)
(* it: the end of its session is about to be told, or on its way to it.    *)
Heard(v) == m_session[v] \in ended \/ \E i \in DOMAIN inbox[v] : inbox[v][i] = StateMessage(FALSE, m_session[v])
Calm == mishaps \subseteq {"outage", "slow"}
EndIsHeard ==
  Calm => \A v \in VMS : (mode[v] = "active" /\ online[v]) => (owner = m_session[v] \/ Heard(v))

(* No VMS stays on the air without the speaker.                            *)
OnAirIsOwner == \A v \in VMS : []<>(mode[v] = "active" => owner = m_session[v])

(* The speaker is not kept for a session that nobody broadcasts in.        *)
NobodyHoldsInSilence == \A s \in Session : (owner = s) ~> (owner # s \/ OnAir(s))

(* Once everything is told and handled, a VMS shows who owns the speaker.  *)
Settled(v) ==
  /\ online[v] /\ inbox[v] = <<>>
  /\ ended = {} /\ serving = NoSession
  /\ owner # NoSession => OnAir(owner)
DisplayIsOwner == "slow" \notin mishaps => \A v \in VMS : Settled(v) => remote[v] = owner

(* Nobody's broadcast is taken over unless its taker was asked just now.   *)
NoSilentTakeover ==
  [][\A v \in VMS : \A c \in {cmds'[v][i] : i \in DOMAIN cmds'[v] \ DOMAIN cmds[v]} :
       c.takeover => asked[v]]_vars
=============================================================================
