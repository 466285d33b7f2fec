--------------------------- MODULE BroadcastProofs ---------------------------
(***************************************************************************)
(* For every number of VMSs and of sessions a VMS that lost the speaker is *)
(* going to hear of it.  A VMS goes on the air by a READY that took its    *)
(* time, so the invariant follows the session from the moment its START is *)
(* served: from then on it owns the speaker, or its end is on the way.     *)
(* What a VMS shows is the last state it heard, so a second invariant      *)
(* relates the states on their way to the retained one, and that one to    *)
(* the owner.                                                              *)
(***************************************************************************)
EXTENDS Broadcast, TLAPS

Message == [session : Id, says : {"active", "over", "ready", "busy", "error"}]
Command == [session : Session, start : BOOLEAN, takeover : BOOLEAN]

Has(q, x) == \E i \in DOMAIN q : q[i] = x

(* The VMS is on the air, or will be if nothing comes between.             *)
Committed(v) ==
  /\ online[v] /\ mode[v] # "idle"
  /\ \/ mode[v] = "active" \/ serving = m_session[v]
     \/ Has(inbox[v], Answer(m_session[v], "ready"))

OwnsOrHears(v) ==
  owner = m_session[v] \/ m_session[v] \in ended \/ Has(inbox[v], StateMessage(FALSE, m_session[v]))

(* RPi C has not heard of a session before it is drawn.                    *)
Undrawn(s) ==
  /\ serving # s
  /\ \A v \in VMS : /\ ~ Has(inbox[v], Answer(s, "ready"))
                    /\ \A c \in Command : c.start /\ c.session = s => ~ Has(cmds[v], c)

NoneIsDeaf == Calm => \A v \in VMS : Committed(v) => OwnsOrHears(v)
FreshIsUnknown == \A s \in fresh : Undrawn(s)
BroadcastInv == BroadcastTypeOK /\ FreshIsUnknown /\ NoneIsDeaf

-----------------------------------------------------------------------------
(* Queues: what is in them after an element came or went.                  *)

LEMMA AppendHas ==
  ASSUME NEW S, NEW q \in Seq(S), NEW m \in S
  PROVE  /\ Append(q, m) \in Seq(S)
         /\ \A x : Has(Append(q, m), x) <=> Has(q, x) \/ x = m
<1>1. Append(q, m) \in Seq(S) /\ DOMAIN Append(q, m) = 1 .. Len(q) + 1 /\ DOMAIN q = 1 .. Len(q) /\ Len(q) \in Nat
  OBVIOUS
<1>2. Append(q, m)[Len(q) + 1] = m /\ \A i \in 1 .. Len(q) : Append(q, m)[i] = q[i]
  OBVIOUS
<1> QED
  BY <1>1, <1>2 DEF Has

LEMMA TailHas ==
  ASSUME NEW S, NEW q \in Seq(S), q # << >>
  PROVE  /\ Tail(q) \in Seq(S) /\ Head(q) \in S /\ Has(q, Head(q))
         /\ \A x : Has(Tail(q), x) => Has(q, x)
         /\ \A x : Has(q, x) /\ x # Head(q) => Has(Tail(q), x)
<1>1. /\ Tail(q) \in Seq(S) /\ Head(q) \in S /\ Head(q) = q[1]
      /\ Len(q) \in Nat /\ Len(q) > 0
      /\ DOMAIN q = 1 .. Len(q) /\ DOMAIN Tail(q) = 1 .. Len(q) - 1
      /\ \A i \in 1 .. Len(q) - 1 : Tail(q)[i] = q[i + 1]
  OBVIOUS
<1>2. \A i \in 1 .. Len(q) : i # 1 => i - 1 \in 1 .. Len(q) - 1 /\ Tail(q)[i - 1] = q[i]
  BY <1>1
<1>3. \A i \in 1 .. Len(q) - 1 : i + 1 \in 1 .. Len(q)
  BY <1>1
<1>4. Has(q, Head(q))
  BY <1>1 DEF Has
<1>5. ASSUME NEW x, Has(Tail(q), x) PROVE Has(q, x)
  BY <1>1, <1>3, <1>5 DEF Has
<1>6. ASSUME NEW x, Has(q, x), x # Head(q) PROVE Has(Tail(q), x)
  <2>1. PICK i \in 1 .. Len(q) : q[i] = x
    BY <1>1, <1>6 DEF Has
  <2>2. i - 1 \in DOMAIN Tail(q) /\ Tail(q)[i - 1] = x
    BY <1>1, <1>2, <1>6, <2>1
  <2> QED
    BY <2>2 DEF Has
<1> QED
  BY <1>1, <1>4, <1>5, <1>6

LEMMA Sends ==
  ASSUME BroadcastTypeOK, NEW v \in VMS, NEW c \in Command, Send(v, c)
  PROVE  /\ cmds' \in [VMS -> Seq(Command)]
         /\ \A w \in VMS : \A x : Has(cmds'[w], x) => Has(cmds[w], x) \/ (x = c /\ w = v)
<1>1. cmds \in [VMS -> Seq(Command)]
  BY DEF BroadcastTypeOK, Command
<1>2. cmds[v] \in Seq(Command)
  BY <1>1
<1>3. Append(cmds[v], c) \in Seq(Command) /\ \A x : Has(Append(cmds[v], c), x) => Has(cmds[v], x) \/ x = c
  BY <1>2, AppendHas
<1> QED
  BY <1>1, <1>3 DEF Send

LEMMA Takes ==
  ASSUME BroadcastTypeOK, NEW v \in VMS, TakeCommand(v)
  PROVE  /\ cmds' \in [VMS -> Seq(Command)]
         /\ Head(cmds[v]) \in Command /\ Has(cmds[v], Head(cmds[v]))
         /\ \A w \in VMS : \A x : Has(cmds'[w], x) => Has(cmds[w], x)
<1>1. cmds \in [VMS -> Seq(Command)]
  BY DEF BroadcastTypeOK, Command
<1>2. cmds[v] \in Seq(Command) /\ cmds[v] # << >> /\ cmds' = [cmds EXCEPT ![v] = Tail(@)]
  BY <1>1 DEF TakeCommand
<1>3. /\ Tail(cmds[v]) \in Seq(Command) /\ Head(cmds[v]) \in Command /\ Has(cmds[v], Head(cmds[v]))
      /\ \A x : Has(Tail(cmds[v]), x) => Has(cmds[v], x)
  BY <1>2, TailHas
<1> QED
  BY <1>1, <1>2, <1>3

(* Messages that come: nothing is lost, and m is all that is new.          *)
Grows(m) ==
  /\ inbox' \in [VMS -> Seq(Message)]
  /\ \A w \in VMS : \A x : Has(inbox[w], x) => Has(inbox'[w], x)
  /\ \A w \in VMS : \A x : Has(inbox'[w], x) => Has(inbox[w], x) \/ x = m

LEMMA Publishes ==
  ASSUME BroadcastTypeOK, NEW m \in Message, Publish(m)
  PROVE  Grows(m) /\ \A w \in VMS : online[w] => Has(inbox'[w], m)
<1>1. inbox \in [VMS -> Seq(Message)]
  BY DEF BroadcastTypeOK, Message
<1>2. \A w \in VMS : /\ Append(inbox[w], m) \in Seq(Message)
                     /\ \A x : Has(Append(inbox[w], m), x) <=> Has(inbox[w], x) \/ x = m
  BY <1>1, AppendHas
<1> QED
  BY <1>1, <1>2 DEF Publish, Grows

LEMMA Replies ==
  ASSUME BroadcastTypeOK, NEW m \in Message, Reply(m)
  PROVE  Grows(m)
<1>1. inbox \in [VMS -> Seq(Message)]
  BY DEF BroadcastTypeOK, Message
<1>2. \A w \in VMS : /\ Append(inbox[w], m) \in Seq(Message)
                     /\ \A x : Has(Append(inbox[w], m), x) <=> Has(inbox[w], x) \/ x = m
  BY <1>1, AppendHas
<1>3. inbox' = [inbox EXCEPT ![Client[m.session]] = Append(@, m)] \/ inbox' = inbox
  BY DEF Reply
<1> QED
  BY <1>1, <1>2, <1>3 DEF Grows

LEMMA Consumes ==
  ASSUME BroadcastTypeOK, NEW v \in VMS, inbox[v] # << >>, Consume(v)
  PROVE  /\ inbox' \in [VMS -> Seq(Message)]
         /\ Head(inbox[v]) \in Message /\ Has(inbox[v], Head(inbox[v]))
         /\ \A w \in VMS : \A x : Has(inbox'[w], x) => Has(inbox[w], x)
         /\ \A w \in VMS : \A x : Has(inbox[w], x) /\ (x # Head(inbox[v]) \/ w # v) => Has(inbox'[w], x)
<1>1. inbox \in [VMS -> Seq(Message)]
  BY DEF BroadcastTypeOK, Message
<1>2. inbox[v] \in Seq(Message)
  BY <1>1
<1>3. /\ Tail(inbox[v]) \in Seq(Message) /\ Head(inbox[v]) \in Message /\ Has(inbox[v], Head(inbox[v]))
      /\ \A x : Has(Tail(inbox[v]), x) => Has(inbox[v], x)
      /\ \A x : Has(inbox[v], x) /\ x # Head(inbox[v]) => Has(Tail(inbox[v]), x)
  BY <1>2, TailHas
<1> QED
  BY <1>1, <1>3 DEF Consume

-----------------------------------------------------------------------------
(* Types.                                                                  *)

(* The type invariant in three parts: RPi C, the VMSs, and the rest.       *)
RpicTypes ==
  /\ owner \in Id /\ serving \in Id /\ ended \subseteq Session
  /\ state \in [active : BOOLEAN, session : Id]
  /\ answer \in [session : Id, result : {"none", "ready", "busy", "error"}]

ClientTypes ==
  /\ mode \in [VMS -> {"idle", "awaiting", "active"}]
  /\ m_session \in [VMS -> Id] /\ remote \in [VMS -> Id]
  /\ \A v \in VMS : m_session[v] = NoSession <=> mode[v] = "idle"
  /\ m_takeover \in [VMS -> BOOLEAN] /\ asked \in [VMS -> BOOLEAN]

WorldTypes ==
  /\ online \in [VMS -> BOOLEAN]
  /\ cmds \in [VMS -> Seq(Command)] /\ inbox \in [VMS -> Seq(Message)]
  /\ fresh \subseteq Session /\ mishaps \subseteq Mishap

LEMMA TypeParts == BroadcastTypeOK <=> RpicTypes /\ ClientTypes /\ WorldTypes
  BY DEF BroadcastTypeOK, RpicTypes, ClientTypes, WorldTypes, Command, Message

LEMMA NextTypeParts == RpicTypes' /\ ClientTypes' /\ WorldTypes' => BroadcastTypeOK'
  BY DEF BroadcastTypeOK, RpicTypes, ClientTypes, WorldTypes, Command, Message

LEMMA Commands ==
  ASSUME NEW s \in Session, NEW t \in BOOLEAN
  PROVE  START(s, t) \in Command /\ STOP(s) \in Command
  BY DEF START, STOP, Command

LEMMA ForgetTypes ==
  ASSUME ClientTypes, NEW v \in VMS, Forget(v)
  PROVE  /\ mode' \in [VMS -> {"idle", "awaiting", "active"}] /\ m_session' \in [VMS -> Id]
         /\ \A w \in VMS : m_session'[w] = NoSession <=> mode'[w] = "idle"
  BY DEF ClientTypes, Forget, Id

LEMMA ArbiterTypes ==
  ASSUME RpicTypes,
         \/ \E s \in Session : Arbiter!Busy(s) \/ Arbiter!TellEnd(s) \/ \E t \in BOOLEAN : Arbiter!Take(s, t)
         \/ Arbiter!Ready \/ Arbiter!Announce \/ Arbiter!Refuse \/ Arbiter!ReceiverFails \/ Arbiter!Undo \/ Arbiter!End
         \/ UNCHANGED rpic
  PROVE  RpicTypes'
<1> DEFINE Given == [session : Id, result : {"none", "ready", "busy", "error"}]
<1> DEFINE Told == [active : BOOLEAN, session : Id]
<1>0. /\ \A s \in Id, r \in {"ready", "busy", "error"} : [session |-> s, result |-> r] \in Given
      /\ \A s \in Id, b \in BOOLEAN : [active |-> b, session |-> s] \in Told
  OBVIOUS
<1> USE SessionAssumption DEF RpicTypes, Id, Arbiter!Ended
<1>1. ASSUME NEW s \in Session, Arbiter!Busy(s) \/ Arbiter!TellEnd(s) PROVE RpicTypes'
  <2>1. answer' \in Given
    BY <1>0, <1>1 DEF Arbiter!Busy, Arbiter!TellEnd
  <2>2. state' \in Told
    BY <1>0, <1>1 DEF Arbiter!Busy, Arbiter!TellEnd
  <2>3. owner' \in Id /\ serving' \in Id /\ ended' \subseteq Session
    BY <1>1 DEF Arbiter!Busy, Arbiter!TellEnd
  <2> QED
    BY <2>1, <2>2, <2>3
<1>2. ASSUME NEW s \in Session, NEW t \in BOOLEAN, Arbiter!Take(s, t) PROVE RpicTypes'
  BY <1>2 DEF Arbiter!Take
<1>3. CASE Arbiter!Ready \/ Arbiter!Announce \/ Arbiter!Refuse \/ Arbiter!ReceiverFails
  <2>1. answer' \in Given
    BY <1>0, <1>3 DEF Arbiter!Ready, Arbiter!Announce, Arbiter!Refuse, Arbiter!ReceiverFails
  <2>2. state' \in Told
    BY <1>0, <1>3 DEF Arbiter!Ready, Arbiter!Announce, Arbiter!Refuse, Arbiter!ReceiverFails
  <2>3. owner' \in Id /\ serving' \in Id /\ ended' \subseteq Session
    BY <1>3 DEF Arbiter!Ready, Arbiter!Announce, Arbiter!Refuse, Arbiter!ReceiverFails
  <2> QED
    BY <2>1, <2>2, <2>3
<1>4. CASE Arbiter!Undo \/ Arbiter!End \/ UNCHANGED rpic
  BY <1>4 DEF Arbiter!Undo, Arbiter!End, rpic
<1> QED
  BY <1>1, <1>2, <1>3, <1>4

LEMMA MishapTypes ==
  ASSUME NEW m \in Mishap, mishaps \subseteq Mishap, Suffer(m)
  PROVE  mishaps' \subseteq Mishap
  BY DEF Suffer

LEMMA OperatorTypes ==
  ASSUME BroadcastTypeOK, NEW v \in VMS,
         \/ ClickOn(v) \/ ClickOnOther(v) \/ Confirm(v) \/ Cancel(v)
         \/ ClickOff(v) \/ on_ready_timeout(v) \/ check_link_alive(v)
  PROVE  BroadcastTypeOK'
<1> USE SessionAssumption
<1>1. RpicTypes /\ ClientTypes /\ WorldTypes
  BY TypeParts
<1>2. ASSUME NEW t \in BOOLEAN, start(v, t)
      PROVE  /\ cmds' \in [VMS -> Seq(Command)] /\ fresh' \subseteq Session
             /\ mode' \in [VMS -> {"idle", "awaiting", "active"}] /\ m_session' \in [VMS -> Id]
             /\ \A w \in VMS : m_session'[w] = NoSession <=> mode'[w] = "idle"
             /\ m_takeover' \in [VMS -> BOOLEAN]
  <2>1. PICK s \in fresh : /\ fresh' = fresh \ {s} /\ m_session' = [m_session EXCEPT ![v] = s]
                           /\ Send(v, START(s, t))
    BY <1>2 DEF start
  <2>2. s \in Session /\ s # NoSession
    BY <1>1, <2>1 DEF WorldTypes
  <2>3. cmds' \in [VMS -> Seq(Command)]
    BY <1>1, <2>1, <2>2, Commands, Sends
  <2> QED
    BY <1>1, <1>2, <2>1, <2>2, <2>3 DEF start, ClientTypes, WorldTypes, Id
<1>3. CASE ClickOn(v)
  <2>1. start(v, m_takeover[v]) /\ m_takeover[v] \in BOOLEAN
    BY <1>1, <1>3 DEF ClickOn, ClientTypes
  <2> QED
    BY <1>1, <1>2, <1>3, <2>1, NextTypeParts DEF ClickOn, RpicTypes, ClientTypes, WorldTypes, rpic
<1>4. CASE Confirm(v)
  <2>1. CASE start(v, TRUE)
    BY <1>1, <1>2, <1>4, <2>1, NextTypeParts DEF Confirm, RpicTypes, ClientTypes, WorldTypes, rpic
  <2>2. CASE ~ start(v, TRUE)
    BY <1>1, <1>4, <2>2, NextTypeParts DEF Confirm, RpicTypes, ClientTypes, WorldTypes, rpic
  <2> QED
    BY <2>1, <2>2
<1>5. CASE ClickOnOther(v) \/ Cancel(v)
  BY <1>1, <1>5, NextTypeParts DEF ClickOnOther, Cancel, RpicTypes, ClientTypes, WorldTypes, rpic
<1>6. CASE ClickOff(v) \/ on_ready_timeout(v)
  <2>1. stop(v)
    BY <1>6 DEF ClickOff, on_ready_timeout
  <2>2. m_session[v] \in Session
    BY <1>1, <2>1 DEF stop, ClientTypes, Id
  <2>3. cmds' \in [VMS -> Seq(Command)]
    BY <2>1, <2>2, Commands, Sends DEF stop
  <2> QED
    BY <1>1, <2>1, <2>3, ForgetTypes, NextTypeParts DEF stop, RpicTypes, ClientTypes, WorldTypes, rpic
<1>7. CASE check_link_alive(v)
  BY <1>1, <1>7, ForgetTypes, NextTypeParts DEF check_link_alive, RpicTypes, ClientTypes, WorldTypes, rpic
<1> QED
  BY <1>3, <1>4, <1>5, <1>6, <1>7

LEMMA MessageTypes ==
  ASSUME BroadcastTypeOK, NEW v \in VMS, on_remote_state(v) \/ on_ready(v)
  PROVE  BroadcastTypeOK'
<1> USE SessionAssumption
<1>1. RpicTypes /\ ClientTypes /\ WorldTypes
  BY TypeParts
<1>2. inbox[v] # << >> /\ Consume(v)
  BY DEF on_remote_state, on_ready, DropAnswer, IsBusy, GoesOnAir, IsRefused, Receives
<1>3. inbox' \in [VMS -> Seq(Message)] /\ Head(inbox[v]) \in Message
  BY <1>2, Consumes
<1>4. CASE on_remote_state(v)
  <2>1. remote' \in [VMS -> Id]
    BY <1>1, <1>3, <1>4 DEF on_remote_state, ClientTypes, Message, Id
  <2>2. CASE Forget(v)
    BY <1>1, <1>3, <1>4, <2>1, <2>2, ForgetTypes, NextTypeParts DEF on_remote_state, RpicTypes, ClientTypes, WorldTypes, rpic
  <2>3. CASE UNCHANGED <<mode, m_session>>
    BY <1>1, <1>3, <1>4, <2>1, <2>3, NextTypeParts DEF on_remote_state, RpicTypes, ClientTypes, WorldTypes, rpic
  <2> QED
    BY <1>4, <2>2, <2>3 DEF on_remote_state
<1>5. CASE DropAnswer(v)
  BY <1>1, <1>3, <1>5, NextTypeParts DEF DropAnswer, RpicTypes, ClientTypes, WorldTypes, rpic, client
<1>6. CASE IsBusy(v)
  BY <1>1, <1>3, <1>6, ForgetTypes, NextTypeParts DEF IsBusy, RpicTypes, ClientTypes, WorldTypes, rpic
<1>7. CASE GoesOnAir(v)
  BY <1>1, <1>3, <1>7, NextTypeParts DEF GoesOnAir, RpicTypes, ClientTypes, WorldTypes, rpic
<1>8. CASE IsRefused(v)
  <2>1. m_session[v] \in Session
    BY <1>1, <1>8 DEF IsRefused, ClientTypes, Id
  <2>2. cmds' \in [VMS -> Seq(Command)]
    BY <1>8, <2>1, Commands, Sends DEF IsRefused
  <2> QED
    BY <1>1, <1>3, <1>8, <2>2, ForgetTypes, NextTypeParts DEF IsRefused, RpicTypes, ClientTypes, WorldTypes, rpic
<1> QED
  BY <1>4, <1>5, <1>6, <1>7, <1>8 DEF on_ready

LEMMA RpicStepTypes ==
  ASSUME BroadcastTypeOK,
         \/ \E v \in VMS : HandleStart(v) \/ HandleStop(v)
         \/ \E s \in Session : TellEnd(s)
         \/ Serve \/ Fire \/ Expire \/ ExpireTooSoon \/ Restart
  PROVE  BroadcastTypeOK'
<1> USE SessionAssumption
<1>1. RpicTypes /\ ClientTypes /\ WorldTypes
  BY TypeParts
<1>2. ASSUME UNCHANGED client PROVE ClientTypes'
  BY <1>1, <1>2 DEF client, ClientTypes
<1>3. ASSUME NEW v \in VMS, HandleStart(v) PROVE BroadcastTypeOK'
  <2> DEFINE c == Head(cmds[v])
  <2>1. c \in Command /\ cmds' \in [VMS -> Seq(Command)]
    BY <1>3, Takes DEF HandleStart
  <2>2. c.session \in Session /\ c.takeover \in BOOLEAN
    BY <2>1 DEF Command
  <2>3. RpicTypes'
    BY <1>1, <1>3, <2>2, ArbiterTypes DEF HandleStart
  <2>4. Answer(c.session, "busy") \in Message
    BY <2>2 DEF Answer, Message, Id
  <2>5. inbox' \in [VMS -> Seq(Message)]
    BY <1>1, <1>3, <2>4, Replies DEF HandleStart, Grows, WorldTypes
  <2> QED
    BY <1>1, <1>2, <1>3, <2>1, <2>3, <2>5, NextTypeParts DEF HandleStart, Unseen, WorldTypes
<1>4. ASSUME NEW v \in VMS, HandleStop(v) PROVE BroadcastTypeOK'
  <2>1. cmds' \in [VMS -> Seq(Command)]
    BY <1>4, Takes DEF HandleStop
  <2>2. RpicTypes'
    BY <1>1, <1>4, ArbiterTypes DEF HandleStop
  <2> QED
    BY <1>1, <1>2, <1>4, <2>1, <2>2, NextTypeParts DEF HandleStop, Unseen, WorldTypes
<1>5. ASSUME NEW s \in Session, TellEnd(s) PROVE BroadcastTypeOK'
  <2>1. RpicTypes'
    BY <1>1, <1>5, ArbiterTypes DEF TellEnd
  <2>2. StateMessage(FALSE, s) \in Message
    BY DEF StateMessage, Message, Id
  <2>3. inbox' \in [VMS -> Seq(Message)]
    BY <1>5, <2>2, Publishes DEF TellEnd, Grows
  <2> QED
    BY <1>1, <1>2, <1>5, <2>1, <2>3, NextTypeParts DEF TellEnd, Unseen, WorldTypes
<1>6. CASE Serve
  <2>1. RpicTypes'
    BY <1>1, <1>6, ArbiterTypes DEF Serve
  <2>2. serving \in Session
    BY <1>1, <1>6 DEF Serve, RpicTypes, Id, Arbiter!Ready, Arbiter!Refuse, Arbiter!ReceiverFails, Arbiter!Announce, Arbiter!Undo
  <2>3. /\ Answer(serving, "ready") \in Message /\ Answer(serving, "error") \in Message
        /\ StateMessage(TRUE, serving) \in Message
    BY <2>2 DEF Answer, StateMessage, Message, Id
  <2>4. inbox' \in [VMS -> Seq(Message)]
    BY <1>1, <1>6, <2>3, Replies, Publishes DEF Serve, Grows, WorldTypes
  <2> QED
    BY <1>1, <1>2, <1>6, <2>1, <2>4, NextTypeParts DEF Serve, Unseen, WorldTypes
<1>7. CASE Fire \/ Expire \/ ExpireTooSoon
  <2>1. RpicTypes'
    BY <1>1, <1>7, ArbiterTypes DEF Fire, Expire, ExpireTooSoon
  <2>2. mishaps' \subseteq Mishap
    BY <1>1, <1>7, MishapTypes DEF Fire, Expire, ExpireTooSoon, Unseen, WorldTypes, Mishap
  <2> QED
    BY <1>1, <1>2, <1>7, <2>1, <2>2, NextTypeParts DEF Fire, Expire, ExpireTooSoon, Unseen, WorldTypes
<1>8. CASE Restart
  <2>1. RpicTypes'
    BY <1>1, <1>8 DEF Restart, RpicTypes, Id
  <2>2. StateMessage(FALSE, NoSession) \in Message
    BY DEF StateMessage, Message, Id
  <2>3. inbox' \in [VMS -> Seq(Message)]
    BY <1>8, <2>2, Publishes DEF Restart, Grows
  <2>4. mishaps' \subseteq Mishap
    BY <1>1, <1>8, MishapTypes DEF Restart, WorldTypes, Mishap
  <2>5. cmds' \in [VMS -> Seq(Command)]
    BY <1>8 DEF Restart
  <2> QED
    BY <1>1, <1>2, <1>8, <2>1, <2>3, <2>4, <2>5, NextTypeParts DEF Restart, WorldTypes
<1> QED
  BY <1>3, <1>4, <1>5, <1>6, <1>7, <1>8

LEMMA LinkTypes ==
  ASSUME BroadcastTypeOK, NEW v \in VMS, LinkDown(v) \/ LinkUp(v)
  PROVE  BroadcastTypeOK'
<1>1. RpicTypes /\ ClientTypes /\ WorldTypes
  BY TypeParts
<1>2. RpicTypes' /\ ClientTypes'
  BY <1>1 DEF LinkDown, LinkUp, RpicTypes, ClientTypes, rpic, client
<1>3. online' \in [VMS -> BOOLEAN] /\ fresh' \subseteq Session /\ mishaps' \subseteq Mishap
  BY <1>1, MishapTypes DEF LinkDown, LinkUp, WorldTypes, Mishap
<1>4. cmds' \in [VMS -> Seq(Command)]
  <2>1. << >> \in Seq(Command)
    OBVIOUS
  <2> QED
    BY <1>1, <2>1 DEF LinkDown, LinkUp, WorldTypes
<1>5. << >> \in Seq(Message) /\ <<StateMessage(state.active, state.session)>> \in Seq(Message)
  <2>1. StateMessage(state.active, state.session) \in Message
    BY <1>1 DEF StateMessage, Message, RpicTypes
  <2> QED
    BY <2>1
<1>6. inbox' \in [VMS -> Seq(Message)]
  BY <1>1, <1>5 DEF LinkDown, LinkUp, WorldTypes
<1> QED
  BY <1>2, <1>3, <1>4, <1>6, NextTypeParts DEF WorldTypes

LEMMA StepTypes == BroadcastTypeOK /\ [Next]_vars => BroadcastTypeOK'
<1> SUFFICES ASSUME BroadcastTypeOK, [Next]_vars PROVE BroadcastTypeOK'
  OBVIOUS
<1>0. RpicTypes /\ ClientTypes /\ WorldTypes
  BY TypeParts
<1>1. CASE UNCHANGED vars
  BY <1>0, <1>1, NextTypeParts DEF vars, rpic, client, RpicTypes, ClientTypes, WorldTypes
<1> QED
  BY <1>1, OperatorTypes, MessageTypes, RpicStepTypes, LinkTypes DEF Next

LEMMA InitTypes == Init => BroadcastTypeOK
<1> SUFFICES ASSUME Init PROVE BroadcastTypeOK
  OBVIOUS
<1>1. RpicTypes
  BY DEF Init, Arbiter!Init, RpicTypes, Id
<1>2. ClientTypes
  BY DEF Init, ClientTypes, Id
<1>3. WorldTypes
  BY BoundAssumption DEF Init, WorldTypes
<1> QED
  BY <1>1, <1>2, <1>3, TypeParts

(* The type invariant of the VMSs, the speaker and the messages between    *)
(* them (broadcast_controller.h, audio_arbiter.c).                         *)
THEOREM BroadcastTypes == Spec => []BroadcastTypeOK
  BY InitTypes, StepTypes, PTL DEF Spec

-----------------------------------------------------------------------------
(* Who lost the speaker hears of it.                                       *)

LEMMA SessionIsDrawn ==
  ASSUME BroadcastTypeOK, NEW v \in VMS, mode[v] # "idle"
  PROVE  m_session[v] \in Session /\ m_session[v] # NoSession
  BY SessionAssumption DEF BroadcastTypeOK, Id

(* The operator and the timers.  A session that is drawn is unknown to     *)
(* RPi C, so a VMS that has just drawn it is not committed.                *)
LEMMA OperatorInv ==
  ASSUME BroadcastInv, NEW v \in VMS,
         \/ ClickOn(v) \/ ClickOnOther(v) \/ Confirm(v) \/ Cancel(v)
         \/ ClickOff(v) \/ on_ready_timeout(v) \/ check_link_alive(v)
  PROVE  FreshIsUnknown' /\ NoneIsDeaf'
<1>1. BroadcastTypeOK /\ FreshIsUnknown /\ NoneIsDeaf
  BY DEF BroadcastInv
<1>2. UNCHANGED <<owner, serving, ended, inbox, online, mishaps>>
  BY DEF ClickOn, ClickOnOther, Confirm, Cancel, ClickOff, on_ready_timeout, check_link_alive, stop, rpic
<1>3. \A w \in VMS : w # v => mode'[w] = mode[w] /\ m_session'[w] = m_session[w]
  BY <1>1 DEF ClickOn, ClickOnOther, Confirm, Cancel, ClickOff, on_ready_timeout, check_link_alive, stop, start, Forget, BroadcastTypeOK
<1>4. ASSUME NEW t \in BOOLEAN, start(v, t)
      PROVE  /\ FreshIsUnknown'
             /\ mode'[v] = "awaiting" /\ m_session'[v] \in fresh
  <2>1. PICK s \in fresh : /\ fresh' = fresh \ {s} /\ m_session' = [m_session EXCEPT ![v] = s]
                           /\ Send(v, START(s, t))
    BY <1>4 DEF start
  <2>2. START(s, t) \in Command /\ START(s, t).session = s
    BY <1>1, <2>1, Commands DEF BroadcastTypeOK, START
  <2>3. \A w \in VMS : \A x : Has(cmds'[w], x) => Has(cmds[w], x) \/ x = START(s, t)
    BY <1>1, <2>1, <2>2, Sends
  <2>4. ASSUME NEW r \in fresh' PROVE Undrawn(r)'
    <3>1. r \in fresh /\ r # s /\ Undrawn(r)
      BY <1>1, <2>1, <2>4 DEF FreshIsUnknown
    <3> QED
      BY <1>2, <2>2, <2>3, <3>1 DEF Undrawn
  <2> QED
    BY <1>1, <1>4, <2>1, <2>4 DEF start, FreshIsUnknown, BroadcastTypeOK
<1>5. ASSUME UNCHANGED <<cmds, fresh>> PROVE FreshIsUnknown'
  BY <1>1, <1>2, <1>5 DEF FreshIsUnknown, Undrawn
<1>6. ASSUME stop(v) PROVE FreshIsUnknown'
  <2>1. m_session[v] \in Session
    BY <1>1, <1>6, SessionIsDrawn DEF stop
  <2>2. STOP(m_session[v]) \in Command /\ ~ STOP(m_session[v]).start
    BY <2>1, Commands DEF STOP
  <2>3. \A w \in VMS : \A x : Has(cmds'[w], x) => Has(cmds[w], x) \/ x = STOP(m_session[v])
    BY <1>1, <1>6, <2>2, Sends DEF stop
  <2>4. fresh' = fresh
    BY <1>6 DEF stop
  <2>5. ASSUME NEW r \in fresh PROVE Undrawn(r)'
    <3>1. Undrawn(r)
      BY <1>1 DEF FreshIsUnknown
    <3> QED
      BY <1>2, <2>2, <2>3, <3>1 DEF Undrawn
  <2> QED
    BY <2>4, <2>5 DEF FreshIsUnknown
<1>7. m_takeover[v] \in BOOLEAN
  BY <1>1 DEF BroadcastTypeOK
<1>8. FreshIsUnknown'
  BY <1>4, <1>5, <1>6, <1>7 DEF ClickOn, ClickOnOther, Confirm, Cancel, ClickOff, on_ready_timeout, check_link_alive
<1>9. \/ mode'[v] = mode[v] /\ m_session'[v] = m_session[v]
      \/ mode'[v] = "idle"
      \/ mode'[v] = "awaiting" /\ m_session'[v] \in fresh
  BY <1>1, <1>4, <1>7 DEF ClickOn, ClickOnOther, Confirm, Cancel, ClickOff, on_ready_timeout, check_link_alive, stop, Forget, BroadcastTypeOK
<1>10. ASSUME Calm', NEW w \in VMS, Committed(w)' PROVE OwnsOrHears(w)'
  <2>1. mode'[w] = mode[w] /\ m_session'[w] = m_session[w]
    <3>1. CASE w = v /\ mode'[v] = "awaiting" /\ m_session'[v] \in fresh
      <4>1. Undrawn(m_session'[v])
        BY <1>1, <3>1 DEF FreshIsUnknown
      <4> QED
        BY <1>2, <1>10, <3>1, <4>1 DEF Undrawn, Committed
    <3> QED
      BY <1>3, <1>9, <1>10, <3>1 DEF Committed
  <2>2. Committed(w) /\ Calm
    BY <1>2, <1>10, <2>1 DEF Committed, Calm
  <2> QED
    BY <1>1, <1>2, <2>1, <2>2 DEF NoneIsDeaf, OwnsOrHears
<1> QED
  BY <1>8, <1>10 DEF NoneIsDeaf

(* What a VMS hears: READY commits it no more than it was, and the end of  *)
(* its own session is not consumed in vain.                                *)
LEMMA MessageInv ==
  ASSUME BroadcastInv, NEW v \in VMS, on_remote_state(v) \/ on_ready(v)
  PROVE  FreshIsUnknown' /\ NoneIsDeaf'
<1> DEFINE m == Head(inbox[v])
<1>1. BroadcastTypeOK /\ FreshIsUnknown /\ NoneIsDeaf
  BY DEF BroadcastInv
<1>2. inbox[v] # << >> /\ Consume(v)
  BY DEF on_remote_state, on_ready, DropAnswer, IsBusy, GoesOnAir, IsRefused, Receives
<1>3. UNCHANGED <<owner, serving, ended, online, fresh, mishaps>>
  BY DEF on_remote_state, on_ready, DropAnswer, IsBusy, GoesOnAir, IsRefused, rpic
<1>4. /\ m \in Message /\ Has(inbox[v], m)
      /\ \A w \in VMS : \A x : Has(inbox'[w], x) => Has(inbox[w], x)
      /\ \A w \in VMS : \A x : Has(inbox[w], x) /\ (x # m \/ w # v) => Has(inbox'[w], x)
  BY <1>1, <1>2, Consumes
<1> HIDE DEF m
<1>5. ASSUME UNCHANGED cmds PROVE FreshIsUnknown'
  BY <1>1, <1>3, <1>4, <1>5 DEF FreshIsUnknown, Undrawn
<1>6. ASSUME IsRefused(v) PROVE FreshIsUnknown'
  <2>1. m_session[v] \in Session
    BY <1>1, <1>6, SessionIsDrawn DEF IsRefused
  <2>2. STOP(m_session[v]) \in Command /\ ~ STOP(m_session[v]).start
    BY <2>1, Commands DEF STOP
  <2>3. \A w \in VMS : \A x : Has(cmds'[w], x) => Has(cmds[w], x) \/ x = STOP(m_session[v])
    BY <1>1, <1>6, <2>2, Sends DEF IsRefused
  <2>4. ASSUME NEW r \in fresh PROVE Undrawn(r)'
    <3>1. Undrawn(r)
      BY <1>1 DEF FreshIsUnknown
    <3> QED
      BY <1>3, <1>4, <2>2, <2>3, <3>1 DEF Undrawn
  <2> QED
    BY <1>3, <2>4 DEF FreshIsUnknown
<1>7. FreshIsUnknown'
  BY <1>5, <1>6 DEF on_remote_state, on_ready, DropAnswer, IsBusy, GoesOnAir, client
<1>8. \A w \in VMS : w # v => mode'[w] = mode[w] /\ m_session'[w] = m_session[w]
  BY <1>1 DEF on_remote_state, on_ready, DropAnswer, IsBusy, GoesOnAir, IsRefused, Forget, client, BroadcastTypeOK
<1>9. \/ mode'[v] = "idle"
      \/ mode'[v] = mode[v] /\ m_session'[v] = m_session[v]
         /\ ~ (m.says = "over" /\ m.session = m_session[v] /\ mode[v] # "idle")
      \/ /\ mode[v] = "awaiting" /\ mode'[v] = "active" /\ m_session'[v] = m_session[v]
         /\ m.says = "ready" /\ m.session = m_session[v]
  <2>1. CASE on_remote_state(v)
    <3>1. CASE m.says = "over" /\ OwnSession(v) /\ mode[v] # "idle"
      BY <1>1, <2>1, <3>1 DEF on_remote_state, Forget, BroadcastTypeOK, m
    <3>2. CASE ~ (m.says = "over" /\ OwnSession(v) /\ mode[v] # "idle")
      <4>1. UNCHANGED <<mode, m_session>>
        BY <2>1, <3>2 DEF on_remote_state, m
      <4>2. mode[v] # "idle" => m_session[v] # NoSession
        BY <1>1, SessionIsDrawn
      <4> QED
        BY <3>2, <4>1, <4>2 DEF OwnSession, m
    <3> QED
      BY <3>1, <3>2
  <2>2. CASE DropAnswer(v)
    BY <2>2 DEF DropAnswer, Receives, client, m
  <2>3. CASE IsBusy(v) \/ IsRefused(v)
    BY <1>1, <2>3 DEF IsBusy, IsRefused, Forget, BroadcastTypeOK
  <2>4. CASE GoesOnAir(v)
    BY <1>1, <2>4 DEF GoesOnAir, Receives, OwnSession, BroadcastTypeOK, m
  <2> QED
    BY <2>1, <2>2, <2>3, <2>4 DEF on_ready
<1>10. ASSUME Calm', NEW w \in VMS, Committed(w)' PROVE OwnsOrHears(w)'
  <2>1. m_session'[w] = m_session[w] /\ mode'[w] # "idle" /\ online[w]
    BY <1>3, <1>8, <1>9, <1>10 DEF Committed
  <2>2. Committed(w)
    <3>1. CASE w = v /\ mode[v] = "awaiting" /\ m.says = "ready" /\ m.session = m_session[v]
      <4>1. m = Answer(m_session[v], "ready")
        BY <1>4, <3>1 DEF Message, Answer
      <4> QED
        BY <1>4, <2>1, <3>1, <4>1 DEF Committed
    <3>2. CASE mode'[w] = mode[w]
      BY <1>3, <1>4, <1>10, <2>1, <3>2 DEF Committed
    <3> QED
      BY <1>8, <1>9, <2>1, <3>1, <3>2
  <2>3. Calm /\ OwnsOrHears(w)
    BY <1>1, <1>3, <1>10, <2>2 DEF Calm, NoneIsDeaf
  <2>4. CASE Has(inbox[w], StateMessage(FALSE, m_session[w]))
    <3>1. w = v => m # StateMessage(FALSE, m_session[v])
      BY <1>9, <2>1, <2>2 DEF StateMessage, Committed
    <3> QED
      BY <1>4, <2>1, <2>4, <3>1 DEF OwnsOrHears
  <2> QED
    BY <1>3, <2>1, <2>3, <2>4 DEF OwnsOrHears
<1> QED
  BY <1>7, <1>10 DEF NoneIsDeaf

(* Steps of RPi C that neither serve a session nor send READY leave fresh  *)
(* sessions unknown.                                                       *)
LEMMA StaysUnknown ==
  ASSUME FreshIsUnknown, UNCHANGED fresh, serving' \in {serving, NoSession}, fresh \subseteq Session,
         \A w \in VMS : \A x : Has(cmds'[w], x) => Has(cmds[w], x),
         NEW m, m.says # "ready",
         \A w \in VMS : \A x : Has(inbox'[w], x) => Has(inbox[w], x) \/ x = m
  PROVE  FreshIsUnknown'
<1>1. ASSUME NEW s \in fresh PROVE Undrawn(s)'
  <2>1. Undrawn(s) /\ s # NoSession
    BY SessionAssumption DEF FreshIsUnknown
  <2>2. Answer(s, "ready").says = "ready"
    BY DEF Answer
  <2> QED
    BY <2>1, <2>2 DEF Undrawn
<1> QED
  BY <1>1 DEF FreshIsUnknown

(* The owner changes only to another session, and then its end is noted;   *)
(* an end that is told reaches every VMS that has its link.                *)
LEMMA RpicKeepsNoneDeaf ==
  ASSUME BroadcastTypeOK, NoneIsDeaf, Calm' => Calm,
         UNCHANGED <<mode, m_session, online>>,
         \A w \in VMS : Committed(w)' => Committed(w) \/ owner' = m_session[w],
         owner' = owner \/ owner \in ended' \/ owner = NoSession,
         \A s \in ended : \/ s \in ended'
                          \/ \A w \in VMS : online[w] => Has(inbox'[w], StateMessage(FALSE, s)),
         \A w \in VMS : \A x : Has(inbox[w], x) => Has(inbox'[w], x)
  PROVE  NoneIsDeaf'
<1>1. ASSUME Calm', NEW w \in VMS, Committed(w)' PROVE OwnsOrHears(w)'
  <2>1. mode[w] # "idle" /\ online[w]
    BY <1>1 DEF Committed
  <2>2. m_session[w] # NoSession
    BY <2>1, SessionIsDrawn
  <2>3. CASE Committed(w)
    <3>1. OwnsOrHears(w)
      BY <1>1, <2>3 DEF NoneIsDeaf
    <3> QED
      BY <2>1, <2>2, <3>1 DEF OwnsOrHears
  <2> QED
    BY <1>1, <2>3 DEF OwnsOrHears
<1> QED
  BY <1>1 DEF NoneIsDeaf

LEMMA StartInv ==
  ASSUME BroadcastInv, NEW v \in VMS, HandleStart(v)
  PROVE  FreshIsUnknown' /\ NoneIsDeaf'
<1> DEFINE c == Head(cmds[v])
<1>1. BroadcastTypeOK /\ FreshIsUnknown /\ NoneIsDeaf
  BY DEF BroadcastInv
<1>2. /\ c \in Command /\ c.start /\ Has(cmds[v], c)
      /\ \A w \in VMS : \A x : Has(cmds'[w], x) => Has(cmds[w], x)
  BY <1>1, Takes DEF HandleStart
<1>3. serving = NoSession /\ UNCHANGED <<mode, m_session, online, fresh, mishaps>>
  BY DEF HandleStart, TakeCommand, Unseen, client
<1>4. \A s \in fresh : s # c.session
  BY <1>1, <1>2 DEF FreshIsUnknown, Undrawn
<1>5. c.session \in Session /\ c.session # NoSession
  BY <1>2, SessionAssumption DEF Command
<1>6. CASE Arbiter!Take(c.session, c.takeover) /\ UNCHANGED inbox
  <2>1. /\ owner' = c.session /\ serving' = c.session
        /\ owner # NoSession => owner # c.session /\ ended' = ended \cup {owner}
        /\ owner = NoSession => ended' = ended
    BY <1>6 DEF Arbiter!Take, Arbiter!Ended
  <2>2. FreshIsUnknown'
    BY <1>1, <1>2, <1>3, <1>4, <1>6, <2>1 DEF FreshIsUnknown, Undrawn
  <2>3. \A w \in VMS : Committed(w)' => Committed(w) \/ owner' = m_session[w]
    BY <1>3, <1>6, <2>1 DEF Committed
  <2>4. (Calm' => Calm) /\ \A w \in VMS : \A x : Has(inbox[w], x) => Has(inbox'[w], x)
    BY <1>3, <1>6 DEF Calm
  <2>5. (owner \in ended' \/ owner = NoSession) /\ ended \subseteq ended'
    BY <2>1
  <2> QED
    BY <1>1, <1>3, <2>2, <2>3, <2>4, <2>5, RpicKeepsNoneDeaf
<1>7. CASE Arbiter!Busy(c.session) /\ Reply(Answer(c.session, "busy"))
  <2>1. UNCHANGED <<owner, serving, ended>>
    BY <1>7 DEF Arbiter!Busy
  <2>2. Answer(c.session, "busy") \in Message /\ Answer(c.session, "busy").says # "ready"
    BY <1>5 DEF Answer, Message, Id
  <2>3. Grows(Answer(c.session, "busy"))
    BY <1>1, <1>7, <2>2, Replies
  <2>4. fresh \subseteq Session /\ FreshIsUnknown'
    BY <1>1, <1>2, <1>3, <2>1, <2>2, <2>3, StaysUnknown DEF Grows, BroadcastTypeOK
  <2>5. ASSUME NEW w \in VMS, Committed(w)' PROVE Committed(w)
    <3>1. Answer(m_session[w], "ready") # Answer(c.session, "busy")
      BY DEF Answer
    <3> QED
      BY <1>3, <2>1, <2>3, <2>5, <3>1 DEF Committed, Grows
  <2>6. Calm' => Calm
    BY <1>3 DEF Calm
  <2> QED
    BY <1>1, <1>3, <2>1, <2>3, <2>4, <2>5, <2>6, RpicKeepsNoneDeaf DEF Grows
<1> QED
  BY <1>6, <1>7 DEF HandleStart

(* A session ends without a word yet.                                      *)
LEMMA EndInv ==
  ASSUME BroadcastInv, Arbiter!End, Calm' => Calm,
         UNCHANGED <<client, online, fresh, inbox>>,
         \A w \in VMS : \A x : Has(cmds'[w], x) => Has(cmds[w], x)
  PROVE  FreshIsUnknown' /\ NoneIsDeaf'
<1>1. BroadcastTypeOK /\ FreshIsUnknown /\ NoneIsDeaf
  BY DEF BroadcastInv
<1>2. serving' = serving /\ owner \in ended' /\ ended \subseteq ended'
  BY DEF Arbiter!End, Arbiter!Ended
<1>3. FreshIsUnknown'
  BY <1>1, <1>2 DEF FreshIsUnknown, Undrawn
<1>4. UNCHANGED <<mode, m_session, online>> /\ \A w \in VMS : Committed(w)' => Committed(w)
  BY <1>2 DEF Committed, client
<1>5. \A w \in VMS : \A x : Has(inbox[w], x) => Has(inbox'[w], x)
  OBVIOUS
<1> QED
  BY <1>1, <1>2, <1>3, <1>4, <1>5, RpicKeepsNoneDeaf

LEMMA TellInv ==
  ASSUME BroadcastInv, NEW s \in Session, TellEnd(s)
  PROVE  FreshIsUnknown' /\ NoneIsDeaf'
<1> DEFINE m == StateMessage(FALSE, s)
<1>1. BroadcastTypeOK /\ FreshIsUnknown /\ NoneIsDeaf
  BY DEF BroadcastInv
<1>2. m \in Message /\ m.says = "over"
  BY DEF StateMessage, Message, Id
<1>3. Grows(m) /\ \A w \in VMS : online[w] => Has(inbox'[w], m)
  BY <1>1, <1>2, Publishes DEF TellEnd
<1>4. UNCHANGED <<owner, serving, mode, m_session, online, fresh, mishaps, cmds>> /\ \A r \in ended : r = s \/ r \in ended'
  BY DEF TellEnd, Arbiter!TellEnd, Unseen, client
<1>5. FreshIsUnknown'
  BY <1>1, <1>2, <1>3, <1>4, StaysUnknown DEF Grows, BroadcastTypeOK
<1>6. ASSUME NEW w \in VMS, Committed(w)' PROVE Committed(w)
  <2>1. Answer(m_session[w], "ready") # m
    BY DEF Answer, StateMessage
  <2> QED
    BY <1>3, <1>4, <1>6, <2>1 DEF Committed, Grows
<1>7. Calm' => Calm
  BY <1>4 DEF Calm
<1> QED
  BY <1>1, <1>3, <1>4, <1>5, <1>6, <1>7, RpicKeepsNoneDeaf DEF Grows

(* READY goes to the session that is being served, which is committed      *)
(* already.                                                                *)
LEMMA ServeInv ==
  ASSUME BroadcastInv, Serve
  PROVE  FreshIsUnknown' /\ NoneIsDeaf'
<1>1. BroadcastTypeOK /\ FreshIsUnknown /\ NoneIsDeaf
  BY DEF BroadcastInv
<1>2. /\ UNCHANGED <<mode, m_session, online, fresh, mishaps, cmds>>
      /\ serving \in Session /\ serving # NoSession /\ fresh \subseteq Session
  BY <1>1 DEF Serve, Unseen, client, BroadcastTypeOK, Id, Arbiter!Ready, Arbiter!Refuse,
              Arbiter!ReceiverFails, Arbiter!Announce, Arbiter!Undo
<1>3. Calm' => Calm
  BY <1>2 DEF Calm
<1>4. CASE Arbiter!Ready /\ Reply(Answer(serving, "ready"))
  <2> DEFINE m == Answer(serving, "ready")
  <2>1. m \in Message
    BY <1>2 DEF Answer, Message, Id
  <2>2. Grows(m) /\ UNCHANGED <<owner, serving, ended>>
    BY <1>1, <1>4, <2>1, Replies DEF Arbiter!Ready
  <2>3. \A s : s # serving => Answer(s, "ready") # m
    BY DEF Answer
  <2>4. FreshIsUnknown'
    BY <1>1, <1>2, <2>2, <2>3 DEF FreshIsUnknown, Undrawn, Grows
  <2>5. \A w \in VMS : Committed(w)' => Committed(w)
    BY <1>2, <2>2, <2>3 DEF Committed, Grows
  <2> QED
    BY <1>1, <1>2, <1>3, <2>2, <2>4, <2>5, RpicKeepsNoneDeaf DEF Grows
<1>5. ASSUME NEW m \in Message, m.says # "ready", Grows(m) \/ UNCHANGED inbox,
             serving' \in {serving, NoSession}, ended \subseteq ended',
             owner' = owner \/ owner \in ended' \/ owner = NoSession
      PROVE  FreshIsUnknown' /\ NoneIsDeaf'
  <2>1. FreshIsUnknown'
    BY <1>1, <1>2, <1>5, StaysUnknown DEF Grows
  <2>2. ASSUME NEW w \in VMS, Committed(w)' PROVE Committed(w)
    <3>1. Answer(m_session[w], "ready") # m /\ (m_session[w] # NoSession \/ mode[w] = "idle")
      BY <1>1, <1>5, SessionIsDrawn DEF Answer
    <3> QED
      BY <1>2, <1>5, <2>2, <3>1 DEF Committed, Grows
  <2>3. \A w \in VMS : \A x : Has(inbox[w], x) => Has(inbox'[w], x)
    BY <1>5 DEF Grows
  <2> QED
    BY <1>1, <1>2, <1>3, <1>5, <2>1, <2>2, <2>3, RpicKeepsNoneDeaf
<1>6. CASE (Arbiter!Refuse \/ Arbiter!ReceiverFails) /\ Reply(Answer(serving, "error"))
  <2>1. Answer(serving, "error") \in Message /\ Answer(serving, "error").says # "ready"
    BY <1>2 DEF Answer, Message, Id
  <2>2. Grows(Answer(serving, "error"))
    BY <1>1, <1>6, <2>1, Replies
  <2>3. serving' \in {serving, NoSession} /\ UNCHANGED <<owner, ended>>
    BY <1>6 DEF Arbiter!Refuse, Arbiter!ReceiverFails
  <2> QED
    BY <1>5, <2>1, <2>2, <2>3
<1>7. CASE Arbiter!Announce /\ Publish(StateMessage(TRUE, serving))
  <2>1. StateMessage(TRUE, serving) \in Message /\ StateMessage(TRUE, serving).says # "ready"
    BY <1>2 DEF StateMessage, Message, Id
  <2>2. Grows(StateMessage(TRUE, serving))
    BY <1>1, <1>7, <2>1, Publishes
  <2>3. serving' = NoSession /\ UNCHANGED <<owner, ended>>
    BY <1>7 DEF Arbiter!Announce
  <2> QED
    BY <1>5, <2>1, <2>2, <2>3
<1>8. CASE Arbiter!Undo /\ UNCHANGED inbox
  <2>1. Answer(serving, "error") \in Message /\ Answer(serving, "error").says # "ready"
    BY <1>2 DEF Answer, Message, Id
  <2>2. serving' = NoSession /\ ended' = ended \cup {serving} /\ (owner' = owner \/ owner = serving)
    BY <1>2, <1>8 DEF Arbiter!Undo, Arbiter!Ended
  <2> QED
    BY <1>5, <1>8, <2>1, <2>2
<1> QED
  BY <1>4, <1>6, <1>7, <1>8 DEF Serve

(* A restart of RPi C is not calm.                                         *)
LEMMA RestartInv ==
  ASSUME BroadcastInv, Restart
  PROVE  FreshIsUnknown' /\ NoneIsDeaf'
<1> DEFINE m == StateMessage(FALSE, NoSession)
<1>1. BroadcastTypeOK /\ FreshIsUnknown
  BY DEF BroadcastInv
<1>2. m \in Message /\ m.says # "ready"
  BY DEF StateMessage, Message, Id
<1>3. Grows(m)
  BY <1>1, <1>2, Publishes DEF Restart
<1>4. \A w \in VMS : \A x : ~ Has(cmds'[w], x)
  BY DEF Restart, Has
<1>5. FreshIsUnknown'
  BY <1>1, <1>2, <1>3, <1>4, StaysUnknown DEF Restart, Grows, BroadcastTypeOK
<1>6. ~ Calm'
  BY DEF Restart, Suffer, Calm
<1> QED
  BY <1>5, <1>6 DEF NoneIsDeaf

(* A link that is lost owes nothing; one that is back before the VMS       *)
(* noticed is not calm.                                                    *)
LEMMA LinkInv ==
  ASSUME BroadcastInv, NEW v \in VMS, LinkDown(v) \/ LinkUp(v)
  PROVE  FreshIsUnknown' /\ NoneIsDeaf'
<1>1. BroadcastTypeOK /\ FreshIsUnknown /\ NoneIsDeaf
  BY DEF BroadcastInv
<1>2. UNCHANGED <<owner, serving, ended, mode, m_session, fresh>> /\ (Calm' => Calm)
  BY DEF LinkDown, LinkUp, rpic, client, Suffer, Calm
<1>3. \A w \in VMS : w # v => online'[w] = online[w] /\ inbox'[w] = inbox[w]
  BY <1>1 DEF LinkDown, LinkUp, BroadcastTypeOK
<1>4. \A x : Has(inbox'[v], x) => x = StateMessage(state.active, state.session)
  BY <1>1 DEF LinkDown, LinkUp, BroadcastTypeOK, Has
<1>5. \A w \in VMS : \A x : Has(cmds'[w], x) => Has(cmds[w], x)
  <2>1. \A x : ~ Has(<< >>, x)
    BY DEF Has
  <2>2. cmds' = cmds \/ cmds' = [cmds EXCEPT ![v] = << >>]
    BY DEF LinkDown, LinkUp
  <2>3. CASE cmds' = [cmds EXCEPT ![v] = << >>]
    <3>1. \A w \in VMS : cmds'[w] = << >> \/ cmds'[w] = cmds[w]
      BY <1>1, <2>3 DEF BroadcastTypeOK
    <3> QED
      BY <2>1, <3>1
  <2> QED
    BY <2>2, <2>3
<1>6. StateMessage(state.active, state.session).says # "ready"
  BY DEF StateMessage
<1>7. FreshIsUnknown'
  <2>1. \A w \in VMS : \A x : Has(inbox'[w], x) => Has(inbox[w], x) \/ x = StateMessage(state.active, state.session)
    BY <1>3, <1>4
  <2> QED
    BY <1>1, <1>2, <1>5, <1>6, <2>1, StaysUnknown DEF BroadcastTypeOK
<1>8. Calm' => ~ online'[v] \/ mode[v] = "idle"
  BY <1>1 DEF LinkDown, LinkUp, Calm, BroadcastTypeOK
<1>9. ASSUME Calm', NEW w \in VMS, Committed(w)' PROVE OwnsOrHears(w)'
  <2>1. w # v
    BY <1>2, <1>8, <1>9 DEF Committed
  <2>2. Committed(w)
    BY <1>2, <1>3, <1>9, <2>1 DEF Committed
  <2> QED
    BY <1>1, <1>2, <1>3, <1>9, <2>1, <2>2 DEF NoneIsDeaf, OwnsOrHears
<1> QED
  BY <1>7, <1>9 DEF NoneIsDeaf

LEMMA StepInv == BroadcastInv /\ [Next]_vars => BroadcastInv'
<1> SUFFICES ASSUME BroadcastInv, [Next]_vars PROVE BroadcastInv'
  OBVIOUS
<1>1. BroadcastTypeOK'
  BY StepTypes DEF BroadcastInv
<1>2. ASSUME NEW v \in VMS, HandleStop(v) PROVE FreshIsUnknown' /\ NoneIsDeaf'
  <2>1. /\ \A w \in VMS : \A x : Has(cmds'[w], x) => Has(cmds[w], x)
        /\ UNCHANGED <<client, online, fresh, inbox, mishaps>>
    BY <1>2, Takes DEF HandleStop, Unseen, BroadcastInv
  <2>2. CASE Arbiter!End
    BY <2>1, <2>2, EndInv DEF Calm
  <2>3. CASE UNCHANGED rpic
    BY <2>1, <2>3 DEF BroadcastInv, rpic, client, FreshIsUnknown, Undrawn, NoneIsDeaf, Calm, Committed, OwnsOrHears
  <2> QED
    BY <1>2, <2>2, <2>3 DEF HandleStop
<1>3. ASSUME Fire \/ Expire \/ ExpireTooSoon PROVE FreshIsUnknown' /\ NoneIsDeaf'
  <2>1. Calm' => Calm
    BY <1>3 DEF Fire, Expire, ExpireTooSoon, Unseen, Suffer, Calm
  <2>2. Arbiter!End /\ UNCHANGED <<client, online, fresh, inbox>> /\ UNCHANGED cmds
    BY <1>3 DEF Fire, Expire, ExpireTooSoon, Unseen
  <2>3. \A w \in VMS : \A x : Has(cmds'[w], x) => Has(cmds[w], x)
    BY <2>2
  <2> QED
    BY <2>1, <2>2, <2>3, EndInv
<1>4. ASSUME UNCHANGED vars PROVE FreshIsUnknown' /\ NoneIsDeaf'
  <2>1. UNCHANGED <<owner, serving, ended, mode, m_session, online, cmds, inbox, fresh, mishaps>>
    BY <1>4 DEF vars, rpic, client
  <2>2. FreshIsUnknown'
    BY <2>1 DEF BroadcastInv, FreshIsUnknown, Undrawn
  <2>3. NoneIsDeaf'
    BY <2>1 DEF BroadcastInv, NoneIsDeaf, Calm, Committed, OwnsOrHears
  <2> QED
    BY <2>2, <2>3
<1>5. FreshIsUnknown' /\ NoneIsDeaf'
  <2>1. ASSUME NEW v \in VMS,
               \/ ClickOn(v) \/ ClickOnOther(v) \/ Confirm(v) \/ Cancel(v)
               \/ ClickOff(v) \/ on_ready_timeout(v) \/ check_link_alive(v)
        PROVE  FreshIsUnknown' /\ NoneIsDeaf'
    BY <2>1, OperatorInv
  <2>2. ASSUME NEW v \in VMS, on_remote_state(v) \/ on_ready(v) PROVE FreshIsUnknown' /\ NoneIsDeaf'
    BY <2>2, MessageInv
  <2>3. ASSUME NEW v \in VMS, HandleStart(v) \/ HandleStop(v) PROVE FreshIsUnknown' /\ NoneIsDeaf'
    BY <1>2, <2>3, StartInv
  <2>4. ASSUME NEW v \in VMS, LinkDown(v) \/ LinkUp(v) PROVE FreshIsUnknown' /\ NoneIsDeaf'
    BY <2>4, LinkInv
  <2>5. ASSUME NEW s \in Session, TellEnd(s) PROVE FreshIsUnknown' /\ NoneIsDeaf'
    BY <2>5, TellInv
  <2>6. CASE Serve \/ Restart
    BY <2>6, ServeInv, RestartInv
  <2> QED
    BY <1>3, <1>4, <2>1, <2>2, <2>3, <2>4, <2>5, <2>6 DEF Next
<1> QED
  BY <1>1, <1>5 DEF BroadcastInv

LEMMA InitInv == Init => BroadcastInv
<1> SUFFICES ASSUME Init PROVE BroadcastInv
  OBVIOUS
<1>1. BroadcastTypeOK
  BY InitTypes
<1>2. serving = NoSession /\ \A v \in VMS : mode[v] = "idle" /\ \A x : ~ Has(inbox[v], x) /\ ~ Has(cmds[v], x)
  BY DEF Init, Arbiter!Init, Has
<1>3. \A s \in fresh : s # NoSession
  BY <1>1, SessionAssumption DEF BroadcastTypeOK
<1> QED
  BY <1>1, <1>2, <1>3 DEF BroadcastInv, FreshIsUnknown, Undrawn, NoneIsDeaf, Committed

(* Without a restart of RPi C and a link that comes back unnoticed, a VMS  *)
(* on the air that does not own the speaker is about to hear of the end of *)
(* its session (broadcast_controller.cpp:194, audio_arbiter.c:290).        *)
THEOREM LosersHear == Spec => []EndIsHeard
<1>1. BroadcastInv => EndIsHeard
  BY DEF BroadcastInv, NoneIsDeaf, EndIsHeard, Committed, OwnsOrHears, Heard, Has
<1> QED
  BY <1>1, InitInv, StepInv, PTL DEF Spec

-----------------------------------------------------------------------------
(* A VMS shows who owns the speaker.  What it shows is what it heard last, *)
(* so what it is going to show is the last state message on its way, or    *)
(* what it shows already if there is none: that is the retained state.     *)

IsState(m) == m.says \in {"active", "over"}
Shows(m) == IF m.says = "active" THEN m.session ELSE NoSession
Shown == IF state.active THEN state.session ELSE NoSession

(* A VMS that shows r is going to show x once q is handled.                *)
Views(q, r, x) ==
  \/ \E i \in DOMAIN q : /\ IsState(q[i]) /\ Shows(q[i]) = x
                         /\ \A j \in DOMAIN q : j > i => ~ IsState(q[j])
  \/ r = x /\ \A j \in DOMAIN q : ~ IsState(q[j])

ToldAsShown == \A v \in VMS : online[v] => Views(inbox[v], remote[v], Shown)

(* No VMS is on the air in a session, and none can be told it is.          *)
NotReady(s) == \A v \in VMS : ~ Has(inbox[v], Answer(s, "ready")) /\ (mode[v] = "active" => m_session[v] # s)

(* A START is sent once, and RPi C learns of its session by it.            *)
HasStart(q, s) == \E i \in DOMAIN q : q[i].start /\ q[i].session = s
OnceEach(q) == \A i, j \in DOMAIN q : q[i].start /\ q[j].start /\ q[i].session = q[j].session => i = j
StartIsNew(v, s) == Client[s] = v /\ s \notin fresh /\ serving # s /\ NotReady(s)
StartsAreNew == \A v \in VMS : OnceEach(cmds[v]) /\ \A s \in Session : HasStart(cmds[v], s) => StartIsNew(v, s)
FreshIsUnused == \A s \in fresh, v \in VMS : m_session[v] # s

(* While no session expires too soon: the session that is served owns the  *)
(* speaker, an active state names the owner or one whose end is to be told *)
(* yet, and an owner that was told it is ready is the one that is shown.   *)
Served == serving # NoSession => owner = serving /\ (answer.session # serving => NotReady(serving))
Announced == state.active => state.session # NoSession /\ (state.session = owner \/ state.session \in ended)
OwnerShown ==
  owner # NoSession /\ serving = NoSession =>
    (state = [active |-> TRUE, session |-> owner] /\ ended = {}) \/ NotReady(owner)

InTime == Served /\ Announced /\ OwnerShown
DisplayInv == ToldAsShown /\ StartsAreNew /\ FreshIsUnused /\ ("slow" \notin mishaps => InTime)

LEMMA AppendViews ==
  ASSUME NEW q \in Seq(Message), NEW m \in Message, NEW r
  PROVE  /\ IsState(m) => Views(Append(q, m), r, Shows(m))
         /\ ~ IsState(m) => \A x : Views(q, r, x) => Views(Append(q, m), r, x)
<1> DEFINE a == Append(q, m)
<1>1. /\ Len(q) \in Nat /\ DOMAIN q = 1 .. Len(q) /\ DOMAIN a = 1 .. Len(q) + 1
      /\ a[Len(q) + 1] = m /\ \A i \in 1 .. Len(q) : a[i] = q[i]
  OBVIOUS
<1> HIDE DEF a
<1>2. ASSUME IsState(m) PROVE Views(a, r, Shows(m))
  <2>1. Len(q) + 1 \in DOMAIN a /\ \A j \in DOMAIN a : ~ (j > Len(q) + 1)
    BY <1>1
  <2> QED
    BY <1>1, <1>2, <2>1 DEF Views
<1>3. ASSUME ~ IsState(m), NEW x, Views(q, r, x) PROVE Views(a, r, x)
  <2>1. \A j \in DOMAIN a : j = Len(q) + 1 \/ (j \in DOMAIN q /\ a[j] = q[j])
    BY <1>1
  <2>2. CASE \A j \in DOMAIN q : ~ IsState(q[j])
    <3>1. ~ \E i \in DOMAIN q : IsState(q[i])
      BY <2>2
    <3>2. r = x
      BY <1>3, <3>1 DEF Views
    <3>3. \A j \in DOMAIN a : ~ IsState(a[j])
      BY <1>1, <1>3, <2>1, <2>2
    <3> QED
      BY <3>2, <3>3 DEF Views
  <2>3. CASE \E i \in DOMAIN q : IsState(q[i])
    <3>1. PICK i \in DOMAIN q : /\ IsState(q[i]) /\ Shows(q[i]) = x
                                /\ \A j \in DOMAIN q : j > i => ~ IsState(q[j])
      BY <1>3, <2>3 DEF Views
    <3>2. i \in DOMAIN a /\ a[i] = q[i]
      BY <1>1
    <3>3. \A j \in DOMAIN a : j > i => ~ IsState(a[j])
      BY <1>1, <1>3, <2>1, <3>1
    <3> QED
      BY <3>1, <3>2, <3>3 DEF Views
  <2> QED
    BY <2>2, <2>3
<1> QED
  BY <1>2, <1>3 DEF a

LEMMA TailViews ==
  ASSUME NEW q \in Seq(Message), q # << >>, NEW r, NEW x, Views(q, r, x)
  PROVE  Views(Tail(q), IF IsState(Head(q)) THEN Shows(Head(q)) ELSE r, x)
<1> DEFINE t == Tail(q)
<1>1. /\ Len(q) \in Nat /\ Len(q) > 0 /\ Head(q) = q[1]
      /\ DOMAIN q = 1 .. Len(q) /\ DOMAIN t = 1 .. Len(q) - 1
      /\ \A i \in 1 .. Len(q) - 1 : t[i] = q[i + 1]
  OBVIOUS
<1> HIDE DEF t
<1>2. \A j \in DOMAIN t : j + 1 \in DOMAIN q /\ j + 1 > 1 /\ t[j] = q[j + 1]
  BY <1>1
<1>3. CASE \E i \in DOMAIN q : i # 1 /\ IsState(q[i])
  <2>1. ~ \A j \in DOMAIN q : ~ IsState(q[j])
    BY <1>3
  <2>2. PICK i \in DOMAIN q : /\ IsState(q[i]) /\ Shows(q[i]) = x
                              /\ \A j \in DOMAIN q : j > i => ~ IsState(q[j])
    BY <2>1 DEF Views
  <2>3. i # 1
    BY <1>1, <1>3, <2>2
  <2>4. i - 1 \in DOMAIN t /\ t[i - 1] = q[i]
    BY <1>1, <2>3
  <2>5. \A j \in DOMAIN t : j > i - 1 => ~ IsState(t[j])
    <3>1. \A j \in DOMAIN t : j > i - 1 => j + 1 > i
      BY <1>1
    <3> QED
      BY <1>2, <2>2, <3>1
  <2> QED
    BY <2>2, <2>4, <2>5 DEF Views, t
<1>4. CASE ~ \E i \in DOMAIN q : i # 1 /\ IsState(q[i])
  <2>1. \A j \in DOMAIN t : ~ IsState(t[j])
    <3>1. \A j \in DOMAIN t : j + 1 # 1
      BY <1>1
    <3> QED
      BY <1>2, <1>4, <3>1
  <2>2. IF IsState(Head(q)) THEN Shows(Head(q)) = x ELSE r = x
    BY <1>1, <1>4 DEF Views
  <2> QED
    BY <2>1, <2>2 DEF Views, t
<1> QED
  BY <1>3, <1>4

LEMMA AppendStarts ==
  ASSUME NEW q \in Seq(Command), NEW c \in Command
  PROVE  /\ \A s : HasStart(Append(q, c), s) => HasStart(q, s) \/ (c.start /\ c.session = s)
         /\ OnceEach(q) /\ (c.start => ~ HasStart(q, c.session)) => OnceEach(Append(q, c))
<1> DEFINE a == Append(q, c)
<1>1. /\ Len(q) \in Nat /\ DOMAIN q = 1 .. Len(q) /\ DOMAIN a = 1 .. Len(q) + 1
      /\ a[Len(q) + 1] = c /\ \A i \in 1 .. Len(q) : a[i] = q[i]
  OBVIOUS
<1> HIDE DEF a
<1>2. \A j \in DOMAIN a : (j = Len(q) + 1 /\ a[j] = c) \/ (j \in DOMAIN q /\ a[j] = q[j])
  BY <1>1
<1>3. \A s : HasStart(a, s) => HasStart(q, s) \/ (c.start /\ c.session = s)
  BY <1>2 DEF HasStart
<1>4. ASSUME OnceEach(q), c.start => ~ HasStart(q, c.session) PROVE OnceEach(a)
  BY <1>2, <1>4 DEF OnceEach, HasStart
<1> QED
  BY <1>3, <1>4 DEF a

LEMMA TailStarts ==
  ASSUME NEW q \in Seq(Command), q # << >>
  PROVE  /\ \A s : HasStart(Tail(q), s) => HasStart(q, s)
         /\ Head(q).start => HasStart(q, Head(q).session)
         /\ OnceEach(q) => /\ OnceEach(Tail(q))
                           /\ Head(q).start => ~ HasStart(Tail(q), Head(q).session)
<1> DEFINE t == Tail(q)
<1>1. /\ Len(q) \in Nat /\ Len(q) > 0 /\ Head(q) = q[1]
      /\ DOMAIN q = 1 .. Len(q) /\ DOMAIN t = 1 .. Len(q) - 1
      /\ \A i \in 1 .. Len(q) - 1 : t[i] = q[i + 1]
  OBVIOUS
<1> HIDE DEF t
<1>2. 1 \in DOMAIN q /\ \A j \in DOMAIN t : j \in Nat /\ j + 1 \in DOMAIN q /\ j + 1 # 1 /\ t[j] = q[j + 1]
  BY <1>1
<1>3. (\A s : HasStart(t, s) => HasStart(q, s)) /\ (Head(q).start => HasStart(q, Head(q).session))
  BY <1>1, <1>2 DEF HasStart
<1>4. ASSUME OnceEach(q) PROVE OnceEach(t) /\ (Head(q).start => ~ HasStart(t, Head(q).session))
  <2>1. OnceEach(t)
    <3>1. \A i, j \in DOMAIN t : i + 1 = j + 1 => i = j
      BY <1>2
    <3> QED
      BY <1>2, <1>4, <3>1 DEF OnceEach
  <2>2. Head(q).start => ~ HasStart(t, Head(q).session)
    BY <1>1, <1>2, <1>4 DEF OnceEach, HasStart
  <2> QED
    BY <2>1, <2>2
<1> QED
  BY <1>3, <1>4 DEF t

-----------------------------------------------------------------------------
(* What a VMS is going to show, after what RPi C sent and the VMS handled. *)

LEMMA PublishTold ==
  ASSUME BroadcastTypeOK, NEW m \in Message, IsState(m), Publish(m), Shows(m) = Shown',
         UNCHANGED <<online, remote>>
  PROVE  ToldAsShown'
<1>1. \A v \in VMS : online[v] => inbox[v] \in Seq(Message) /\ inbox'[v] = Append(inbox[v], m)
  BY DEF Publish, BroadcastTypeOK, Message
<1> QED
  BY <1>1, AppendViews DEF ToldAsShown

LEMMA ReplyTold ==
  ASSUME BroadcastTypeOK, ToldAsShown, NEW m \in Message, ~ IsState(m), Reply(m),
         UNCHANGED <<online, remote, state>>
  PROVE  ToldAsShown'
<1>1. \A v \in VMS : inbox[v] \in Seq(Message) /\ (inbox'[v] = Append(inbox[v], m) \/ inbox'[v] = inbox[v])
  BY DEF Reply, BroadcastTypeOK, Message
<1>2. Shown' = Shown
  BY DEF Shown
<1> QED
  BY <1>1, <1>2, AppendViews DEF ToldAsShown

LEMMA HandleTold ==
  ASSUME BroadcastTypeOK, ToldAsShown, NEW v \in VMS, on_remote_state(v) \/ on_ready(v)
  PROVE  ToldAsShown'
<1> DEFINE m == Head(inbox[v])
<1>1. inbox[v] # << >> /\ Consume(v) /\ UNCHANGED <<online, state>>
  BY DEF on_remote_state, on_ready, DropAnswer, IsBusy, GoesOnAir, IsRefused, Receives, rpic
<1>2. inbox \in [VMS -> Seq(Message)] /\ remote \in [VMS -> Id] /\ m \in Message
  BY <1>1, Consumes DEF BroadcastTypeOK, Message
<1>3. remote' = [remote EXCEPT ![v] = IF IsState(m) THEN Shows(m) ELSE @]
  <2>1. CASE on_remote_state(v)
    BY <2>1 DEF on_remote_state, Receives, IsState, Shows
  <2>2. CASE on_ready(v)
    <3>1. ~ IsState(m) /\ remote' = remote
      BY <2>2 DEF on_ready, DropAnswer, IsBusy, GoesOnAir, IsRefused, Receives, client, IsState
    <3> QED
      BY <1>2, <3>1
  <2> QED
    BY <2>1, <2>2
<1>4. Shown' = Shown
  BY <1>1 DEF Shown
<1>5. ASSUME NEW w \in VMS, online[w] PROVE Views(inbox'[w], remote'[w], Shown)
  <2>1. Views(inbox[w], remote[w], Shown)
    BY <1>5 DEF ToldAsShown
  <2>2. CASE w = v
    <3>1. inbox'[v] = Tail(inbox[v]) /\ remote'[v] = IF IsState(m) THEN Shows(m) ELSE remote[v]
      BY <1>1, <1>2, <1>3 DEF Consume
    <3>2. Views(Tail(inbox[v]), IF IsState(m) THEN Shows(m) ELSE remote[v], Shown)
      BY <1>1, <1>2, <2>1, <2>2, TailViews
    <3> QED
      BY <2>2, <3>1, <3>2
  <2>3. CASE w # v
    <3>1. inbox'[w] = inbox[w] /\ remote'[w] = remote[w]
      BY <1>1, <1>2, <1>3, <2>3 DEF Consume
    <3> QED
      BY <2>1, <3>1
  <2> QED
    BY <2>2, <2>3
<1> QED
  BY <1>1, <1>4, <1>5 DEF ToldAsShown

LEMMA SameTold ==
  ASSUME ToldAsShown, UNCHANGED <<online, remote, state, inbox>>
  PROVE  ToldAsShown'
  BY DEF ToldAsShown, Shown

LEMMA StateMessages ==
  ASSUME NEW s \in Id, NEW b \in BOOLEAN
  PROVE  /\ StateMessage(b, s) \in Message /\ IsState(StateMessage(b, s))
         /\ Shows(StateMessage(b, s)) = IF b THEN s ELSE NoSession
         /\ \A r \in {"ready", "busy", "error"} : /\ Answer(s, r) \in Message /\ ~ IsState(Answer(s, r))
                                                  /\ \A t : Answer(t, r) # StateMessage(b, s)
  BY DEF StateMessage, Answer, Message, IsState, Shows

LEMMA StepTold ==
  ASSUME BroadcastTypeOK, ToldAsShown, [Next]_vars
  PROVE  ToldAsShown'
<1>1. ASSUME NEW v \in VMS,
             \/ ClickOn(v) \/ ClickOnOther(v) \/ Confirm(v) \/ Cancel(v)
             \/ ClickOff(v) \/ on_ready_timeout(v) \/ check_link_alive(v) \/ HandleStop(v)
      PROVE  ToldAsShown'
  <2>1. UNCHANGED <<online, remote, state, inbox>>
    BY <1>1 DEF ClickOn, ClickOnOther, Confirm, Cancel, ClickOff, on_ready_timeout, check_link_alive, stop,
                HandleStop, Arbiter!End, Unseen, rpic, client
  <2> QED
    BY <2>1, SameTold
<1>2. ASSUME NEW v \in VMS, HandleStart(v) PROVE ToldAsShown'
  <2> DEFINE s == Head(cmds[v]).session
  <2>1. s \in Id
    BY <1>2, Takes DEF HandleStart, Command, Id
  <2>2. Answer(s, "busy") \in Message /\ ~ IsState(Answer(s, "busy"))
    BY <2>1, StateMessages
  <2>3. UNCHANGED <<online, remote, state>> /\ (UNCHANGED inbox \/ Reply(Answer(s, "busy")))
    BY <1>2 DEF HandleStart, Arbiter!Take, Arbiter!Busy, Unseen, client
  <2> QED
    BY <2>2, <2>3, SameTold, ReplyTold
<1>3. ASSUME NEW v \in VMS, LinkDown(v) \/ LinkUp(v) PROVE ToldAsShown'
  <2>1. UNCHANGED <<remote, state>> /\ Shown' = Shown
    BY <1>3 DEF LinkDown, LinkUp, rpic, client, Shown
  <2>2. \A w \in VMS : w # v => online'[w] = online[w] /\ inbox'[w] = inbox[w]
    BY <1>3 DEF LinkDown, LinkUp, BroadcastTypeOK
  <2>3. ASSUME online'[v] PROVE Views(inbox'[v], remote[v], Shown)
    <3> DEFINE m == StateMessage(state.active, state.session)
    <3>1. inbox'[v] = <<m>>
      BY <1>3, <2>3 DEF LinkDown, LinkUp, BroadcastTypeOK
    <3>2. IsState(m) /\ Shows(m) = Shown
      BY DEF StateMessage, IsState, Shows, Shown
    <3>3. DOMAIN <<m>> = {1} /\ <<m>>[1] = m
      OBVIOUS
    <3> QED
      BY <3>1, <3>2, <3>3 DEF Views
  <2> QED
    BY <2>1, <2>2, <2>3 DEF ToldAsShown
<1>4. ASSUME NEW s \in Session, TellEnd(s) PROVE ToldAsShown'
  <2> DEFINE m == StateMessage(FALSE, s)
  <2>1. m \in Message /\ IsState(m) /\ Shows(m) = NoSession
    BY StateMessages DEF Id
  <2>2. Publish(m) /\ UNCHANGED <<online, remote>> /\ Shown' = NoSession
    BY <1>4 DEF TellEnd, Arbiter!TellEnd, Unseen, client, Shown
  <2> QED
    BY <2>1, <2>2, PublishTold
<1>5. CASE Serve
  <2>1. serving \in Id /\ UNCHANGED <<online, remote>>
    BY <1>5 DEF Serve, Unseen, client, BroadcastTypeOK
  <2>2. CASE Arbiter!Announce /\ Publish(StateMessage(TRUE, serving))
    <3>1. Shown' = serving
      BY <2>2 DEF Arbiter!Announce, Shown
    <3> QED
      BY <2>1, <2>2, <3>1, StateMessages, PublishTold
  <2>3. ASSUME UNCHANGED state, NEW r \in {"ready", "error"}, Reply(Answer(serving, r)) PROVE ToldAsShown'
    BY <2>1, <2>3, StateMessages, ReplyTold
  <2>4. CASE Arbiter!Ready \/ Arbiter!Refuse \/ Arbiter!ReceiverFails \/ Arbiter!Undo
    <3>1. UNCHANGED state
      BY <2>4 DEF Arbiter!Ready, Arbiter!Refuse, Arbiter!ReceiverFails, Arbiter!Undo
    <3>2. \/ UNCHANGED inbox \/ Reply(Answer(serving, "ready")) \/ Reply(Answer(serving, "error"))
          \/ Arbiter!Announce /\ Publish(StateMessage(TRUE, serving))
      BY <1>5 DEF Serve
    <3> QED
      BY <2>1, <2>2, <2>3, <3>1, <3>2, SameTold
  <2> QED
    BY <1>5, <2>2, <2>4 DEF Serve
<1>6. CASE Fire \/ Expire \/ ExpireTooSoon \/ UNCHANGED vars
  <2>1. UNCHANGED <<online, remote, state, inbox>>
    BY <1>6 DEF Fire, Expire, ExpireTooSoon, Arbiter!End, Unseen, vars, rpic, client
  <2> QED
    BY <2>1, SameTold
<1>7. CASE Restart
  <2> DEFINE m == StateMessage(FALSE, NoSession)
  <2>1. m \in Message /\ IsState(m) /\ Shows(m) = NoSession
    BY StateMessages DEF Id
  <2>2. Publish(m) /\ UNCHANGED <<online, remote>> /\ Shown' = NoSession
    BY <1>7 DEF Restart, client, Shown
  <2> QED
    BY <2>1, <2>2, PublishTold
<1> QED
  BY <1>1, <1>2, <1>3, <1>4, <1>5, <1>6, <1>7, HandleTold DEF Next

-----------------------------------------------------------------------------
(* A session that no VMS can take for ready stays so until it is served    *)
(* and answered READY.                                                     *)

LEMMA StepNotReady ==
  ASSUME BroadcastTypeOK, [Next]_vars, NEW s \in Session, NotReady(s), s = serving => ~ Arbiter!Ready
  PROVE  NotReady(s)'
<1>1. ASSUME NEW m, m # Answer(s, "ready"), UNCHANGED <<mode, m_session>>,
             \A w \in VMS : \A x : Has(inbox'[w], x) => Has(inbox[w], x) \/ x = m
      PROVE  NotReady(s)'
  BY <1>1 DEF NotReady
<1>2. ASSUME NEW v \in VMS,
             \/ ClickOn(v) \/ ClickOnOther(v) \/ Confirm(v) \/ Cancel(v)
             \/ ClickOff(v) \/ on_ready_timeout(v) \/ check_link_alive(v)
      PROVE  NotReady(s)'
  <2>1. UNCHANGED inbox
    BY <1>2 DEF ClickOn, ClickOnOther, Confirm, Cancel, ClickOff, on_ready_timeout, check_link_alive, stop
  <2>2. \A w \in VMS : mode'[w] = "active" => mode[w] = "active" /\ m_session'[w] = m_session[w]
    BY <1>2 DEF ClickOn, ClickOnOther, Confirm, Cancel, ClickOff, on_ready_timeout, check_link_alive, stop, start, Forget, BroadcastTypeOK
  <2> QED
    BY <2>1, <2>2 DEF NotReady
<1>3. ASSUME NEW v \in VMS, on_remote_state(v) \/ on_ready(v) PROVE NotReady(s)'
  <2>1. inbox[v] # << >> /\ Consume(v)
    BY <1>3 DEF on_remote_state, on_ready, DropAnswer, IsBusy, GoesOnAir, IsRefused, Receives
  <2>2. /\ Head(inbox[v]) \in Message /\ Has(inbox[v], Head(inbox[v]))
        /\ \A w \in VMS : \A x : Has(inbox'[w], x) => Has(inbox[w], x)
    BY <2>1, Consumes
  <2>3. ASSUME NEW w \in VMS, mode'[w] = "active" PROVE m_session'[w] # s
    <3>1. CASE GoesOnAir(v) /\ w = v
      <4>1. Head(inbox[v]) = Answer(m_session[v], "ready") /\ m_session' = m_session
        BY <2>2, <3>1 DEF GoesOnAir, Receives, OwnSession, Message, Answer
      <4> QED
        BY <2>2, <3>1, <4>1 DEF NotReady
    <3>2. CASE ~ (GoesOnAir(v) /\ w = v)
      <4>1. mode[w] = "active" /\ m_session'[w] = m_session[w]
        BY <1>3, <2>3, <3>2 DEF on_remote_state, on_ready, DropAnswer, IsBusy, GoesOnAir, IsRefused, Forget, client, BroadcastTypeOK
      <4> QED
        BY <4>1 DEF NotReady
    <3> QED
      BY <3>1, <3>2
  <2> QED
    BY <2>2, <2>3 DEF NotReady
<1>4. ASSUME NEW v \in VMS, HandleStart(v) PROVE NotReady(s)'
  <2> DEFINE m == Answer(Head(cmds[v]).session, "busy")
  <2>1. Head(cmds[v]).session \in Id
    BY <1>4, Takes DEF HandleStart, Command, Id
  <2>2. m \in Message /\ m # Answer(s, "ready")
    BY <2>1, StateMessages DEF Answer
  <2>3. UNCHANGED inbox \/ Grows(m)
    BY <1>4, <2>2, Replies DEF HandleStart
  <2>4. \A w \in VMS : \A x : Has(inbox'[w], x) => Has(inbox[w], x) \/ x = m
    BY <2>3 DEF Grows
  <2>5. UNCHANGED <<mode, m_session>>
    BY <1>4 DEF HandleStart, Unseen, client
  <2> HIDE DEF m
  <2> QED
    BY <1>1, <2>2, <2>4, <2>5
<1>5. CASE \/ \E v \in VMS : HandleStop(v)
           \/ Fire \/ Expire \/ ExpireTooSoon \/ UNCHANGED vars
  <2>1. UNCHANGED <<mode, m_session, inbox>>
    BY <1>5 DEF HandleStop, Fire, Expire, ExpireTooSoon, Unseen, vars, client
  <2> QED
    BY <2>1 DEF NotReady
<1>6. ASSUME NEW v \in VMS, LinkDown(v) \/ LinkUp(v) PROVE NotReady(s)'
  <2> DEFINE m == StateMessage(state.active, state.session)
  <2>1. m # Answer(s, "ready") /\ UNCHANGED <<mode, m_session>>
    BY <1>6 DEF LinkDown, LinkUp, client, StateMessage, Answer
  <2>2. \A w \in VMS : inbox'[w] = inbox[w] \/ inbox'[w] = << >> \/ inbox'[w] = <<m>>
    BY <1>6 DEF LinkDown, LinkUp, BroadcastTypeOK
  <2>3. \A x : ~ Has(<< >>, x) /\ (Has(<<m>>, x) => x = m)
    BY DEF Has
  <2> HIDE DEF m
  <2>4. \A w \in VMS : \A x : Has(inbox'[w], x) => Has(inbox[w], x) \/ x = m
    BY <2>2, <2>3
  <2> QED
    BY <1>1, <2>1, <2>4
<1>7. ASSUME NEW r \in Session, TellEnd(r) PROVE NotReady(s)'
  <2> DEFINE m == StateMessage(FALSE, r)
  <2>1. m \in Message /\ m # Answer(s, "ready")
    BY StateMessages DEF Id
  <2> QED
    BY <1>1, <1>7, <2>1, Publishes DEF TellEnd, Unseen, client, Grows
<1>8. CASE Serve
  <2>1. serving \in Id /\ UNCHANGED <<mode, m_session>>
    BY <1>8 DEF Serve, Unseen, client, BroadcastTypeOK
  <2>2. ASSUME NEW r \in {"ready", "error"}, Reply(Answer(serving, r)), Answer(serving, r) # Answer(s, "ready") PROVE NotReady(s)'
    BY <1>1, <2>1, <2>2, StateMessages, Replies DEF Grows
  <2>3. CASE Arbiter!Ready /\ Reply(Answer(serving, "ready"))
    BY <2>2, <2>3 DEF Answer
  <2>4. CASE Reply(Answer(serving, "error"))
    BY <2>2, <2>4 DEF Answer
  <2>5. CASE Publish(StateMessage(TRUE, serving))
    <3>1. StateMessage(TRUE, serving) \in Message /\ StateMessage(TRUE, serving) # Answer(s, "ready")
      BY <2>1, StateMessages
    <3>2. Grows(StateMessage(TRUE, serving))
      BY <2>5, <3>1, Publishes
    <3> QED
      BY <1>1, <2>1, <3>1, <3>2 DEF Grows
  <2>6. CASE UNCHANGED inbox
    BY <2>1, <2>6 DEF NotReady
  <2> QED
    BY <1>8, <2>3, <2>4, <2>5, <2>6 DEF Serve
<1>9. CASE Restart
  <2> DEFINE m == StateMessage(FALSE, NoSession)
  <2>1. m \in Message /\ m # Answer(s, "ready")
    BY StateMessages DEF Id
  <2> QED
    BY <1>1, <1>9, <2>1, Publishes DEF Restart, client, Grows
<1> QED
  BY <1>2, <1>3, <1>4, <1>5, <1>6, <1>7, <1>8, <1>9 DEF Next

-----------------------------------------------------------------------------
(* STARTs are new.                                                         *)

LEMMA StartsKept ==
  ASSUME BroadcastTypeOK, StartsAreNew, [Next]_vars, fresh' \subseteq fresh, serving' \in {serving, NoSession},
         \A w \in VMS : OnceEach(cmds'[w]) /\ \A s : HasStart(cmds'[w], s) => HasStart(cmds[w], s)
  PROVE  StartsAreNew'
<1>1. ASSUME NEW w \in VMS, NEW s \in Session, HasStart(cmds'[w], s) PROVE StartIsNew(w, s)'
  <2>1. StartIsNew(w, s) /\ s # NoSession
    BY <1>1, SessionAssumption DEF StartsAreNew
  <2> QED
    BY <2>1, StepNotReady DEF StartIsNew
<1> QED
  BY <1>1 DEF StartsAreNew

LEMMA SendStarts ==
  ASSUME BroadcastTypeOK, StartsAreNew, NEW v \in VMS, NEW c \in Command, Send(v, c),
         c.start => ~ HasStart(cmds[v], c.session)
  PROVE  /\ \A w \in VMS : OnceEach(cmds'[w])
         /\ \A w \in VMS : \A s : HasStart(cmds'[w], s) => HasStart(cmds[w], s) \/ (w = v /\ c.start /\ s = c.session)
<1>1. cmds \in [VMS -> Seq(Command)] /\ \A w \in VMS : OnceEach(cmds[w])
  BY DEF BroadcastTypeOK, Command, StartsAreNew
<1>2. \A w \in VMS : cmds'[w] = cmds[w] \/ (w = v /\ cmds'[w] = Append(cmds[w], c))
  BY <1>1 DEF Send
<1>3. ASSUME NEW w \in VMS, w = v, cmds'[w] = Append(cmds[w], c)
      PROVE  /\ OnceEach(cmds'[w])
             /\ \A s : HasStart(cmds'[w], s) => HasStart(cmds[w], s) \/ (c.start /\ s = c.session)
  BY <1>1, <1>3, AppendStarts
<1> QED
  BY <1>1, <1>2, <1>3

LEMMA TakeStarts ==
  ASSUME BroadcastTypeOK, StartsAreNew, NEW v \in VMS, TakeCommand(v)
  PROVE  /\ \A w \in VMS : OnceEach(cmds'[w]) /\ \A s : HasStart(cmds'[w], s) => HasStart(cmds[w], s)
         /\ LET s == Head(cmds[v]).session IN
            Head(cmds[v]).start => HasStart(cmds[v], s) /\ \A w \in VMS : ~ HasStart(cmds'[w], s)
<1>1. cmds \in [VMS -> Seq(Command)] /\ cmds[v] # << >> /\ Head(cmds[v]) \in Command
  BY Takes DEF BroadcastTypeOK, Command, TakeCommand
<1>2. \A w \in VMS : (w = v /\ cmds'[w] = Tail(cmds[w])) \/ (w # v /\ cmds'[w] = cmds[w])
  BY <1>1 DEF TakeCommand
<1>3. \A w \in VMS : OnceEach(cmds'[w]) /\ \A s : HasStart(cmds'[w], s) => HasStart(cmds[w], s)
  <2>1. \A w \in VMS : OnceEach(cmds[w]) /\ cmds[w] \in Seq(Command)
    BY <1>1 DEF StartsAreNew
  <2>2. OnceEach(Tail(cmds[v])) /\ \A s : HasStart(Tail(cmds[v]), s) => HasStart(cmds[v], s)
    BY <1>1, <2>1, TailStarts
  <2> QED
    BY <1>2, <2>1, <2>2
<1>4. ASSUME Head(cmds[v]).start, NEW w \in VMS PROVE HasStart(cmds[v], Head(cmds[v]).session) /\ ~ HasStart(cmds'[w], Head(cmds[v]).session)
  <2>1. HasStart(cmds[v], Head(cmds[v]).session) /\ Head(cmds[v]).session \in Session
    BY <1>1, <1>4, TailStarts DEF Command
  <2>2. CASE w = v
    BY <1>1, <1>2, <1>4, <2>2, TailStarts DEF StartsAreNew
  <2>3. CASE w # v
    BY <1>2, <2>1, <2>3 DEF StartsAreNew, StartIsNew
  <2> QED
    BY <2>1, <2>2, <2>3
<1> QED
  BY <1>3, <1>4

LEMMA DrawStarts ==
  ASSUME BroadcastTypeOK, FreshIsUnknown, StartsAreNew, FreshIsUnused, [Next]_vars,
         NEW v \in VMS, NEW t \in BOOLEAN, start(v, t), UNCHANGED serving
  PROVE  StartsAreNew' /\ FreshIsUnused'
<1>1. PICK s \in fresh : /\ Client[s] = v /\ fresh' = fresh \ {s}
                         /\ m_session' = [m_session EXCEPT ![v] = s] /\ Send(v, START(s, t))
  BY DEF start
<1>2. s \in Session /\ s # NoSession /\ START(s, t) \in Command /\ START(s, t).start /\ START(s, t).session = s
  BY <1>1, SessionAssumption, Commands DEF BroadcastTypeOK, START
<1>3. Undrawn(s) /\ \A w \in VMS : m_session[w] # s
  BY <1>1 DEF FreshIsUnknown, FreshIsUnused
<1>4. \A w \in VMS : ~ HasStart(cmds[w], s)
  <2>1. ASSUME NEW w \in VMS, NEW i \in DOMAIN cmds[w], cmds[w][i].start, cmds[w][i].session = s PROVE FALSE
    <3>1. cmds[w] \in Seq(Command)
      BY DEF BroadcastTypeOK, Command
    <3>2. cmds[w][i] \in Command /\ Has(cmds[w], cmds[w][i])
      BY <2>1, <3>1 DEF Has
    <3> QED
      BY <1>3, <2>1, <3>2 DEF Undrawn
  <2> QED
    BY <2>1 DEF HasStart
<1>5. NotReady(s)
  BY <1>3 DEF Undrawn, NotReady
<1>6. /\ \A w \in VMS : OnceEach(cmds'[w])
      /\ \A w \in VMS : \A r : HasStart(cmds'[w], r) => HasStart(cmds[w], r) \/ (w = v /\ r = s)
  BY <1>1, <1>2, <1>4, SendStarts
<1>7. ASSUME NEW w \in VMS, NEW r \in Session, HasStart(cmds'[w], r) PROVE StartIsNew(w, r)'
  <2>1. CASE HasStart(cmds[w], r)
    <3>1. StartIsNew(w, r) /\ r # NoSession
      BY <1>7, <2>1, SessionAssumption DEF StartsAreNew
    <3>2. NotReady(r)'
      BY <3>1, StepNotReady DEF StartIsNew
    <3> QED
      BY <1>1, <3>1, <3>2 DEF StartIsNew
  <2>2. CASE w = v /\ r = s
    <3>1. NotReady(s)' /\ serving # s
      BY <1>2, <1>3, <1>5, StepNotReady DEF Undrawn
    <3> QED
      BY <1>1, <2>2, <3>1 DEF StartIsNew
  <2> QED
    BY <1>6, <1>7, <2>1, <2>2
<1>8. FreshIsUnused'
  <2>1. \A w \in VMS : m_session'[w] = m_session[w] \/ m_session'[w] = s
    BY <1>1 DEF BroadcastTypeOK
  <2> QED
    BY <1>1, <2>1 DEF FreshIsUnused
<1> QED
  BY <1>6, <1>7, <1>8 DEF StartsAreNew

LEMMA StepStarts ==
  ASSUME BroadcastTypeOK, FreshIsUnknown, StartsAreNew, FreshIsUnused, [Next]_vars
  PROVE  StartsAreNew' /\ FreshIsUnused'
<1>1. ASSUME fresh' = fresh, \A w \in VMS : m_session'[w] \in {m_session[w], NoSession} PROVE FreshIsUnused'
  BY <1>1, SessionAssumption DEF FreshIsUnused, BroadcastTypeOK
<1>2. ASSUME UNCHANGED <<cmds, fresh>>, serving' \in {serving, NoSession} PROVE StartsAreNew'
  BY <1>2, StartsKept DEF StartsAreNew
<1>3. ASSUME NEW v \in VMS, ClickOn(v) \/ Confirm(v) PROVE StartsAreNew' /\ FreshIsUnused'
  <2>1. CASE \E t \in BOOLEAN : start(v, t)
    <3>1. UNCHANGED serving
      BY <1>3 DEF ClickOn, Confirm, rpic
    <3> QED
      BY <2>1, <3>1, DrawStarts
  <2>2. CASE ~ \E t \in BOOLEAN : start(v, t)
    <3>1. UNCHANGED <<cmds, fresh, m_session, serving>>
      BY <1>3, <2>2 DEF ClickOn, Confirm, rpic, BroadcastTypeOK
    <3> QED
      BY <1>1, <1>2, <3>1
  <2> QED
    BY <2>1, <2>2
<1>4. ASSUME NEW v \in VMS, stop(v) \/ IsRefused(v) PROVE StartsAreNew' /\ FreshIsUnused'
  <2>1. m_session[v] \in Session /\ Send(v, STOP(m_session[v])) /\ Forget(v) /\ UNCHANGED <<fresh, serving>>
    BY <1>4, SessionIsDrawn DEF stop, IsRefused, rpic
  <2>2. STOP(m_session[v]) \in Command /\ ~ STOP(m_session[v]).start
    BY <2>1, Commands DEF STOP
  <2>3. \A w \in VMS : OnceEach(cmds'[w]) /\ \A s : HasStart(cmds'[w], s) => HasStart(cmds[w], s)
    BY <2>1, <2>2, SendStarts
  <2>4. \A w \in VMS : m_session'[w] \in {m_session[w], NoSession}
    BY <2>1 DEF Forget, BroadcastTypeOK
  <2> QED
    BY <1>1, <2>1, <2>3, <2>4, StartsKept
<1>5. ASSUME NEW v \in VMS, ClickOnOther(v) \/ Cancel(v) \/ check_link_alive(v) \/ on_remote_state(v)
                            \/ DropAnswer(v) \/ IsBusy(v) \/ GoesOnAir(v)
      PROVE  StartsAreNew' /\ FreshIsUnused'
  <2>1. UNCHANGED <<cmds, fresh, serving>> /\ \A w \in VMS : m_session'[w] \in {m_session[w], NoSession}
    BY <1>5 DEF ClickOnOther, Cancel, check_link_alive, on_remote_state, DropAnswer, IsBusy, GoesOnAir, Forget, rpic, client, BroadcastTypeOK
  <2> QED
    BY <1>1, <1>2, <2>1
<1>6. ASSUME NEW v \in VMS, HandleStart(v) PROVE StartsAreNew' /\ FreshIsUnused'
  <2> DEFINE s == Head(cmds[v]).session
  <2>1. /\ \A w \in VMS : OnceEach(cmds'[w]) /\ \A r : HasStart(cmds'[w], r) => HasStart(cmds[w], r)
        /\ \A w \in VMS : ~ HasStart(cmds'[w], s)
    BY <1>6, TakeStarts DEF HandleStart
  <2>2. UNCHANGED <<fresh, m_session>> /\ serving = NoSession /\ serving' \in {s, NoSession}
    BY <1>6 DEF HandleStart, TakeCommand, Unseen, client, Arbiter!Take, Arbiter!Busy
  <2>3. ASSUME NEW w \in VMS, NEW r \in Session, HasStart(cmds'[w], r) PROVE StartIsNew(w, r)'
    <3>1. StartIsNew(w, r) /\ r # NoSession /\ r # s
      BY <2>1, <2>3, SessionAssumption DEF StartsAreNew
    <3>2. NotReady(r)'
      BY <3>1, StepNotReady DEF StartIsNew
    <3> QED
      BY <2>2, <3>1, <3>2 DEF StartIsNew
  <2> QED
    BY <1>1, <2>1, <2>2, <2>3 DEF StartsAreNew
<1>7. ASSUME NEW v \in VMS, HandleStop(v) PROVE StartsAreNew' /\ FreshIsUnused'
  <2>1. \A w \in VMS : OnceEach(cmds'[w]) /\ \A r : HasStart(cmds'[w], r) => HasStart(cmds[w], r)
    BY <1>7, TakeStarts DEF HandleStop
  <2>2. UNCHANGED <<fresh, m_session, serving>>
    BY <1>7 DEF HandleStop, Unseen, client, rpic, Arbiter!End
  <2> QED
    BY <1>1, <2>1, <2>2, StartsKept
<1>8. ASSUME NEW v \in VMS, LinkDown(v) \/ LinkUp(v) PROVE StartsAreNew' /\ FreshIsUnused'
  <2>1. UNCHANGED <<fresh, m_session, serving>>
    BY <1>8 DEF LinkDown, LinkUp, rpic, client
  <2>2. \A w \in VMS : cmds'[w] = cmds[w] \/ cmds'[w] = << >>
    BY <1>8 DEF LinkDown, LinkUp, BroadcastTypeOK
  <2>3. OnceEach(<< >>) /\ \A s : ~ HasStart(<< >>, s)
    BY DEF OnceEach, HasStart
  <2>4. \A w \in VMS : OnceEach(cmds'[w]) /\ \A r : HasStart(cmds'[w], r) => HasStart(cmds[w], r)
    BY <2>2, <2>3 DEF StartsAreNew
  <2> QED
    BY <1>1, <2>1, <2>4, StartsKept
<1>9. CASE (\E s \in Session : TellEnd(s)) \/ Serve \/ Fire \/ Expire \/ ExpireTooSoon \/ UNCHANGED vars
  <2>1. UNCHANGED <<fresh, m_session, cmds>>
    BY <1>9 DEF TellEnd, Serve, Fire, Expire, ExpireTooSoon, Unseen, vars, client
  <2>2. serving' \in {serving, NoSession}
    BY <1>9 DEF TellEnd, Serve, Fire, Expire, ExpireTooSoon, vars, rpic, Arbiter!TellEnd, Arbiter!Ready, Arbiter!Refuse,
                Arbiter!ReceiverFails, Arbiter!Announce, Arbiter!Undo, Arbiter!End
  <2> QED
    BY <1>1, <1>2, <2>1, <2>2
<1>10. CASE Restart
  <2>1. OnceEach(<< >>) /\ \A s : ~ HasStart(<< >>, s)
    BY DEF OnceEach, HasStart
  <2>2. \A w \in VMS : cmds'[w] = << >>
    BY <1>10 DEF Restart
  <2> QED
    BY <1>1, <1>10, <2>1, <2>2 DEF Restart, client, StartsAreNew
<1> QED
  BY <1>3, <1>4, <1>5, <1>6, <1>7, <1>8, <1>9, <1>10 DEF Next, ClickOff, on_ready_timeout, on_ready

-----------------------------------------------------------------------------
(* The owner, the state and the answer.                                    *)

LEMMA SameInTime ==
  ASSUME BroadcastTypeOK, InTime, [Next]_vars, UNCHANGED rpic
  PROVE  InTime'
<1>1. UNCHANGED <<owner, serving, ended, state, answer>>
  BY DEF rpic
<1>2. Announced'
  BY <1>1 DEF InTime, Announced
<1>3. ASSUME serving # NoSession, answer.session # serving PROVE NotReady(serving)'
  <2>1. NotReady(serving) /\ serving \in Session
    BY <1>3 DEF InTime, Served, BroadcastTypeOK, Id
  <2>2. ~ Arbiter!Ready
    BY <1>1, <1>3 DEF Arbiter!Ready
  <2> QED
    BY <1>1, <2>1, <2>2, StepNotReady
<1>4. ASSUME owner # NoSession, serving = NoSession, NotReady(owner) PROVE NotReady(owner)'
  BY <1>1, <1>4, StepNotReady DEF BroadcastTypeOK, Id
<1>5. Served'
  BY <1>1, <1>3 DEF InTime, Served
<1>6. OwnerShown'
  BY <1>1, <1>4 DEF InTime, OwnerShown
<1> QED
  BY <1>2, <1>5, <1>6 DEF InTime

LEMMA EndInTime ==
  ASSUME InTime, Arbiter!End, serving = NoSession
  PROVE  InTime'
<1>1. Served' /\ OwnerShown'
  BY DEF Arbiter!End, Served, OwnerShown
<1>2. Announced'
  BY DEF Arbiter!End, Arbiter!Ended, InTime, Announced
<1> QED
  BY <1>1, <1>2 DEF InTime

LEMMA StartInTime ==
  ASSUME BroadcastTypeOK, StartsAreNew, InTime, [Next]_vars, NEW v \in VMS, HandleStart(v)
  PROVE  InTime'
<1>1. PICK s \in Session : s = Head(cmds[v]).session
  BY Takes DEF HandleStart, Command
<1>0. serving = NoSession
  BY DEF HandleStart, TakeCommand
<1>2. CASE Arbiter!Take(s, Head(cmds[v]).takeover)
  <2>1. owner' = s /\ serving' = s /\ s # NoSession /\ state' = state
    BY <1>2, SessionAssumption DEF Arbiter!Take
  <2>2. NotReady(s)'
    <3>1. StartIsNew(v, s)
      BY <1>1, TakeStarts DEF HandleStart, StartsAreNew
    <3> QED
      BY <3>1, StepNotReady DEF StartIsNew
  <2>3. Served' /\ OwnerShown'
    BY <2>1, <2>2 DEF Served, OwnerShown
  <2>4. Announced'
    BY <1>2, <2>1 DEF Arbiter!Take, Arbiter!Ended, InTime, Announced
  <2> QED
    BY <2>3, <2>4 DEF InTime
<1>3. CASE Arbiter!Busy(s)
  <2>1. UNCHANGED <<owner, serving, ended, state>>
    BY <1>3 DEF Arbiter!Busy
  <2>2. Served' /\ Announced'
    BY <1>0, <2>1 DEF Served, InTime, Announced
  <2>3. ASSUME owner # NoSession, NotReady(owner) PROVE NotReady(owner)'
    BY <1>0, <2>1, <2>3, StepNotReady DEF BroadcastTypeOK, Id
  <2>4. OwnerShown'
    BY <1>0, <2>1, <2>3 DEF InTime, OwnerShown
  <2> QED
    BY <2>2, <2>4 DEF InTime
<1> QED
  BY <1>1, <1>2, <1>3 DEF HandleStart

LEMMA ServeInTime ==
  ASSUME BroadcastTypeOK, InTime, [Next]_vars, Serve
  PROVE  InTime'
<1>1. serving # NoSession /\ serving \in Session /\ owner = serving
  BY DEF Serve, InTime, Served, BroadcastTypeOK, Id, Arbiter!Ready, Arbiter!Refuse, Arbiter!ReceiverFails, Arbiter!Announce, Arbiter!Undo
<1>2. CASE Arbiter!Ready
  BY <1>1, <1>2 DEF Arbiter!Ready, InTime, Served, Announced, OwnerShown
<1>3. CASE Arbiter!ReceiverFails
  BY <1>1, <1>3 DEF Arbiter!ReceiverFails, InTime, Served, Announced, OwnerShown
<1>4. CASE Arbiter!Refuse /\ Unanswered
  <2>1. ~ Arbiter!Ready
    BY <1>4 DEF Arbiter!Refuse, Arbiter!Ready
  <2>2. owner' = owner /\ NotReady(owner)
    BY <1>1, <1>4 DEF Arbiter!Refuse, InTime, Served, Unanswered
  <2>3. NotReady(owner)'
    BY <1>1, <2>1, <2>2, StepNotReady
  <2>4. OwnerShown'
    BY <2>3 DEF OwnerShown
  <2> QED
    BY <1>4, <2>4 DEF Arbiter!Refuse, InTime, Served, Announced
<1>5. CASE Arbiter!Announce /\ ended = {}
  BY <1>1, <1>5 DEF Arbiter!Announce, InTime, Served, Announced, OwnerShown
<1>6. CASE Arbiter!Undo
  BY <1>1, <1>6 DEF Arbiter!Undo, Arbiter!Ended, InTime, Served, Announced, OwnerShown
<1> QED
  BY <1>2, <1>3, <1>4, <1>5, <1>6 DEF Serve

LEMMA TellInTime ==
  ASSUME BroadcastTypeOK, InTime, [Next]_vars, NEW s \in Session, TellEnd(s)
  PROVE  InTime'
<1>1. UNCHANGED <<owner, serving, answer>> /\ s \in ended /\ ~ state'.active
  BY DEF TellEnd, Arbiter!TellEnd
<1>2. ~ Arbiter!Ready \/ answer.session = serving
  BY <1>1 DEF Arbiter!Ready
<1>3. ASSUME serving # NoSession, answer.session # serving PROVE NotReady(serving)'
  BY <1>1, <1>2, <1>3, StepNotReady DEF InTime, Served, BroadcastTypeOK, Id
<1>4. ASSUME owner # NoSession, serving = NoSession PROVE NotReady(owner)'
  BY <1>1, <1>4, StepNotReady DEF InTime, OwnerShown, BroadcastTypeOK, Id
<1>5. Served'
  BY <1>1, <1>3 DEF InTime, Served
<1>6. OwnerShown' /\ Announced'
  BY <1>1, <1>4 DEF OwnerShown, Announced
<1> QED
  BY <1>5, <1>6 DEF InTime

LEMMA StepInTime ==
  ASSUME BroadcastTypeOK, StartsAreNew, InTime, [Next]_vars, "slow" \notin mishaps'
  PROVE  InTime'
<1>1. ASSUME NEW v \in VMS,
             \/ ClickOn(v) \/ ClickOnOther(v) \/ Confirm(v) \/ Cancel(v) \/ ClickOff(v) \/ on_ready_timeout(v)
             \/ check_link_alive(v) \/ on_remote_state(v) \/ on_ready(v) \/ LinkDown(v) \/ LinkUp(v)
      PROVE  UNCHANGED rpic
  BY <1>1 DEF ClickOn, ClickOnOther, Confirm, Cancel, ClickOff, on_ready_timeout, check_link_alive, stop,
              on_remote_state, on_ready, DropAnswer, IsBusy, GoesOnAir, IsRefused, LinkDown, LinkUp
<1>2. ASSUME NEW v \in VMS, HandleStop(v) PROVE InTime'
  BY <1>2, SameInTime, EndInTime DEF HandleStop, TakeCommand
<1>3. CASE Fire \/ Expire
  <2>1. Arbiter!End /\ (serving = NoSession \/ serving # owner)
    BY <1>3 DEF Fire, Expire
  <2> QED
    BY <2>1, EndInTime DEF InTime, Served
<1>4. ~ ExpireTooSoon
  BY DEF ExpireTooSoon, Suffer
<1>5. CASE Restart
  BY <1>5 DEF Restart, InTime, Served, Announced, OwnerShown
<1>6. CASE UNCHANGED vars
  BY <1>6, SameInTime DEF vars
<1> QED
  BY <1>1, <1>2, <1>3, <1>4, <1>5, <1>6, SameInTime, StartInTime, ServeInTime, TellInTime DEF Next

LEMMA StepDisplay == BroadcastInv /\ DisplayInv /\ [Next]_vars => DisplayInv'
<1> SUFFICES ASSUME BroadcastInv, DisplayInv, [Next]_vars PROVE DisplayInv'
  OBVIOUS
<1>1. BroadcastTypeOK /\ FreshIsUnknown
  BY DEF BroadcastInv
<1>2. ToldAsShown /\ StartsAreNew /\ FreshIsUnused /\ ("slow" \notin mishaps => InTime)
  BY DEF DisplayInv
<1>3. mishaps \subseteq mishaps'
  BY DEF Next, ClickOn, ClickOnOther, Confirm, Cancel, ClickOff, on_ready_timeout, check_link_alive, stop,
         on_remote_state, on_ready, DropAnswer, IsBusy, GoesOnAir, IsRefused, HandleStart, HandleStop, TellEnd, Serve,
         Fire, Expire, ExpireTooSoon, Restart, LinkDown, LinkUp, Unseen, Suffer, vars
<1>4. ToldAsShown'
  BY <1>1, <1>2, StepTold
<1>5. StartsAreNew' /\ FreshIsUnused'
  BY <1>1, <1>2, StepStarts
<1>6. "slow" \notin mishaps' => InTime'
  BY <1>1, <1>2, <1>3, StepInTime
<1> QED
  BY <1>4, <1>5, <1>6 DEF DisplayInv

LEMMA InitDisplay == Init => DisplayInv
<1> SUFFICES ASSUME Init PROVE DisplayInv
  OBVIOUS
<1>1. /\ owner = NoSession /\ serving = NoSession /\ ~ state.active
      /\ \A v \in VMS : inbox[v] = << >> /\ cmds[v] = << >> /\ remote[v] = NoSession /\ m_session[v] = NoSession
  BY DEF Init, Arbiter!Init
<1>2. Views(<< >>, NoSession, NoSession) /\ OnceEach(<< >>) /\ \A s : ~ HasStart(<< >>, s)
  BY DEF Views, OnceEach, HasStart
<1>3. ToldAsShown
  BY <1>1, <1>2 DEF ToldAsShown, Shown
<1>4. StartsAreNew
  BY <1>1, <1>2 DEF StartsAreNew
<1>5. FreshIsUnused
  BY <1>1, SessionAssumption, InitTypes DEF FreshIsUnused, BroadcastTypeOK
<1>6. InTime
  BY <1>1 DEF InTime, Served, Announced, OwnerShown
<1> QED
  BY <1>3, <1>4, <1>5, <1>6 DEF DisplayInv

(* Unless a session expired too soon, a VMS that handled everything shows  *)
(* who owns the speaker, whatever links were lost and came back, unnoticed *)
(* or not, and however often RPi C was started again                       *)
(* (broadcast_controller.cpp:186, audio_arbiter.c:224).                    *)
THEOREM DisplayFollowsOwner == Spec => []DisplayIsOwner
<1>1. BroadcastInv /\ DisplayInv => DisplayIsOwner
  <2> SUFFICES ASSUME BroadcastTypeOK, ToldAsShown, InTime, NEW v \in VMS, Settled(v) PROVE remote[v] = owner
    BY DEF DisplayIsOwner, BroadcastInv, DisplayInv
  <2>1. remote[v] = Shown
    <3>1. Views(<< >>, remote[v], Shown)
      BY DEF ToldAsShown, Settled
    <3>2. DOMAIN << >> = {}
      OBVIOUS
    <3> QED
      BY <3>1, <3>2 DEF Views
  <2>2. CASE owner = NoSession
    BY <2>1, <2>2 DEF InTime, Announced, Settled, Shown
  <2>3. CASE owner # NoSession
    <3>1. OnAir(owner) /\ Client[owner] \in VMS
      BY <2>3, SessionAssumption DEF Settled, BroadcastTypeOK, Id
    <3>2. ~ NotReady(owner)
      BY <3>1 DEF OnAir, NotReady
    <3> QED
      BY <2>1, <2>3, <3>2 DEF InTime, OwnerShown, Settled, Shown
  <2> QED
    BY <2>2, <2>3
<1> QED
  BY <1>1, InitInv, StepInv, InitDisplay, StepDisplay, PTL DEF Spec
=============================================================================
