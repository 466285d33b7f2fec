------------------------------- MODULE Speaker -------------------------------
(***************************************************************************)
(* What the operators' VMSs can see of the speaker arbiter of RPi C: who   *)
(* owns the speaker, the answers to START, and the retained state.  One    *)
(* START is served at a time and takes as long as it takes; meanwhile the  *)
(* session may be ended, and the end of a session is told some time after  *)
(* it happened.                                                            *)
(***************************************************************************)
CONSTANTS
  Session,    \* broadcast session ids
  NoSession   \* 0 in the messages

VARIABLES
  owner,     \* the session that owns the speaker
  serving,   \* the session whose START is being served
  ended,     \* sessions that ended and whose end was not told yet
  state,     \* the retained state message
  answer     \* the last answer to a START

speaker == <<owner, serving, ended, state, answer>>

Init ==
  /\ owner = NoSession /\ serving = NoSession /\ ended = {}
  /\ state = [active |-> FALSE, session |-> NoSession]
  /\ answer = [session |-> NoSession, result |-> "none"]

Ended(s) == IF s = NoSession THEN ended ELSE ended \cup {s}

(* A START: of the owner it changes nothing, of another session it is      *)
(* refused, unless it takes over.                                          *)
Take(s, takeover) ==
  /\ serving = NoSession
  /\ owner # NoSession => takeover /\ owner # s
  /\ owner' = s /\ serving' = s
  /\ ended' = Ended(owner)
  /\ UNCHANGED <<state, answer>>

Busy(s) ==
  /\ serving = NoSession
  /\ owner \notin {NoSession, s}
  /\ answer' = [session |-> s, result |-> "busy"]
  /\ UNCHANGED <<owner, serving, ended, state>>

Ready ==
  /\ serving # NoSession
  /\ answer' = [session |-> serving, result |-> "ready"]
  /\ UNCHANGED <<owner, serving, ended, state>>

(* Only a session that was answered READY is announced.                    *)
Announce ==
  /\ serving # NoSession
  /\ answer = [session |-> serving, result |-> "ready"]
  /\ state' = [active |-> TRUE, session |-> serving]
  /\ serving' = NoSession
  /\ UNCHANGED <<owner, ended, answer>>

(* The speaker is not free or the receiver not ready: the session keeps    *)
(* what it has until it is stopped or expires.                             *)
Refuse ==
  /\ serving # NoSession
  /\ answer' = [session |-> serving, result |-> "error"]
  /\ serving' = NoSession
  /\ UNCHANGED <<owner, ended, state>>

(* The receiver does not start: the answer, then the session is undone.    *)
ReceiverFails ==
  /\ serving # NoSession
  /\ answer' = [session |-> serving, result |-> "error"]
  /\ UNCHANGED <<owner, serving, ended, state>>

Undo ==
  /\ serving # NoSession
  /\ answer = [session |-> serving, result |-> "error"]
  /\ owner' = IF owner = serving THEN NoSession ELSE owner
  /\ ended' = Ended(serving)
  /\ serving' = NoSession
  /\ UNCHANGED <<state, answer>>

(* STOP of the owner, expiry, or a fire.                                   *)
End ==
  /\ owner # NoSession
  /\ owner' = NoSession
  /\ ended' = Ended(owner)
  /\ UNCHANGED <<serving, state, answer>>

(* A session that ended twice is told twice.                               *)
TellEnd(s) ==
  /\ s \in ended
  /\ state' = [active |-> FALSE, session |-> s]
  /\ ended' \in {ended, ended \ {s}}
  /\ UNCHANGED <<owner, serving, answer>>

(* After a reconnection the state is told as it is.                        *)
Republish ==
  /\ serving = NoSession
  /\ state' = [active |-> owner # NoSession, session |-> owner]
  /\ UNCHANGED <<owner, serving, ended, answer>>

Next ==
  \/ \E s \in Session : Busy(s) \/ TellEnd(s) \/ \E takeover \in BOOLEAN : Take(s, takeover)
  \/ Ready \/ Announce \/ Refuse \/ ReceiverFails \/ Undo \/ End \/ Republish

Spec == Init /\ [][Next]_speaker
=============================================================================
