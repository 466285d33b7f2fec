----------------------------- MODULE MatrixLink -----------------------------
(***************************************************************************)
(* From RPi B to the LED matrix: the mailboxes and the Modbus worker of    *)
(* rpic_app, the serial line, and the Modbus task of the panel             *)
(* (ModbusSlave) up to its registers; LedPanel goes on from there.         *)
(*                                                                         *)
(* RPi B publishes tracks, fire bitmaps and zone readings; the MQTT        *)
(* callback posts each to a mailbox of its own, where the newest wins; one *)
(* worker takes the mailboxes in turn and writes each value with up to     *)
(* three attempts, then goes on whatever came of it.  Bitmaps and readings *)
(* are retained by the broker, and RPi B publishes them again, after 30 s, *)
(* in the callback of a sensor message: the bitmap in any zone's, a        *)
(* reading only in one of its zone with a valid temperature and humidity.  *)
(* Tracks are neither retained nor repeated.                               *)
(*                                                                         *)
(* The faults, MaxFaults of them: a frame or an answer is lost or damaged, *)
(* an answer comes after the worker has given up waiting, a write fails,   *)
(* the serial port cannot be opened or goes away under the daemon, the     *)
(* daemon stops or is killed, the panel is reset, a sensor fails.          *)
(***************************************************************************)
EXTENDS ModbusSlave

CONSTANTS
  MATRIX_RETRIES,   \* attempts after the first
  MaxPosts,         \* bound: publications of every slot
  MaxFaults         \* bound: faults

ASSUME LinkAssumption ==
  /\ MATRIX_RETRIES \in Nat
  /\ MaxPosts \in [Slot -> Nat] /\ MaxFaults \in Nat

VARIABLES
  latest,    \* what RPi B published last, for every slot
  sensor,    \* for every zone, its RPi A's messages: valid, without valid readings, silent
  app,       \* the daemon: up, stopping, clearing the track, down
  port,      \* its serial port: open, gone since it was opened, none (and no worker)
  slots,     \* for every slot the value that waits in it, or a sequence of none
  cursor,    \* where the worker's next round starts
  worker,    \* the worker: where it is, its job and the attempts left to it
  answers,   \* answers in the serial buffer
  faults     \* faults so far

linkVars == <<latest, sensor, app, port, slots, cursor, worker, answers>>
vars == <<linkVars, faults, slaveVars>>

Idle == [at |-> "wait", job |-> << >>, left |-> 0]

Init ==
  /\ SlaveInit
  /\ latest = [s \in Slot |-> Blank(s)] /\ sensor = [s \in ZoneSlot |-> "valid"]
  /\ app = "down" /\ port = "none" /\ slots = [s \in Slot |-> << >>] /\ cursor = 0
  /\ worker = Idle /\ answers = 0 /\ faults = 0

Fault == faults < MaxFaults /\ faults' = faults + 1
NoFault == UNCHANGED faults

----------------------------------------------------------------------------
(* The MQTT callback.                                                      *)

\* post(): a value that still waits in the slot is overwritten.
post(s, v) == slots' = [slots EXCEPT ![s] = <<v>>]

\* worker_alive, in a daemon whose callbacks come.
Working == app = "up" /\ port # "none"

\* The three handlers: without a worker nothing is posted, and a daemon whose
\* port did not open is without for good.
Handle(s, v) ==
  IF Working THEN post(s, v) ELSE UNCHANGED slots

\* RPi B publishes something new: a track at any time, a bitmap on a transition
\* or a start, a reading when a valid one differs from the last.
Publish(s) ==
  /\ latest[s].n < MaxPosts[s]
  /\ s \in ZoneSlot => sensor[s] = "valid"
  /\ \E c \in Contents(s) :
       LET v == [n |-> latest[s].n + 1, c |-> c]
       IN latest' = [latest EXCEPT ![s] = v] /\ Handle(s, v)
  /\ UNCHANGED <<sensor, app, port, cursor, worker, answers, slaveVars>> /\ NoFault

Again(s) ==
  /\ s # SLOT_TRACK /\ latest[s].n > 0 /\ Working
  /\ Handle(s, latest[s])
  /\ UNCHANGED <<latest, sensor, app, port, cursor, worker, answers, slaveVars>> /\ NoFault

\* on_sensor, in a cycle that finds the block 30 s old.
Cycle(s) ==
  IF s = SLOT_FIRE THEN \E z \in ZoneSlot : sensor[z] # "silent" ELSE sensor[s] = "valid"

Refresh(s) == Again(s) /\ Cycle(s)

\* The broker delivers what it retains whenever the daemon connects.
Reconnect(s) == Again(s)

SensorFails(z) ==
  /\ sensor[z] = "valid" /\ Fault
  /\ \E v \in {"invalid", "silent"} : sensor' = [sensor EXCEPT ![z] = v]
  /\ UNCHANGED <<latest, app, port, slots, cursor, worker, answers, slaveVars>>

SensorRecovers(z) ==
  /\ sensor[z] # "valid"
  /\ sensor' = [sensor EXCEPT ![z] = "valid"]
  /\ UNCHANGED <<latest, app, port, slots, cursor, worker, answers, slaveVars>> /\ NoFault

----------------------------------------------------------------------------
(* The worker.                                                             *)

pending(s) == slots[s] # << >>

InTurn(i) == (cursor + i) % SLOT_COUNT

\* Slip: the round always starts at the first slot.
TakePending_FirstAlways ==
  LET s == CHOOSE s \in Slot : pending(s) /\ \A t \in Slot : t < s => ~pending(t)
  IN /\ Working /\ worker.at = "wait" /\ \E t \in Slot : pending(t)
     /\ worker' = [at |-> "send", job |-> <<[slot |-> s, value |-> slots[s][1]]>>,
                   left |-> MATRIX_RETRIES]
     /\ slots' = [slots EXCEPT ![s] = << >>]
     /\ UNCHANGED <<cursor, latest, sensor, app, port, answers, slaveVars>> /\ NoFault

TakePending ==
  /\ Working /\ worker.at = "wait"
  /\ \E i \in Slot :
       LET s == InTurn(i)
       IN /\ pending(s) /\ \A j \in 0..i - 1 : ~pending(InTurn(j))
          /\ worker' = [at |-> "send", job |-> <<[slot |-> s, value |-> slots[s][1]]>>,
                        left |-> MATRIX_RETRIES]
          /\ slots' = [slots EXCEPT ![s] = << >>]
          /\ cursor' = (s + 1) % SLOT_COUNT
  /\ UNCHANGED <<latest, sensor, app, port, answers, slaveVars>> /\ NoFault

\* matrix_link_cleanup joins the worker, which leaves whatever waits, and
\* clears the track with a write of its own.
Leave ==
  /\ app = "stopping" /\ worker.at = "wait"
  /\ app' = "clearing"
  /\ worker' = [at |-> "send", left |-> MATRIX_RETRIES,
                job |-> <<[slot |-> SLOT_TRACK,
                           value |-> [n |-> latest[SLOT_TRACK].n, c |-> {"none"}]]>>]
  /\ UNCHANGED <<latest, sensor, port, slots, cursor, answers, slaveVars>> /\ NoFault

(* mb_request: an attempt drops what the buffer still holds and sends.     *)

Attempt ==
  /\ worker.at = "send" /\ port = "open"
  /\ answers' = 0
  /\ worker' = [worker EXCEPT !.at = "answer"]
  /\ UNCHANGED <<latest, sensor, app, port, slots, cursor>>

Send ==
  /\ Attempt /\ NoFault
  /\ QueueFrame(worker.job[1])
  /\ UNCHANGED <<handling, reg, aged>>

SendLost == Attempt /\ Fault /\ UNCHANGED slaveVars

\* The job is over, whether it succeeded or not; only the log tells.  After the
\* track was cleared the port is closed and the daemon ends.
JobEnds ==
  /\ worker' = Idle
  /\ app' = IF app = "clearing" THEN "down" ELSE app
  /\ port' = IF app = "clearing" THEN "none" ELSE port

\* A failing write ends the job at once, and on a port that is gone each fails:
\* it is not opened again.
WriteFails ==
  /\ worker.at = "send"
  /\ JobEnds /\ answers' = 0
  /\ UNCHANGED <<latest, sensor, slots, cursor, slaveVars>>
  /\ IF port = "gone" THEN NoFault ELSE Fault

\* Any intact answer ends the job: one to an earlier job is taken for a failure
\* or, if block and size agree, for success.
Receive ==
  /\ worker.at = "answer" /\ answers = 1
  /\ JobEnds /\ answers' = 0
  /\ UNCHANGED <<latest, sensor, slots, cursor, slaveVars>> /\ NoFault

\* An attempt without an intact answer is repeated while any is left.
AttemptFails ==
  /\ IF worker.left > 0
     THEN worker' = [worker EXCEPT !.at = "send", !.left = @ - 1] /\ UNCHANGED <<app, port>>
     ELSE JobEnds
  /\ UNCHANGED <<latest, sensor, slots, cursor, slaveVars>>

\* A damaged answer; two answers read together look like one.
ReceiveDamaged ==
  /\ worker.at = "answer" /\ answers > 0
  /\ AttemptFails /\ answers' = 0
  /\ IF answers = 1 THEN Fault ELSE NoFault

\* Nothing is on its way and the 200 ms pass; or the answer is too slow.
Timeout ==
  /\ worker.at = "answer" /\ answers = 0
  /\ AttemptFails /\ UNCHANGED answers
  /\ IF port = "gone" \/ (rxQueue = << >> /\ handling = << >>) THEN NoFault ELSE Fault

WorkerStep == TakePending \/ Leave \/ Send \/ (port = "gone" /\ WriteFails) \/ Receive \/ ReceiveDamaged \/ Timeout

----------------------------------------------------------------------------
(* The daemon is stopped or killed and started again, its port goes away;  *)
(* the panel is reset.                                                     *)

\* matrix_link_cleanup has nothing to do without a worker.
StopApp ==
  /\ app = "up" /\ Fault
  /\ app' = IF port = "none" THEN "down" ELSE "stopping"
  /\ UNCHANGED <<latest, sensor, port, slots, cursor, worker, answers, slaveVars>>

KillApp ==
  /\ app # "down" /\ Fault
  /\ app' = "down" /\ port' = "none" /\ worker' = Idle
  /\ UNCHANGED <<latest, sensor, slots, cursor, answers, slaveVars>>

\* matrix_link_init; when it fails the daemon goes on without the link.
StartApp(opens) ==
  /\ app = "down"
  /\ app' = "up" /\ slots' = [s \in Slot |-> << >>] /\ cursor' = 0
  /\ port' = IF opens THEN "open" ELSE "none"
  /\ worker' = Idle /\ answers' = 0
  /\ UNCHANGED <<latest, sensor, slaveVars>>
  /\ IF opens THEN NoFault ELSE Fault

PortGoes ==
  /\ port = "open" /\ Fault
  /\ port' = "gone" /\ answers' = 0
  /\ UNCHANGED <<latest, sensor, app, slots, cursor, worker, slaveVars>>

ResetPanel ==
  /\ Fault
  /\ SlaveReset
  /\ UNCHANGED linkVars

----------------------------------------------------------------------------
(* The whole.  An answer leaves the panel when a frame has been handled;   *)
(* modbus_open drops what came before.                                     *)

Answers ==
  /\ Answering
  /\ answers' = IF port = "open" THEN answers + 1 ELSE answers
  /\ UNCHANGED <<latest, sensor, app, port, slots, cursor, worker>> /\ NoFault

Works == Silent /\ UNCHANGED linkVars /\ NoFault
Age == TenSecondsPass /\ UNCHANGED linkVars /\ NoFault

Next ==
  \/ \E s \in Slot : Publish(s) \/ Refresh(s) \/ Reconnect(s)
  \/ \E z \in ZoneSlot : SensorFails(z) \/ SensorRecovers(z)
  \/ WorkerStep \/ SendLost \/ WriteFails
  \/ StopApp \/ KillApp \/ PortGoes \/ ResetPanel
  \/ \E opens \in BOOLEAN : StartApp(opens)
  \/ Answers \/ Works \/ Age

Spec == Init /\ [][Next]_vars

(* The worker and the Modbus task go on, time passes, a zone whose RPi A     *)
(* sends goes on sending, and a daemon that is down is started again: by     *)
(* systemd, or because its stop was half of a restart.                       *)
FairSpec ==
  /\ Spec
  /\ \A s \in Slot : WF_vars(Refresh(s))
  /\ WF_vars(WorkerStep) /\ WF_vars(StartApp(TRUE))
  /\ WF_vars(Answers \/ Works) /\ WF_vars(Age)

----------------------------------------------------------------------------
(* Properties.                                                             *)

TypeOK ==
  /\ SlaveTypeOK
  /\ sensor \in [ZoneSlot -> {"valid", "invalid", "silent"}]
  /\ app \in {"up", "stopping", "clearing", "down"} /\ port \in {"open", "gone", "none"}
  /\ app = "down" => port = "none"
  /\ worker.at \in {"wait", "send", "answer"} /\ worker.left \in 0..MATRIX_RETRIES
  /\ (worker.job = << >>) = (worker.at = "wait")
  /\ \A s \in Slot : Len(slots[s]) <= 1 /\ latest[s].n <= MaxPosts[s]
  /\ cursor \in Slot /\ answers \in 0..MODBUS_QUEUE_DEPTH + 1

\* The fire bitmap and the readings RPi B published last are in the registers in
\* the end, temperature and humidity of the same publication, through losses,
\* failing writes, late answers, restarts of the daemon and resets of the panel,
\* and whichever block is published over and over: no mailbox starves.  For that
\* the daemon must keep a serial port, and sensor messages must go on coming:
\* for a reading valid ones of its zone, for the bitmap any.
RegistersSettle ==
  \A s \in Slot \ {SLOT_TRACK} :
    <>[](port = "open" /\ Cycle(s)) => <>[](reg[s] = Both(latest[s]))

\* A track nobody renews leaves the registers, whether it was cleared, its
\* clearing was lost, its sender died or was stopped with it.
TrackClears == <>[](~IsPoint(reg[SLOT_TRACK][1]))

=============================================================================
