# GuardX in TLA+

TLA+ models of the GuardX site-safety system, the TLC runs that check them and the
TLAPS proofs about them. Every module is a translation of the code under `src/`;
`PROJECT.json` names for each definition the lines it stands for.

## 1. The system

GuardX watches a building of up to four zones with sensors and cameras and answers
fires, intruders and crowds. It is spread over five kinds of node that talk MQTT.

| Node | Part | State it keeps | Operations |
|---|---|---|---|
| RPi A | publisher `rpia_app` and its drivers | press counter of the button, sequence number | one poll loop: publish sensors every second, presses at once |
| RPi B | `rpib_ingest` | none | relays sensor messages |
| RPi B | `rpib_decision` | a state machine per zone, thresholds | sensor message (which also repeats readings and, every 30 s, the bitmap), manual clear, threshold reload, boot publication |
| RPi B | `rpib_dispatch` | none but its MQTT client | forwards each command to the zone's RPi C and records it |
| RPi B | record queue and writer (`rpib_app`) | two rings, database handle, fallback file, last event id | push, pop, insert, reconnect, flush |
| RPi B | `guardx_poller` | incidents, fan level, cursors | camera polling, congestion alert, re-alert, fan level |
| RPi B | `guardx_mqttd` | sessions, tracked target | VMS queries, login, track display |
| RPi C | actuator registry and drivers | pump, valve, fan | safe state, command |
| RPi C | shutter driver | direction, door position, two limit sensors and their work items | command, motor thread, edge, sampling, load, unload |
| RPi C | speaker arbiter | fire, broadcast session, pause, playback | fire bitmap, START, STOP, keepalive, siren repetition, expiry |
| RPi C | fan control | AUTO, level, fire, duty | level, fire, AUTO, manual |
| RPi C | matrix link | a mailbox per block, cursor, worker | three message handlers, worker, cleanup |
| STM32 | LED panel firmware | register bank, screen snapshot, picture | Modbus task, UI task, Render task |
| VMS | broadcast controller | mode, session, the session it sees on the air | start, take over, stop, READY, retained state, link watch |
| VMS | the rest of the operator's program (Qt) | login, views | manual clear, settings, displays |

How they interact:

    RPi A --sensors--> rpib_ingest --> rpib_decision --commands--> rpib_dispatch --> RPi C actuators
                            |               |    |                      |
                            v               |    +--fire_event--> DB <--+ audit
                     record queue --> DB    +--retained fire bitmap--> RPi C: siren, fan, shutter, LED panel
    VMS --START/STOP/KEEPALIVE--> speaker arbiter --READY, retained state--> every VMS
    poller --incidents--> DB, --retained fan level--> RPi C fan --retained fan state--> VMS
    mqttd --tracks, queries--> RPi C panel, VMS

What makes it hard: MQTT queues with retries at two hops and clean sessions at the
end; rows and publications that can fail one without the other; restarts in the middle
of a fire; a message callback, a worker and a playback thread around one loudspeaker,
each of which blocks; several operators with clocks of their own who share that
loudspeaker; a serial line whose answers can come late; three FreeRTOS tasks of
different priority over shared variables; a motor whose stop is decided by work items
that sample without the lock; rings that drop.

## 2. Correctness of each part, and where it stands

| Part | What makes it correct | Modules | Status |
|---|---|---|---|
| Fire decision | a fire only after `n_confirm` dangerous cycles, advice only when earned, dead sensors never decide | Fusion, FireDecision | checked, safety proved |
| Record queue and writer | nothing lost without being counted, no lost wakeup, flush before exit, commands stay with their event | Ring, RecordQueue, DbQueue, DbWriter | checked, safety proved, queue refines RecordQueue |
| Fire response path | commands have their row, the audit is complete, a node that missed nothing agrees, the bitmap heals | FireService | checked, safety proved |
| Speaker arbiter | the pause and the receiver live only with a broadcast, READY is true, the siren keeps sounding, no claim outlives its session | Speaker, AudioArbiter | checked, safety proved, refines Speaker |
| VMS broadcast controller | who loses the speaker hears of it, the display is the owner, nobody holds the speaker in silence | Speaker, Broadcast | checked, safety proved but for the confirmation of a take-over, which fails (section 5) |
| Fan and congestion | one owner of the fan at a time, 0 % in a fire, screen and fan agree on the level, the fan follows | FanOwner, FanControl, CongestionAlert, Ventilation | checked, safety proved, refines FanOwner |
| Shutter driver | the motor always stops at its end, nothing runs on a sensor that was given back | ShutterMotor | checked, safety proved |
| Matrix link and panel registers | no value goes back, everything settles, tracks expire | ModbusSlave, MatrixLink | checked, safety proved |
| LED panel | no stale picture, the picture follows the registers | ModbusSlave, LedPanel | checked, safety proved |

## 3. The modules and the code

**Fusion** is the arithmetic of `decision.c`: fuzzification, composite score over the
surviving channels, cross confirmation, dominant cause. Floating point becomes exact
integers: percents and hundredths, with `total >= threshold` multiplied out.
**FireDecision** is the machine over it: `zone[z]` is `decision_zone_t`, `cfg` the
configuration, `Feed`, `ForceRecover` and `Reload` the three entries. `dangerRun`,
`safeRun` and `lastMsg` are history: they record what the sensors showed, and the
properties compare the machine with them. **MCFireDecision** holds the readings and rows of the instances.

**Ring** is the index arithmetic of a ring with one free slot. **DbQueue** is
`db_queue.c`: two rings, one mutex, one condition variable, the shutdown flag; each
critical section is an action, sleeping and waking included (spurious wakeups too).
**RecordQueue** is what a caller may rely on: two lossy first-in-first-out queues with
counted losses, events before sensors; `IsRecordQueue` is the refinement. **DbWriter**
puts the producers in front (a transition followed by its commands) and both backends
behind: inserts that fail, a COMMIT whose answer is lost, reconnection, the JSONL
fallback and what `backfill_jsonl.sql` makes of its line order. An append to that file
may fail too (`write_line_end`, inside `write_jsonl`), or leave half a line that the next one is
glued to (`torn`), and as in the code the worker goes on as if it had succeeded; what that
costs is what `EveryRecordAccounted` has to explain.

**FireService** is the path from a confirmed fire to the actuators over three
processes and the broker. `out` and `dout` are the QoS 1 clients (unacknowledged
messages, how many are sent, sent again after a reconnect), `inbox` and `link` what the
broker queues for its subscribers (dropped with a clean session), `retained` the
bitmap. How a fire is confirmed is left to FireDecision: here it may be at any time.
A client may refuse one message of a scenario, which `pub_cmd` passes over (`Taken`). A
driver may refuse a command or the CLOSE of a rising edge, which the node only logs
(`DISPATCH_CMD`, `matrix_link_handle_fire`). `ManualCommand` is the VMS's way to the pump,
the valve and the shutter past `rpib_decision`: the server asks for an administrator and
nothing else, in a fire too. `strayed` is history: the actuators whose last decision
command was refused, or that a VMS command has moved since. Simplifications: a VMS command
is taken as it arrives at the node, and for the node of any zone, though the server
addresses the node named `rpic` only; one that moves nothing, because it was refused or
the actuator is there already, is not a step (it would only forget that the actuator had
strayed). Zones have ids 1 to 4: `publish_fire_display` leaves out others, so the bitmap
would not show them.

**AudioArbiter** has the callback thread, the arbiter's worker, the playback thread of
`audio_event.c` and the receiver unit. A critical section is one action and what a
thread does after unlocking is another; a blocking call is a place where the thread
waits. Time is a choice: limited waits may give up, keepalives may grow stale.
**Speaker** is what a VMS can see of all that: an owner, one START at a time, answers,
and sessions whose end is told some time after it happened. `IsSpeaker` maps `owner` to
`broadcast_session`, `serving` to the session the callback works for, and `ended` to
the sessions that the callback or the worker has ended under the lock and has still to
announce outside it.

**Broadcast** composes several VMSs (`broadcast_controller.cpp`, the click logic of
`broadcast_control_row.cpp`, the connection signals of `mqtt_link.cpp`) with that same
Speaker: because AudioArbiter implements it, what holds here holds of the arbiter with
its threads. A VMS handler is one action, since the Qt program has one thread; the
confirmation dialog of a take-over is a state of its own, because its event loop lets
messages be handled while it is open. Commands, and answers with states, travel in
order between one sender and one receiver. Simplifications, all named in the module:
the ends that are due are told before RPi C announces the next broadcast, an answer
goes to the VMS that drew the session (the others drop it, `DropAnswer`), a session
expires only when its owner is not on the air, unless the mishap `slow` lets it expire
around a long START, the reason field is left out, and RPi C's own link does not break
(its repetition of the state is `Republish` in AudioArbiter). Nor is a START delivered
twice: QoS 1 may, and then the second one is a repetition by the owner
(`StartAgain` in AudioArbiter, `Take` of one's own session in Speaker), but the VMS's link
does not make it happen. The VMS's nested dialogs are one flag (`IsBusy`).

**FanControl** is `fan_control.c`: every function holds its lock from the first test to
the last assignment, so a call is an action; what varies is whether the PWM driver takes
a write. `fan` is what the driver took last and `applied_duty` what the program wrote
down. **FanOwner** is what `fan_control.h` promises: fire before AUTO before the
operator, and only the owner moves the fan. **CongestionAlert** is the incident machine
of `task_alert.cpp` with its hysteresis band, the level kept per zone, and
`task_fan_level.cpp`, which publishes the worst one; a judgement is a transaction that
may fail before its commit or in doubt during it, and the poller may restart anywhere.
**Ventilation** joins both over the broker's retained level. **Faults** is the budget of
faults that composed components share.

**ShutterMotor** is `rpic_stepper.c`: commands, the motor thread, and for either end
the interrupt, the debounce work item with its samples taken without the lock, and the
steps by which the module is loaded and unloaded. `door` and `closed` are the world:
where the door is, and what the contacts say while they bounce. The device takes
commands from the moment its node exists, before the contacts are read and their
interrupts requested; the model's commands begin with the loaded module.

**ModbusSlave** is the STM32's register bank and Modbus task. A block of registers is
two words, because that is enough to see a torn write: a zone's temperature and
humidity are stored one after the other, a track inside a critical section. Every value
carries the number of its publication. **MatrixLink** puts in front of it the mailboxes
and the worker of `matrix_link.c` and the request loop of `modbus_rtu.c`, with a serial
line that loses, damages and delays, a write that fails (`WriteFails`, no retry) and a
serial port that does not open or goes away and is not opened again while the daemon
lives (`port`): its posts are then dropped or its jobs end in failure. On RPi B's side
`Refresh` is `on_sensor`, which repeats the bitmap when 30 s have passed and a zone's
reading only while `temphum_valid`: `sensor` says of each zone whether its messages come
with a valid reading, with an invalid one, or not at all. **LedPanel** puts behind it the UI and Render
tasks; there the frames come as MatrixLink delivers them: for each block in order, some
repeated, some missing, which is proved of MatrixLink (`FramesComeInOrder`). The two were one module first; apart they allow
more faults in the one and more pictures in the other.

The `MC*` modules give values to constants (`MCFireDecision` also states one rule that
needs a number of the header). A definition introduced by a comment that begins with
"Slip:" is a plausible mistake in the definition that follows it; it takes no part in
the specification and exists to show that a property would notice.

## 4. The runs

Runs listed in `PROJECT.json`, all with two workers in less than five minutes.

| Run | Question | Bounds |
|---|---|---|
| `fire_decision` | do confirmation, advice and cause follow what the sensors showed? | one zone; eleven kinds of reading, four rows of thresholds, runs of 5 |
| `db_writer` | do the rings implement two lossy queues, is every record written, counted or explained by a failed append, do commands keep their event? | four records, event ring of three, sensor ring of two (one slot each stays free), any failure of the database, one failed append |
| `fire_service` | do row, commands, audit and field agree? | one zone, two transitions, one clear, one failure of any kind, one VMS command; pump and shutter followed, one message in flight per client |
| `fire_heals` | do bitmap and latch recover for good? | two transitions, two failures, no commands |
| `audio` | does every broadcast end, by those entitled, with its pause; are READY, receiver and claim true; does the siren sound; is it a Speaker? | two sessions, four messages; orderly behaviours, and ones with missed keepalives and a failing systemctl |
| `broadcast` | does the loser hear, is the display the owner, is the speaker ever kept in silence? | two VMSs; a session each, or two sessions of one; one outage, blip, late START or restart of RPi C |
| `ventilation` | who moves the fan, how far may the record lie, does the fan follow? | two zones, one duty set by hand, one fault (failed or doubtful commit, refused write, restart of either side or of the broker); links break without limit |
| `shutter` | does the motor stop, and nothing outlive its sensor? | three samples of which two LOW, two bounces, commands without limit |
| `matrix_link` | do the registers never go back, and settle? | one zone, two publications of the bitmap, one of the other blocks, any two faults, one retry |
| `led_panel` | does the picture follow the registers? | one zone, two bits, three frames or selections, queue of two |
| `clear_pump`, `refused_close` | findings, see section 5 | |

Why the bounds are enough. Zones do not share state inside a component (only the
configuration, the queues and the worst level), so one zone with the others' messages
left out shows the protocol, and where zones meet (the worst level) there are two; the
proofs hold for every set. Small rings make full, empty and wrapped-around
happen in a few steps. One or two faults at any place meet each step of a protocol whose
repair is a single later message. Two sessions are the fewest with a take-over and a
late STOP; two VMSs the fewest with a loser who must be told, and two sessions of one VMS
show an answer that comes late for the earlier attempt. Three samples and two bounces let
a contact open between the samples of one verdict and close again before the next; the
code takes more samples, which only lengthens the same interleaving, and the proofs hold
for every number. One retry of the two in the code already gives a repeated frame and a
late answer to the one before. The pump is the actuator with commands in both directions,
the shutter the one that is closed by the bitmap as well; the valve is driven like the
shutter without the latter. Each bound is a constant and each guard that uses one
says so.

Deadlock is checked in `fire_decision`, `ventilation` and `refused_close`. Elsewhere a
bounded environment, an unloaded module or a worker that left may stop the system.

**Fairness.** A thread that can go on does: weak fairness of the worker, the
callback, the playback, the receiver, the FreeRTOS tasks, the motor thread, the work
items, a VMS's event loop. Time passes (the ten seconds of a track, the screen period,
the keepalive limit). A contact comes to rest. The broker delivers to a connected
subscriber, clients reconnect (`reconnect_delay_set`, systemd). The bitmap and the
readings are published again by the sensor callback of `rpib_decision`
(`main.c:402-410`), not by a timer: a reading with every sensor message that carries a
valid one, the bitmap with the first message of any zone after 30 s. DisplayHeals assumes
that some zone's messages keep coming; RegistersSettle has it as a premise. Ventilation
has strong fairness in two places, and `FanFollows` needs both: the poller's refresh
finds a tick with a broker that takes its message again and again
although ticks may also pass without it, and a connection that keeps breaking lasts,
again and again, long enough to deliver what is retained. Nothing assumes that a fault
ends: their number is bounded instead. Where expiry is possible a broadcaster is
assumed to fall silent some day (an operator's broadcast ends), never to send keepalives.

Several properties deserve a word. `FieldFollowsDecision` has the premise that none of the
zone's commands went missing, because the code really does lose them (see
`Reissue.cfg`), and it speaks of an actuator only where its driver accepted the last
command and no VMS command has moved it since, because the code repeats none. The commands
on the way to a zone are part of the premise, so what it excludes is an actuator that
comes to rest with an older command, out of order or sent twice. `AuditIsComplete` is the
converse of what the dispatcher's comment says: no command that got through lacks its
row, unless the insert failed. `RegistersSettle` says that the bitmap and the readings arrive through
losses, restarts and resets, *because* they are published again: for each block it has the
premise that from some time on the port is open and sensor messages that trigger its
refresh come (any zone's for the bitmap, that zone's valid ones for a reading). A sensor
that dies leaves its last reading on the panel, as the comment at `main.c:290-298` says;
`TrackClears` is the
part the panel does alone. `NeverBackwards` is about publications, not values: a mailbox,
a retry and a queue may each delay one, never let it overtake. `PanelFollows` claims
readings and points while the screens rotate: with a screen selected by hand the
snapshot is not renewed. The properties that begin with `Orderly` hold while keepalives
arrive and the receiver can be stopped; `ReadyRace.cfg` and `OrphanReceiver.cfg` show
that they fail without. `EndIsHeard` excludes a restart of RPi C and a link that is back
before anyone notices, since retained messages are then the only news (`OnAir.cfg`).
`FanFollows` excludes refused writes, because an equal level is not applied again
(`fan_control.c:122`).

Type invariants are proved where a proof module exists (section 6). In the other
modules the type invariant stands beside the specification and may be added to any of
its cfgs; no listed run spends a property on it.

## 5. Where the code differs from what it says

Listed as findings, each with a run in which TLC shows it:

* `clear_pump`: a manual clear whose row cannot be written leaves the zone NORMAL and
  the pump running; the next clear is taken as already done.
* `refused_close`: a shutter that begins to open, its lower contact still closed, and is
  told to close refuses the command with EBUSY, notes that it is held at the bottom, and
  goes on opening. The CLOSE of a fire is one of these commands
  (`matrix_link.c:353`), and it is given once per rising edge.

Further configurations in this directory refute other promises and can be run by hand
(`tlc -config X.cfg <module>`):

| Configuration | Module | Refuted promise |
|---|---|---|
| `DefaultRelax.cfg` | MCFireDecision | sensors that fail for less than a minute do not relax the judging (`decision.h:171`): the static `cfg` leaves out `freeze_relax_cycles`, so after a boot without the database the first invalid cycle does |
| `CommandOwner.cfg` | MCDbWriter | a command belongs to the event inserted last (`db_queue.h:80`): not when the full ring dropped that event |
| `BackfillOwner.cfg` | MCDbWriter | line order is ownership (`backfill_jsonl.sql:121`): not when the transition reached PostgreSQL and its commands did not |
| `Reissue.cfg` | FireService | RPi B issues missed commands again (`mqtt_sub.c:429`): nothing does |
| `RestartResponse.cfg` | FireService | actuators stay on over an engine restart (`decision.h:67`): the empty boot bitmap drops the siren and the fan interlock |
| `OrphanReceiver.cfg` | MCAudioArbiter | the receiver lives only with a broadcast: a session that expires while its START blocks is cleaned up first and its receiver started afterwards |
| `ReadyRace.cfg` | MCAudioArbiter | READY means the speaker is held (`audio_arbiter.c:558`): an expiry's late cleanup may stop the new receiver |
| `Takeover.cfg` | MCAudioArbiter | a take-over hands the speaker over (`audio_arbiter.h:48`): the old receiver is not stopped |
| `SirenAfterClear.cfg` | MCAudioArbiter | a clear cuts the siren (`audio_arbiter.c:403`): the worker may ask for one more |
| `OnAir.cfg` | MCBroadcast | a VMS on the air owns the speaker, or learns that it does not: not after RPi C restarted, whose retained state names no session |
| `SilentTakeover.cfg` | MCBroadcast | a take-over was confirmed just before: the confirmation of one attempt is used for a later owner |
| `FrozenPanel.cfg` | MCLedPanel | the points leave in the next 100 ms cycle (`modbus_slave.c:479`): with a fixed screen 2 never, in the rotation within a few screens |

Read in the code while modelling, and not run:

* A dangerous cycle that falls into the freeze does not break the count of calm ones
  (`decision.c:256`), though the advice is described as that many in a row (`decision.h:278`).
* A zone whose signal is unknown counts as -1 for the fan and drops out of the worst
  level while its incident stays open on the screen (`task_alert.cpp:62`, `:195`).
* The dispatcher records a command when the client has taken it, and libmosquitto sends
  it after the callback: a crash in between leaves an audit row for a command that never
  went out, while `rpib_dispatch/app/src/main.c:7` records only what really went out.
* `db_writer.c:175` (`rpib_app`) says that the data are preserved when the insert fails:
  not when the append to the fallback file fails as well, which is neither looked at nor
  counted.
* The VMS sends no manual commands to a zone that burns (`device_control_page.cpp:1440`); the
  server does not refuse them.
* `matrix_link.c` opens its port once: a missing adapter at start, or one that goes away,
  leaves the panel without news until the daemon restarts, and nothing restarts it.
* A missed end of a congestion silences the sound of the next critical one (`mqtt_sub.c:274`).
* A crash between the commit of an incident and its publication loses the alert
  (`task_alert.cpp:185`).
* The button's debounce timer is deleted before its interrupt is freed (`rpia_button.c:345`).
* The stepper's device node can be opened before its limits are read and their interrupts
  requested.
* A row of `fire_threshold` with `fire_score_threshold` 0, with both override scores 0, or
  with no weight on spark and infrared passes `validate` (`threshold_loader.c:27`) and
  the CHECKs of its table. Under the first two, dead sensors confirm a fire, although
  both channels "must be valid" for the second (`decision.c:168`, which relies on dead
  channels scoring 0, and 0 reaches an override of 0); under any of
  them the cause may be a dead sensor. TLC shows each when such a row is added to `MCConfigs`, and
  `CauseWasAlive` (section 6) names what a row must have.
* A bouncing contact may have a verdict of arrival given on samples taken before the last
  command.

## 6. What is proved

All with TLAPS, for every value of the constants that satisfies the named ASSUMEs.

**FireDecisionProofs.** The inductive invariant is `IInv`: `TypeOK`,
`HitsAreARun` (the counters of the code never exceed the runs the history recorded, and
a zone in FIRE has no confirmation hits left) and `n_recover > 0`. It is needed
because the advice compares a counter with a threshold that a reload may change under
it; the counters alone say nothing of what the sensors showed. From it follow
`TypeCorrect`, `AdviceIsEarned`, `FireIsConfirmed` and, with the step lemmas,
`WeakSurvivorsAreIgnored`. `FeedNormalEffect` and `FeedFireEffect` describe a cycle once
and are cited everywhere. `CauseWasAlive` needs the fusion arithmetic: the dominant
channel contributes most (`DominantContributesMost`), and a dangerous cycle has a channel
that contributes at all, which can only be a live one (`DangerHasEvidence`). The latter
is false of some rows that the program accepts (section 5), so the theorem has a premise,
`EvidenceCounts` of every configuration; the compiled-in one and the rows of the run
satisfy it.

**FireServiceProofs** (every set of zones, every kind and number of failures, every
window). `ServiceInv` strengthens the types: every message in every queue, at the
decision, at the broker, at the dispatcher and for each RPi C, is `Recorded`, that is, a
bitmap, or a command whose `fire_event` row has its zone and its sense. Rows are only
appended, so what is recorded stays recorded (`RecordedGrows`), and the only step that
makes commands, a transition, appends their row first (`ActRecords`). The property speaks
of the messages as one set, which no single step carries over; the invariant speaks of
each queue. From it follow `ServiceTypes` and `CommandsRecorded`.

The other half, `FieldInv`, is for `FieldIsAsDecided`: what the decision wants of an
actuator is already so, or the last command about it in some queue says so and nothing
behind that one, in that queue or any nearer to the actuator, is lost. It is stated as a
chain through the five places of a command (`OnOut`, `OnInbox`, `OnDout`, `OnLink`,
`Done`), because a queue may hold an older command for the same actuator and a client may
send twice what it sent once; each step of the broker is then one lemma on how a link of
the chain moves on. A refused driver and a VMS command change only the last place,
`Done`, which then has the actuator among the strayed; the CLOSE of a rising edge can only
agree with a decision that has the zone burning, or with one that leaves the shutter
alone.

`AuditInv`, for `AuditMissesNothing`, follows the commands of each zone's last transition:
unless one of them was lost, each waits in the decision's client, not yet sent, or is
queued for the dispatcher, or was tried there and has its row or a failed insert. A resend
only puts commands back in the first place (`AheadMoves`), and whatever a crash, a
broken link or a refusal takes out of a place counts as lost (`AheadIsLost`).

**DbWriterProofs** (every pair of ring capacities, every scenario, every number of
records; from `ScenarioAssumption`: the commands of a scenario differ). It begins with
what push, pop, full and empty do to the sequence of records that a ring holds. On them rest, for
DbQueue alone and with producers and backends, that the worker never sleeps while there is
work (`NoLostWakeup`), that it leaves only with both rings empty (`FlushBeforeExit`) and
that every step is a step of RecordQueue or none (`QueueRefinement`). `WriterInv` adds
the rest: each record is in one place, but for the row of a commit that went unnoticed
(`HeldOnce`), a command is not recorded twice (`KeysOnce`), and the commands in the ring,
in hand and still to come stand behind their transition as in one chain (`OrderInv`). The
chain is needed because the rows speak of the past only: what attaches the next command is a
variable of the writer, set by whichever transition went through last. Failed appends are
counted as history, and a record is missing only at the cost of one of them, at most two
records each: its own and the one glued to a torn line. From it follow
`NothingVanishes`, `RowsJoinTheirEvent` and `LinesKeepTheirEvent`: the nearest transition
line above a command line is never younger than the command's transition, and is that one
if it has a line at all.

**AudioArbiterProofs** (every set of sessions, every kind of mishap). `ArbiterInv` has
two halves. `CommonInv` holds always: a session just started cannot be stale yet, what
the callback and the worker hold is what they act on, and a pause is covered, that is,
there is a broadcast or somebody on the way who will lift it. The last is what makes
`PauseEnds` inductive: the property speaks of the moments between messages only.
`OrderlyInv` holds in behaviours without expiries and failed stops: the callback is
alone, so the receiver is covered by a broadcast or by who will stop it, the playback is
quiet from the moment START saw it quiet, and a claim on the broker is true or about to
be withdrawn. It gives `ReceiverEnds`, `ClaimsAreTrue` and `HeldWhenReady`.
`OnlyOwnStops` goes through the five actions that change the session.
`ArbiterRefinesSpeaker` shows the refinement that Broadcast relies on.

**BroadcastProofs** (every set of VMSs and sessions, every budget). `LosersHear` rests on
`BroadcastInv`: a session not yet drawn is nowhere, and from the moment its START is
served a committed VMS owns the speaker or the end of its session is due or in its inbox
(`NoneIsDeaf`). The property itself speaks of VMSs on the air only, which is too late to
be inductive. `DisplayFollowsOwner` rests on `DisplayInv`: the last state on its way to a
VMS, or what it shows if there is none, is the retained one (`ToldAsShown`), and the
retained one is the owner, or an announcement or an end is still due (`InTime`). Its
premise is that no session expired around its own long START.

**VentilationProofs** (every set of zones, every budget). The types, `LedgerIsTheFan`,
`NoFanInFire`, `StateShown`, `VerdictIsIncident`, `WorstIsPublished`, and `OneOwner`,
the refinement of FanOwner.

**ShutterMotorProofs** (every number of samples, majority and bounces). `ShutterInv` adds
to the types that the motor is driven only while the module is loaded, that a sensor
that is not live has nothing queued or running, and that a motor turning towards a closed
contact has its stop on the way. `MotorIsWatched` and `FreedSensors` follow.

**MatrixProofs** (every number of zones, queue depth, number of attempts, publications and
faults). `LinkInv` follows a publication from the broker to the registers: mailbox,
worker, line, receive queue, handler, register, and what is further on is never newer.
The queue is in order of publication and nothing in it is older than the registers
(`FramesComeInOrder`, which is what LedPanel takes for granted). Damage, repeats and late
answers only repeat or drop an element of that chain, so `RegistersGoForward` follows;
a reset of the panel is the one exception and the property names it. `LinkTyped` adds
that there are never more answers on the line than the panel can have in hand.
The same lemmas about the Modbus task, fed by any line that keeps the order of a
block, give `PanelTyped` and `PanelGoesForward` of LedPanel; `SnapshotIsDrawn` is about
its other tasks: with no revision counted or about to be, the picture is made of the
snapshot.

Every safety and action property of the passing runs is stated by one of these theorems.
Only model-checked: liveness (`CloseReturns`, `SessionsEnd`, `SirenSounds`,
`NobodyHoldsInSilence`, `FanFollows`, `StopsAtEnd`, `DisplayHeals`, `RegistersSettle`,
`TrackClears`, `PanelFollows`), since fairness is defined with ENABLED. What TLC refutes
(section 5) has no theorem either.

## 7. Not modelled, and why

* Most of the lines under `src/` are vendored: the STM32 HAL, CMSIS and FreeRTOS make up
  the larger part of them and have no behaviour of GuardX in them. The map can therefore
  cover a small share of the lines only.
* The VMS's views, charts and video, the neural network, the benchmarks and the reports
  have no protocol state.
* Sensor ingest and the VMS queries keep no state; camera polling keeps a cursor.
* The sensor drivers and the other drivers of RPi C are one transaction under one
  lock. FireDecision takes every pattern of valid and invalid readings, FanControl and
  FireService a driver that accepts or refuses; values outside the range a driver accepts
  are not sent.
* Login sessions (failure lock, lifetime), the emergency button (debounce timer, counter
  shared with its interrupt) and the selection of the tracked target have state of their
  own and are the next candidates.
* In AudioArbiter a playback fails to open its device only when somebody else holds it;
  other failures of the open skip one request in the same way, and the siren is asked for
  again a few seconds later.
* Of QoS 1, Broadcast and MatrixLink count a publication when it reaches the callback:
  what the client sends twice is one message there (FireService has both).
* Of modelled parts: the alert rows and the crowd sound of the poller, the RPi C link in
  Broadcast, the microphone, the cleanup of the arbiter at exit, the coil sequence and the
  load errors of the stepper, brightness, diagnostics and UART recovery of the panel.

## 8. Plan

Done: fire decision, record queue and writer, fire response path, speaker arbiter, matrix
link and panel, fan and congestion, shutter, broadcast controller. What is left, in
order of worth:

1. The steps of the liveness arguments that need no fairness: what a step towards the
   goal never undoes (the registers' way to the last publication, the queue's way to empty).
2. The alerts of the poller beside its levels (the crash between commit and publication)
   and the crowd sound of RPi C that answers them.
3. RPi C's link in Broadcast.
4. LoginSessions, ButtonEvents, TrackPlan.
