------------------------------- MODULE DbQueue -------------------------------
(***************************************************************************)
(* rpib_app/app/src/db_queue.c: the queue between the callback thread,     *)
(* which judges and publishes, and the worker thread, which does the slow  *)
(* I/O.  Two rings share one mutex and one condition variable; every       *)
(* public function holds the mutex from its first to its last access, so   *)
(* each is one step, except that a pop on two empty rings gives the mutex  *)
(* up and sleeps until it is signalled (or wakes for no reason).           *)
(***************************************************************************)
EXTENDS Ring

CONSTANTS
  Rec,         \* the db_record_t values that may be pushed
  Blank,       \* the zeroed record the buffers start with
  SensorCap,   \* DB_QUEUE_SENSOR_CAP
  EventCap,    \* DB_QUEUE_EVENT_CAP
  MaxDropped   \* bound: no push once a ring has dropped this many

ASSUME CapAssumption  == SensorCap \in Nat \ {0, 1} /\ EventCap \in Nat \ {0, 1}
ASSUME RecAssumption  == Blank \in Rec
ASSUME DropAssumption == MaxDropped \in Nat

VARIABLES
  sensor_ring, event_ring,
  shutting_down,
  workerAt,   \* where the worker is: in pop, asleep on cv, writing, or gone
  rec         \* the record db_queue_pop handed the worker

rings     == <<sensor_ring, event_ring>>
queueVars == <<rings, shutting_down, workerAt, rec>>

Init ==
  /\ sensor_ring = NewRing(SensorCap, Blank)
  /\ event_ring = NewRing(EventCap, Blank)
  /\ shutting_down = FALSE
  /\ workerAt = "popping"
  /\ rec = Blank

BothEmpty == ring_empty(event_ring) /\ ring_empty(sensor_ring)

(* pthread_cond_signal, or _broadcast: there is one waiter at most.        *)
Woken(at) == IF at = "asleep" THEN "popping" ELSE at

(* Slip: buttons are queued with the sensor cycles.                        *)
ringOf_mixed(r) == IF r.type \in {"sensor", "button"} THEN "sensor" ELSE "event"

(* Slip: only commands are urgent enough for the event ring.               *)
ringOf_urgent(r) == IF r.type = "command" THEN "event" ELSE "sensor"

(* Which ring takes a record: only sensor cycles go to the sensor ring.    *)
ringOf(r) == IF r.type = "sensor" THEN "sensor" ELSE "event"

db_queue_push(r) ==
  /\ \/ /\ ringOf(r) = "sensor"
        /\ sensor_ring' = ring_push(sensor_ring, r)
        /\ UNCHANGED event_ring
     \/ /\ ringOf(r) = "event"
        /\ event_ring' = ring_push(event_ring, r)
        /\ UNCHANGED sensor_ring
  /\ workerAt' = Woken(workerAt)
  /\ UNCHANGED <<shutting_down, rec>>

(* Slip: a pop during the shutdown returns 0 with records still waiting.   *)
MayLeaveEarly == shutting_down

(* db_queue_pop returns 0: nothing waits and the writer is closing.        *)
MayLeave == BothEmpty /\ shutting_down

Sleep ==
  /\ workerAt = "popping"
  /\ BothEmpty /\ ~shutting_down
  /\ workerAt' = "asleep"
  /\ UNCHANGED <<rings, shutting_down, rec>>

SpuriousWakeup ==
  /\ workerAt = "asleep"
  /\ workerAt' = "popping"
  /\ UNCHANGED <<rings, shutting_down, rec>>

PopEvent ==
  /\ workerAt = "popping"
  /\ ~ring_empty(event_ring)
  /\ rec' = Oldest(event_ring)
  /\ event_ring' = ring_pop(event_ring)
  /\ workerAt' = "writing"
  /\ UNCHANGED <<sensor_ring, shutting_down>>

PopSensor ==
  /\ workerAt = "popping"
  /\ ring_empty(event_ring) /\ ~ring_empty(sensor_ring)
  /\ rec' = Oldest(sensor_ring)
  /\ sensor_ring' = ring_pop(sensor_ring)
  /\ workerAt' = "writing"
  /\ UNCHANGED <<event_ring, shutting_down>>

Leave ==
  /\ workerAt = "popping"
  /\ MayLeave
  /\ workerAt' = "exited"
  /\ UNCHANGED <<rings, shutting_down, rec>>

db_queue_pop == Sleep \/ PopEvent \/ PopSensor \/ Leave

(* Slip: the flag is set without waking the worker.                        *)
db_queue_shutdown_silent ==
  /\ ~shutting_down
  /\ shutting_down' = TRUE
  /\ UNCHANGED <<rings, rec, workerAt>>

db_queue_shutdown ==
  /\ ~shutting_down
  /\ shutting_down' = TRUE
  /\ workerAt' = Woken(workerAt)
  /\ UNCHANGED <<rings, rec>>

(* The worker is done with rec and pops again.                             *)
WriteDone ==
  /\ workerAt = "writing"
  /\ workerAt' = "popping"
  /\ UNCHANGED <<rings, shutting_down, rec>>

WithinBound == sensor_ring.dropped < MaxDropped /\ event_ring.dropped < MaxDropped

(* db_write_* pushes only while worker_running, which db_writer_close      *)
(* clears after the worker has left.                                       *)
Produce == \E r \in Rec : WithinBound /\ workerAt # "exited" /\ db_queue_push(r)

Next == Produce \/ SpuriousWakeup \/ db_queue_pop \/ db_queue_shutdown \/ WriteDone

Spec == Init /\ [][Next]_queueVars

-----------------------------------------------------------------------------
TypeOK ==
  /\ sensor_ring \in RingType(SensorCap, Rec)
  /\ event_ring \in RingType(EventCap, Rec)
  /\ shutting_down \in BOOLEAN
  /\ workerAt \in {"popping", "asleep", "writing", "exited"}
  /\ rec \in Rec

(* The worker never sleeps on work: while it is asleep on the condition    *)
(* variable both rings are empty and no shutdown is asked for, so no       *)
(* signal of db_queue_push or db_queue_shutdown is ever lost.              *)
NeverAsleepOnWork == workerAt = "asleep" => BothEmpty /\ ~shutting_down

(* The worker leaves only after the flush: db_queue_pop returns 0 when the *)
(* writer is closing and nothing waits in either ring (db_writer_close     *)
(* joins it and then closes the file).                                     *)
LeavesNothingBehind == workerAt = "exited" => BothEmpty /\ shutting_down

(* The two rings with their indices are the two lossy queues of            *)
(* RecordQueue: order of arrival is kept, a full ring loses its oldest     *)
(* record only, a burst of sensor cycles takes no event's place, and every *)
(* loss is counted.                                                        *)
Queue == INSTANCE RecordQueue WITH
  SensorLimit <- SensorCap - 1, EventLimit <- EventCap - 1,
  sensors <- Contents(sensor_ring), events <- Contents(event_ring),
  lostSensors <- sensor_ring.dropped, lostEvents <- event_ring.dropped,
  taken <- rec
IsRecordQueue == Queue!Spec
=============================================================================
