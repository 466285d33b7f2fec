----------------------------- MODULE RecordQueue -----------------------------
(***************************************************************************)
(* What db_queue.h promises the callback thread and the worker: two queues *)
(* in arrival order, one for sensor cycles and one for everything else.    *)
(* A push never waits: when a queue holds its limit the oldest record of   *)
(* that queue, and of no other, is given up and counted.  A pop takes the  *)
(* oldest event, and a sensor cycle only when no event waits.              *)
(***************************************************************************)
EXTENDS Naturals, Sequences

CONSTANTS
  Rec,          \* the records that may be queued
  SensorLimit,  \* sensor cycles the queue can hold
  EventLimit    \* events the queue can hold

VARIABLES
  sensors, events,        \* the waiting records, oldest first
  lostSensors, lostEvents,\* how many were given up
  taken                   \* the record the worker took last

queueVars == <<sensors, events, lostSensors, lostEvents, taken>>

Init ==
  /\ sensors = <<>> /\ events = <<>>
  /\ lostSensors = 0 /\ lostEvents = 0
  /\ taken \in Rec

Room(q, limit)      == Len(q) < limit
Joined(q, r, limit) == Append(IF Room(q, limit) THEN q ELSE Tail(q), r)
Lost(n, q, limit)   == IF Room(q, limit) THEN n ELSE n + 1

PushSensor(r) ==
  /\ r.type = "sensor"
  /\ sensors' = Joined(sensors, r, SensorLimit)
  /\ lostSensors' = Lost(lostSensors, sensors, SensorLimit)
  /\ UNCHANGED <<events, lostEvents, taken>>

PushEvent(r) ==
  /\ r.type # "sensor"
  /\ events' = Joined(events, r, EventLimit)
  /\ lostEvents' = Lost(lostEvents, events, EventLimit)
  /\ UNCHANGED <<sensors, lostSensors, taken>>

TakeEvent ==
  /\ events # <<>>
  /\ taken' = Head(events)
  /\ events' = Tail(events)
  /\ UNCHANGED <<sensors, lostSensors, lostEvents>>

TakeSensor ==
  /\ events = <<>> /\ sensors # <<>>
  /\ taken' = Head(sensors)
  /\ sensors' = Tail(sensors)
  /\ UNCHANGED <<events, lostSensors, lostEvents>>

Next ==
  \/ \E r \in Rec : PushSensor(r) \/ PushEvent(r)
  \/ TakeEvent
  \/ TakeSensor

Spec == Init /\ [][Next]_queueVars
=============================================================================
