---------------------------- MODULE ShutterMotor ----------------------------
(***************************************************************************)
(* The fire shutter's motor driver of RPi C, rpic_stepper.c: a command     *)
(* sets the direction and returns, a kernel thread turns the motor, and a  *)
(* reed sensor at either end stops it.  An edge of a sensor queues a work  *)
(* item that samples it several times without the lock and takes the lock  *)
(* for its verdict; commands and other edges come in between.  A contact   *)
(* bounces, and its length is a choice: a step of the door and a sample    *)
(* may come in any order.                                                  *)
(***************************************************************************)
EXTENDS Naturals

CONSTANTS
  SAMPLES,     \* STEPPER_LIMIT_SAMPLES
  LOW_MIN,     \* STEPPER_LIMIT_LOW_MIN
  MaxBounces   \* bound: edges that do not come from the door

ASSUME SampleAssumption == SAMPLES \in Nat \ {0} /\ LOW_MIN \in 1..SAMPLES
ASSUME BounceAssumption == MaxBounces \in Nat

Limit == {"cw", "ccw"}   \* the sensor that blocks a direction has its name
Opposite(d) == IF d = "cw" THEN "ccw" ELSE "cw"

VARIABLES
  direction, door_position,   \* rpic_stepper.c; door_position names the end, or "between"
  active,     \* per sensor, for GET_LIMITS
  pending,    \* debounce_work is queued
  work,       \* ... and runs: the samples taken, those that were LOW
  stage,      \* per sensor: freed, read, live (its interrupt is requested), masked
  phase,      \* the module is loading, loaded or unloading
  door, closed,   \* where the door is, which contacts are closed (LOW)
  bounces     \* counter of the bound

driver == <<direction, door_position, active>>
debounce == <<pending, work>>
world == <<door, closed, bounces>>
vars == <<driver, debounce, stage, phase, world>>

Idle == [running |-> FALSE, taken |-> 0, low |-> 0]

Init ==
  /\ direction = "stop" /\ door_position = "between"
  /\ active = [s \in Limit |-> FALSE]
  /\ pending = [s \in Limit |-> FALSE] /\ work = [s \in Limit |-> Idle]
  /\ stage = [s \in Limit |-> "freed"] /\ phase = "loading"
  /\ door \in Limit \cup {"between"}
  /\ closed = [s \in Limit |-> door = s]
  /\ bounces = 0

-----------------------------------------------------------------------------
(* The door and its contacts.                                              *)

(* The thread turns the motor; at its end the door stays.                  *)
stepper_thread_fn ==
  /\ phase = "loaded" /\ direction # "stop" /\ door # direction
  /\ door' = IF door = "between" THEN direction ELSE "between"
  /\ UNCHANGED <<driver, debounce, stage, phase, closed, bounces>>

(* Slip: an edge during the sampling is taken for a part of it.            *)
EdgeOnce(s) ==
  /\ IF closed[s] = (door = s) THEN bounces < MaxBounces /\ bounces' = bounces + 1
                               ELSE UNCHANGED bounces
  /\ closed' = [closed EXCEPT ![s] = ~ @]
  /\ pending' = [pending EXCEPT ![s] = @ \/ (stage[s] = "live" /\ ~ work[s].running)]
  /\ UNCHANGED <<driver, work, stage, phase, door>>

(* queue_delayed_work does nothing for a work item that is queued already. *)
Edge(s) ==
  /\ IF closed[s] = (door = s) THEN bounces < MaxBounces /\ bounces' = bounces + 1
                               ELSE UNCHANGED bounces
  /\ closed' = [closed EXCEPT ![s] = ~ @]
  /\ pending' = [pending EXCEPT ![s] = @ \/ stage[s] = "live"]
  /\ UNCHANGED <<driver, work, stage, phase, door>>

-----------------------------------------------------------------------------
(* Commands, under the lock.                                               *)

Stop ==
  /\ phase = "loaded"
  /\ direction' = "stop"
  /\ UNCHANGED <<door_position, active, debounce, stage, phase, world>>

Turn(d) ==
  /\ phase = "loaded" /\ ~ closed[d]
  /\ active' = [active EXCEPT ![d] = FALSE]
  /\ direction' = d /\ door_position' = "between"
  /\ UNCHANGED <<debounce, stage, phase, world>>

(* EBUSY: the motor goes on as it was.                                     *)
Refuse(d) ==
  /\ phase = "loaded" /\ closed[d]
  /\ active' = [active EXCEPT ![d] = TRUE]
  /\ door_position' = d
  /\ UNCHANGED <<direction, debounce, stage, phase, world>>

-----------------------------------------------------------------------------
(* limit_debounce_work.                                                    *)

Begin(s) ==
  /\ pending[s] /\ ~ work[s].running
  /\ pending' = [pending EXCEPT ![s] = FALSE]
  /\ work' = [work EXCEPT ![s] = [running |-> TRUE, taken |-> 0, low |-> 0]]
  /\ UNCHANGED <<driver, stage, phase, world>>

Sample(s) ==
  /\ work[s].running /\ work[s].taken < SAMPLES
  /\ work' = [work EXCEPT ![s] = [running |-> TRUE, taken |-> work[s].taken + 1,
                                  low |-> IF closed[s] THEN work[s].low + 1 ELSE work[s].low]]
  /\ UNCHANGED <<driver, pending, stage, phase, world>>

Finished(s) == work[s].running /\ work[s].taken = SAMPLES

(* Slip: an end that is on record needs no handling.                       *)
ArrivedAnew(s) ==
  /\ active' = [active EXCEPT ![s] = TRUE]
  /\ direction' = IF direction = s /\ door_position # s THEN "stop" ELSE direction
  /\ door_position' = IF direction \in {s, "stop"} THEN s ELSE door_position

Arrived(s) ==
  /\ active' = [active EXCEPT ![s] = TRUE]
  /\ direction' = IF direction = s THEN "stop" ELSE direction
  /\ door_position' = IF direction \in {s, "stop"} THEN s ELSE door_position

Cleared(s) ==
  /\ active' = [active EXCEPT ![s] = FALSE]
  /\ UNCHANGED <<direction, door_position>>

Verdict(s) ==
  /\ Finished(s)
  /\ IF work[s].low >= LOW_MIN THEN Arrived(s) ELSE Cleared(s)
  /\ work' = [work EXCEPT ![s] = Idle]
  /\ UNCHANGED <<pending, stage, phase, world>>

-----------------------------------------------------------------------------
(* Loading: a sensor is read, then its interrupt is requested.             *)

stepper_request_limit(s) ==
  /\ phase = "loading" /\ (s = "ccw" => stage["cw"] = "live")
  /\ \/ /\ stage[s] = "freed"
        /\ stage' = [stage EXCEPT ![s] = "read"]
        /\ active' = [active EXCEPT ![s] = closed[s]]
     \/ /\ stage[s] = "read"
        /\ stage' = [stage EXCEPT ![s] = "live"]
        /\ UNCHANGED active
  /\ UNCHANGED <<direction, door_position, debounce, phase, world>>

Load ==
  /\ phase = "loading" /\ stage = [s \in Limit |-> "live"]
  /\ phase' = "loaded"
  /\ door_position' = IF active["cw"] = active["ccw"] THEN "between" ELSE CHOOSE s \in Limit : active[s]
  /\ UNCHANGED <<direction, active, debounce, stage, world>>

(* Unloading: the thread ends, then either sensor is given back.           *)
Unload ==
  /\ phase = "loaded"
  /\ phase' = "unloading" /\ direction' = "stop"
  /\ UNCHANGED <<door_position, active, debounce, stage, world>>

Frees(s, from) == phase = "unloading" /\ (s = "cw" => stage["ccw"] = "freed") /\ stage[s] = from

(* Slip: what is queued already is left to run.                            *)
stepper_free_limit_uncancelled(s) ==
  /\ \/ /\ Frees(s, "live")
        /\ stage' = [stage EXCEPT ![s] = "masked"]
     \/ /\ Frees(s, "masked") /\ ~ work[s].running
        /\ stage' = [stage EXCEPT ![s] = "freed"]
  /\ UNCHANGED <<driver, debounce, phase, world>>

(* cancel_delayed_work_sync waits for a run that has begun.                *)
stepper_free_limit(s) ==
  /\ \/ /\ Frees(s, "live")
        /\ stage' = [stage EXCEPT ![s] = "masked"]
        /\ UNCHANGED pending
     \/ /\ Frees(s, "masked") /\ ~ work[s].running
        /\ stage' = [stage EXCEPT ![s] = "freed"]
        /\ pending' = [pending EXCEPT ![s] = FALSE]
  /\ UNCHANGED <<driver, work, phase, world>>

rpic_stepper_exit ==
  /\ phase = "unloading" /\ stage = [s \in Limit |-> "freed"]
  /\ phase' = "loading"
  /\ UNCHANGED <<driver, debounce, stage, world>>
-----------------------------------------------------------------------------
Next ==
  \/ stepper_thread_fn \/ Stop \/ Load \/ Unload \/ rpic_stepper_exit
  \/ \E s \in Limit :
       \/ Edge(s) \/ Turn(s) \/ Refuse(s)
       \/ Begin(s) \/ Sample(s) \/ Verdict(s)
       \/ stepper_request_limit(s) \/ stepper_free_limit(s)

(* The thread and the work items run, and a contact comes to rest.         *)
Settles(s) == closed[s] # (door = s) /\ Edge(s)
Debounces(s) == Begin(s) \/ Sample(s) \/ Verdict(s)
Fairness ==
  /\ WF_vars(stepper_thread_fn)
  /\ \A s \in Limit : WF_vars(Debounces(s)) /\ WF_vars(Settles(s))

Spec == Init /\ [][Next]_vars
FairSpec == Spec /\ Fairness

-----------------------------------------------------------------------------
ShutterTypeOK ==
  /\ direction \in Limit \cup {"stop"} /\ door_position \in Limit \cup {"between"}
  /\ active \in [Limit -> BOOLEAN] /\ pending \in [Limit -> BOOLEAN]
  /\ work \in [Limit -> [running : BOOLEAN, taken : 0..SAMPLES, low : 0..SAMPLES]]
  /\ \A s \in Limit : work[s].low <= work[s].taken
  /\ stage \in [Limit -> {"freed", "read", "live", "masked"}]
  /\ phase \in {"loading", "loaded", "unloading"}
  /\ door \in Limit \cup {"between"} /\ closed \in [Limit -> BOOLEAN]
  /\ bounces \in 0..MaxBounces

(* A motor that turns towards a closed contact is going to be stopped: a   *)
(* sampling is due, or under way and all LOW so far.  Samples are taken    *)
(* without the lock, and commands and edges come in between.               *)
DriveIsWatched ==
  \A d \in Limit : direction = d /\ closed[d] =>
     pending[d] \/ (work[d].running /\ work[d].low = work[d].taken)

(* No work item is left when its sensor is given back.                     *)
FreedIsQuiet ==
  \A s \in Limit : stage[s] = "freed" => ~ pending[s] /\ ~ work[s].running

(* A motor that has driven the door to its end does not go on for ever.    *)
StopsAtEnd == \A d \in Limit : (direction = d /\ door = d) ~> direction # d

(* A door recorded as held at an end is not being driven away from it.     *)
HeldIsHeld == door_position \in Limit => direction # Opposite(door_position)
=============================================================================
