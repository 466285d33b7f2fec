------------------------- MODULE ShutterMotorProofs -------------------------
(***************************************************************************)
(* For every number of samples, every majority and every number of bounces *)
(* a motor that drives against its limit is watched, and no work item      *)
(* outlives its sensor.                                                    *)
(***************************************************************************)
EXTENDS ShutterMotor, TLAPS

Work == [running : BOOLEAN, taken : 0..SAMPLES, low : 0..SAMPLES]
Counts(w) == w \in Work /\ w.low <= w.taken

(* A work item that is replaced by a sound one leaves all of them sound.   *)
LEMMA WorkItem ==
  ASSUME ShutterTypeOK, NEW s \in Limit, NEW w, Counts(w), work' = [work EXCEPT ![s] = w]
  PROVE  work' \in [Limit -> Work] /\ \A r \in Limit : work'[r].low <= work'[r].taken
  BY DEF ShutterTypeOK, Work, Counts

(* The type invariant of the driver, its work items and the door.          *)
THEOREM ShutterTypes == Spec => []ShutterTypeOK
<1>1. Init => ShutterTypeOK
  BY SampleAssumption, BounceAssumption DEF Init, ShutterTypeOK, Limit, Idle
<1>2. ShutterTypeOK /\ [Next]_vars => ShutterTypeOK'
  <2> SUFFICES ASSUME ShutterTypeOK, [Next]_vars PROVE ShutterTypeOK'
    OBVIOUS
  <2>1. CASE stepper_thread_fn
    BY <2>1 DEF stepper_thread_fn, ShutterTypeOK, Limit, driver, debounce, world
  <2>2. CASE Stop \/ Load \/ Unload \/ rpic_stepper_exit
    BY <2>2 DEF Stop, Load, Unload, rpic_stepper_exit, ShutterTypeOK, Limit, driver, debounce, world
  <2>3. ASSUME NEW s \in Limit, Edge(s) PROVE ShutterTypeOK'
    BY <2>3, BounceAssumption DEF Edge, ShutterTypeOK, Limit, driver, debounce, world
  <2>4. ASSUME NEW s \in Limit, Turn(s) \/ Refuse(s) PROVE ShutterTypeOK'
    BY <2>4 DEF Turn, Refuse, ShutterTypeOK, Limit, driver, debounce, world
  <2>5. ASSUME NEW s \in Limit, Begin(s) PROVE ShutterTypeOK'
    <3>1. Counts([running |-> TRUE, taken |-> 0, low |-> 0])
      BY SampleAssumption DEF Counts, Work
    <3>2. work' \in [Limit -> Work] /\ \A r \in Limit : work'[r].low <= work'[r].taken
      BY <2>5, <3>1, WorkItem DEF Begin
    <3> QED
      BY <2>5, <3>2 DEF Begin, ShutterTypeOK, Work, Limit, driver, world
  <2>6. ASSUME NEW s \in Limit, Sample(s) PROVE ShutterTypeOK'
    <3> DEFINE w == [running |-> TRUE, taken |-> work[s].taken + 1,
                     low |-> IF closed[s] THEN work[s].low + 1 ELSE work[s].low]
    <3>1. /\ work[s].taken \in 0..SAMPLES /\ work[s].low \in 0..SAMPLES
          /\ work[s].low <= work[s].taken /\ work[s].taken < SAMPLES
      BY <2>6 DEF Sample, ShutterTypeOK
    <3>2. Counts(w)
      BY <3>1, SampleAssumption DEF Counts, Work
    <3>3. work' = [work EXCEPT ![s] = w]
      BY <2>6 DEF Sample
    <3> HIDE DEF w
    <3>4. work' \in [Limit -> Work] /\ \A r \in Limit : work'[r].low <= work'[r].taken
      BY <3>2, <3>3, WorkItem
    <3> QED
      BY <2>6, <3>4 DEF Sample, ShutterTypeOK, Work, driver, world
  <2>7. ASSUME NEW s \in Limit, Verdict(s) PROVE ShutterTypeOK'
    <3>1. Counts(Idle)
      BY SampleAssumption DEF Counts, Work, Idle
    <3>2. work' \in [Limit -> Work] /\ \A r \in Limit : work'[r].low <= work'[r].taken
      BY <2>7, <3>1, WorkItem DEF Verdict
    <3>3. /\ direction' \in Limit \cup {"stop"} /\ door_position' \in Limit \cup {"between"}
          /\ active' \in [Limit -> BOOLEAN]
      BY <2>7 DEF Verdict, Arrived, Cleared, ShutterTypeOK
    <3> QED
      BY <2>7, <3>2, <3>3 DEF Verdict, ShutterTypeOK, Work, world
  <2>8. ASSUME NEW s \in Limit, stepper_request_limit(s) \/ stepper_free_limit(s) PROVE ShutterTypeOK'
    <3>1. /\ stage' \in [Limit -> {"freed", "read", "live", "masked"}]
          /\ active' \in [Limit -> BOOLEAN] /\ pending' \in [Limit -> BOOLEAN]
      BY <2>8 DEF stepper_request_limit, stepper_free_limit, Frees, ShutterTypeOK, driver, debounce
    <3>2. UNCHANGED <<direction, door_position, work, phase, world>>
      BY <2>8 DEF stepper_request_limit, stepper_free_limit, driver, debounce
    <3> QED
      BY <3>1, <3>2 DEF ShutterTypeOK, world
  <2>9. CASE UNCHANGED vars
    BY <2>9 DEF vars, ShutterTypeOK, driver, debounce, world
  <2> QED
    BY <2>1, <2>2, <2>3, <2>4, <2>5, <2>6, <2>7, <2>8, <2>9 DEF Next
<1> QED
  BY <1>1, <1>2, PTL DEF Spec

-----------------------------------------------------------------------------
(* The motor turns only while the module is loaded, and then either        *)
(* sensor's interrupt is on.                                               *)
DrivesLoaded ==
  /\ direction # "stop" => phase = "loaded"
  /\ phase = "loaded" => \A s \in Limit : stage[s] = "live"

Quiet(s) == ~ pending[s] /\ ~ work[s].running
QuietUnlessLive == \A s \in Limit : stage[s] \in {"freed", "read"} => Quiet(s)

ShutterInv == ShutterTypeOK /\ DrivesLoaded /\ QuietUnlessLive /\ DriveIsWatched

LEMMA InvStart == Init => ShutterInv
  BY SampleAssumption, BounceAssumption
  DEF Init, ShutterInv, ShutterTypeOK, DrivesLoaded, QuietUnlessLive, Quiet, DriveIsWatched, Limit, Idle

LEMMA LoadedKept ==
  ASSUME ShutterInv, [Next]_vars PROVE DrivesLoaded'
<1> USE DEF ShutterInv, DrivesLoaded, ShutterTypeOK, driver, debounce, world
<1>1. CASE stepper_thread_fn \/ Stop \/ Load \/ Unload \/ rpic_stepper_exit
  BY <1>1 DEF stepper_thread_fn, Stop, Load, Unload, rpic_stepper_exit, Limit
<1>2. ASSUME NEW s \in Limit, Edge(s) \/ Turn(s) \/ Refuse(s) PROVE DrivesLoaded'
  BY <1>2 DEF Edge, Turn, Refuse
<1>3. ASSUME NEW s \in Limit, Begin(s) \/ Sample(s) PROVE DrivesLoaded'
  BY <1>3 DEF Begin, Sample
<1>4. ASSUME NEW s \in Limit, Verdict(s) PROVE DrivesLoaded'
  BY <1>4 DEF Verdict, Arrived, Cleared
<1>5. ASSUME NEW s \in Limit, stepper_request_limit(s) \/ stepper_free_limit(s) PROVE DrivesLoaded'
  BY <1>5 DEF stepper_request_limit, stepper_free_limit, Frees
<1>6. CASE UNCHANGED vars
  BY <1>6 DEF vars
<1> QED
  BY <1>1, <1>2, <1>3, <1>4, <1>5, <1>6 DEF Next

LEMMA QuietKept ==
  ASSUME ShutterInv, [Next]_vars PROVE QuietUnlessLive'
<1> USE DEF ShutterInv, QuietUnlessLive, Quiet, ShutterTypeOK, driver, debounce, world
<1>1. CASE stepper_thread_fn \/ Stop \/ Load \/ Unload \/ rpic_stepper_exit
  BY <1>1 DEF stepper_thread_fn, Stop, Load, Unload, rpic_stepper_exit
<1>2. ASSUME NEW s \in Limit, Edge(s) \/ Turn(s) \/ Refuse(s) PROVE QuietUnlessLive'
  BY <1>2 DEF Edge, Turn, Refuse
<1>3. ASSUME NEW s \in Limit, Begin(s) PROVE QuietUnlessLive'
  BY <1>3 DEF Begin
<1>4. ASSUME NEW s \in Limit, Sample(s) PROVE QuietUnlessLive'
  BY <1>4 DEF Sample
<1>5. ASSUME NEW s \in Limit, Verdict(s) PROVE QuietUnlessLive'
  BY <1>5 DEF Verdict, Idle
<1>6. ASSUME NEW s \in Limit, stepper_request_limit(s) PROVE QuietUnlessLive'
  BY <1>6 DEF stepper_request_limit
<1>7. ASSUME NEW s \in Limit, stepper_free_limit(s) PROVE QuietUnlessLive'
  BY <1>7 DEF stepper_free_limit, Frees
<1>8. CASE UNCHANGED vars
  BY <1>8 DEF vars
<1> QED
  BY <1>1, <1>2, <1>3, <1>4, <1>5, <1>6, <1>7, <1>8 DEF Next

(* An edge that closes a contact queues a sampling, a run that has seen    *)
(* nothing but LOW ends in a stop, and a command finds the contact open.   *)
LEMMA WatchKept ==
  ASSUME ShutterInv, [Next]_vars PROVE DriveIsWatched'
<1> USE DEF ShutterInv, DriveIsWatched, ShutterTypeOK, driver, debounce, world
<1>1. CASE stepper_thread_fn \/ Stop \/ Load \/ Unload \/ rpic_stepper_exit
  BY <1>1 DEF stepper_thread_fn, Stop, Load, Unload, rpic_stepper_exit, Limit
<1>2. ASSUME NEW s \in Limit, Edge(s) PROVE DriveIsWatched'
  BY <1>2 DEF Edge, DrivesLoaded, Limit
<1>3. ASSUME NEW s \in Limit, Turn(s) \/ Refuse(s) PROVE DriveIsWatched'
  BY <1>3 DEF Turn, Refuse
<1>4. ASSUME NEW s \in Limit, Begin(s) PROVE DriveIsWatched'
  BY <1>4 DEF Begin
<1>5. ASSUME NEW s \in Limit, Sample(s) PROVE DriveIsWatched'
  BY <1>5 DEF Sample
<1>6. ASSUME NEW s \in Limit, Verdict(s) PROVE DriveIsWatched'
  <2>1. work[s].low = work[s].taken => work[s].low >= LOW_MIN
    BY <1>6, SampleAssumption DEF Verdict, Finished
  <2>2. ASSUME NEW d \in Limit, direction' = d, closed'[d]
        PROVE  pending'[d] \/ (work'[d].running /\ work'[d].low = work'[d].taken)
    <3>1. direction = d /\ closed[d] /\ UNCHANGED pending
      BY <1>6, <2>2 DEF Verdict, Arrived, Cleared, Limit
    <3>2. CASE d # s
      BY <1>6, <3>1, <3>2 DEF Verdict
    <3>3. CASE d = s
      <4>1. ~ (work[s].low >= LOW_MIN)
        BY <1>6, <2>2, <3>1, <3>3 DEF Verdict, Arrived, Limit
      <4> QED
        BY <2>1, <3>1, <3>3, <4>1
    <3> QED
      BY <3>2, <3>3
  <2> QED
    BY <2>2
<1>7. ASSUME NEW s \in Limit, stepper_request_limit(s) \/ stepper_free_limit(s) PROVE DriveIsWatched'
  <2>1. phase # "loaded" /\ UNCHANGED direction
    BY <1>7 DEF stepper_request_limit, stepper_free_limit, Frees
  <2>2. direction' = "stop"
    BY <2>1 DEF DrivesLoaded
  <2> QED
    BY <2>2 DEF Limit
<1>8. CASE UNCHANGED vars
  BY <1>8 DEF vars
<1> QED
  BY <1>1, <1>2, <1>3, <1>4, <1>5, <1>6, <1>7, <1>8 DEF Next

LEMMA InvAlways == Spec => []ShutterInv
<1>1. ShutterTypeOK /\ ShutterInv /\ [Next]_vars /\ ShutterTypeOK' => ShutterInv'
  BY LoadedKept, QuietKept, WatchKept DEF ShutterInv
<1> QED
  BY InvStart, <1>1, ShutterTypes, PTL DEF Spec

(* A motor that turns towards a closed contact has its stop on the way.    *)
THEOREM MotorIsWatched == Spec => []DriveIsWatched
<1>1. ShutterInv => DriveIsWatched
  BY DEF ShutterInv
<1> QED
  BY <1>1, InvAlways, PTL

(* No work item of a sensor that was given back can run.                   *)
THEOREM FreedSensors == Spec => []FreedIsQuiet
<1>1. ShutterInv => FreedIsQuiet
  BY DEF ShutterInv, QuietUnlessLive, Quiet, FreedIsQuiet
<1> QED
  BY <1>1, InvAlways, PTL
=============================================================================
