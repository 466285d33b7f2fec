---------------------------- MODULE ModbusSlave ----------------------------
(***************************************************************************)
(* The register bank of the STM32 behind the LED matrix and the FreeRTOS   *)
(* task that serves it over Modbus RTU.  The receive interrupt leaves      *)
(* frames in a queue; the task takes one at a time, writes the registers   *)
(* and answers, and clears a track that was not renewed for ten seconds.   *)
(*                                                                         *)
(* A block of registers holds two words here.  Temperature and humidity of *)
(* a zone are stored one after the other; the five words of a track are    *)
(* stored in a critical section, so that its two words always agree.  A    *)
(* word is a value with the number `n' of its publication.                 *)
(***************************************************************************)
EXTENDS Integers, Sequences, FiniteSetsExt

CONSTANTS
  GX_ZONE_COUNT,        \* zones with a temperature and a humidity
  Fires,                \* bitmaps RPi B may publish
  MODBUS_QUEUE_DEPTH    \* frames the interrupt may leave to the task

ASSUME SlaveAssumption ==
  GX_ZONE_COUNT \in Nat \ {0} /\ MODBUS_QUEUE_DEPTH \in Nat \ {0}

VARIABLES
  rxQueue,   \* frames received and not yet handled
  handling,  \* the zone frame whose second word is to be written, or none
  reg,       \* the register bank: for every block its words
  aged       \* ten seconds have passed since the last complete track

slaveVars == <<rxQueue, handling, reg, aged>>

----------------------------------------------------------------------------
(* Blocks of registers and their words.                                    *)

SLOT_TRACK == 0
SLOT_FIRE == 1
SLOT_ZONE_BASE == 2
SLOT_COUNT == SLOT_ZONE_BASE + GX_ZONE_COUNT
Slot == 0..SLOT_COUNT - 1
ZoneSlot == SLOT_ZONE_BASE..SLOT_COUNT - 1

\* What a freshly started panel holds, as publication 0: no track, no fire, no
\* data.  Of a zone only the number of the publication matters; a bitmap is the
\* set of its bits.
Blank(s) == [n |-> 0, c |-> IF s = SLOT_FIRE THEN {} ELSE {"none"}]

\* A complete track; everything else of a track is "none".
IsPoint(v) == v.c = {"point"}

Bits == 0..3   \* GX_FIRE_ZONE_BITMAP_MAX is 15
ASSUME FiresAssumption == Fires \subseteq SUBSET Bits

\* What a publication may say.
Contents(s) ==
  IF s = SLOT_TRACK THEN {{"none"}, {"point"}}
  ELSE IF s = SLOT_FIRE THEN Fires ELSE {{"none"}}

Both(v) == <<v, v>>

NewReg == [s \in Slot |-> Both(Blank(s))]
SlaveInit ==
  rxQueue = << >> /\ handling = << >> /\ reg = NewReg /\ aged = FALSE

\* The STM32 is reset.
SlaveReset ==
  rxQueue' = << >> /\ handling' = << >> /\ reg' = NewReg /\ aged' = FALSE

----------------------------------------------------------------------------
(* The Modbus task.                                                        *)

\* The interrupt queues a frame; a full queue drops it without a word.
\* Slip: the frame that came last is handled first.
QueueFrame_Stack(f) ==
  rxQueue' = IF Len(rxQueue) < MODBUS_QUEUE_DEPTH THEN <<f>> \o rxQueue ELSE rxQueue

QueueFrame(f) ==
  rxQueue' = IF Len(rxQueue) < MODBUS_QUEUE_DEPTH THEN Append(rxQueue, f) ELSE rxQueue

\* Modbus_Slave_Poll clears the status of a track that was not renewed; its
\* coordinates stay.
\* Slip: the track is never cleared.
Polled_Never(bank, old) == bank

Polled(bank, old) ==
  IF old /\ IsPoint(bank[SLOT_TRACK][1])
  THEN [bank EXCEPT ![SLOT_TRACK] = Both([@[1] EXCEPT !.c = {"none"}])]
  ELSE bank

\* Modbus_Slave_OnFrame of a fire bitmap or a track, and the poll that follows
\* it.  Only a complete track restarts the ten seconds: the FC06 that clears
\* one does not.
HandleFrame ==
  /\ rxQueue # << >> /\ handling = << >>
  /\ Head(rxQueue).slot \notin ZoneSlot
  /\ LET f == Head(rxQueue)
         renewed == IF f.slot = SLOT_TRACK /\ IsPoint(f.value) THEN FALSE ELSE aged
     IN /\ reg' = Polled([reg EXCEPT ![f.slot] = Both(f.value)], renewed)
        /\ aged' = renewed
  /\ rxQueue' = Tail(rxQueue)
  /\ UNCHANGED handling

\* A zone's frame: the temperature is stored, the humidity is next.
HandleTemp ==
  /\ rxQueue # << >> /\ handling = << >>
  /\ Head(rxQueue).slot \in ZoneSlot
  /\ reg' = [reg EXCEPT ![Head(rxQueue).slot][1] = Head(rxQueue).value]
  /\ handling' = <<Head(rxQueue)>>
  /\ rxQueue' = Tail(rxQueue)
  /\ UNCHANGED aged

HandleHumidity ==
  /\ handling # << >>
  /\ reg' = Polled([reg EXCEPT ![handling[1].slot][2] = handling[1].value], aged)
  /\ handling' = << >>
  /\ UNCHANGED <<rxQueue, aged>>

\* osMessageQueueGet times out after 100 ms and only the poll runs.
Poll ==
  /\ rxQueue = << >> /\ handling = << >>
  /\ reg' = Polled(reg, aged)
  /\ UNCHANGED <<rxQueue, handling, aged>>

\* MODBUS_INTRUDER_TIMEOUT_MS pass.
TenSecondsPass ==
  /\ IsPoint(reg[SLOT_TRACK][1]) /\ ~aged
  /\ aged' = TRUE
  /\ UNCHANGED <<rxQueue, handling, reg>>

Answering == HandleFrame \/ HandleHumidity
Silent == HandleTemp \/ Poll

----------------------------------------------------------------------------

Word(s) == [n : Nat, c : IF s = SLOT_FIRE THEN SUBSET Bits ELSE {{"none"}, {"point"}}]

IsFrame(f) == f.slot \in Slot /\ f.value \in Word(f.slot)

SlaveTypeOK ==
  /\ Len(rxQueue) <= MODBUS_QUEUE_DEPTH /\ \A i \in 1..Len(rxQueue) : IsFrame(rxQueue[i])
  /\ Len(handling) <= 1
  /\ \A s \in Slot : reg[s] \in Word(s) \X Word(s)
  /\ reg[SLOT_TRACK][1] = reg[SLOT_TRACK][2]
  /\ aged \in BOOLEAN

\* The registers never go back to an older publication, whatever was lost,
\* repeated, late or restarted; only a reset of the STM32 forgets.
NeverBackwards ==
  [][\/ reg' = NewReg
     \/ \A s \in Slot, w \in 1..2 : reg'[s][w].n >= reg[s][w].n]_reg

=============================================================================
