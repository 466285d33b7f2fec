----------------------------- MODULE MatrixProofs -----------------------------
(***************************************************************************)
(* From RPi B to the LED matrix, for every number of zones, every depth of *)
(* the receive queue, every number of attempts, publications and faults:   *)
(* the registers never go back to an older publication; and behind them,   *)
(* the picture is made from the data the UI task took for it.              *)
(***************************************************************************)
EXTENDS MatrixLink, LedPanel, SequenceTheorems, TLAPS

-----------------------------------------------------------------------------
(* The register bank and its task.                                         *)

Frame == UNION {[slot : {s}, value : Word(s)] : s \in Slot}

SlaveTypes ==
  /\ rxQueue \in Seq(Frame) /\ handling \in Seq(Frame) /\ Len(handling) <= 1
  /\ DOMAIN reg = Slot /\ \A s \in Slot : reg[s] \in Word(s) \X Word(s)
  /\ aged \in BOOLEAN

\* Nothing in the registers b of a block or queued for it in q is newer than n.
Behind(b, q, s, n) ==
  /\ \A w \in 1..2 : b[s][w].n <= n
  /\ \A i \in 1..Len(q) : q[i].slot = s => q[i].value.n <= n

\* The queued frames of a block are in the order of their publication.
QueueInOrder ==
  \A i, j \in 1..Len(rxQueue) :
    i < j /\ rxQueue[i].slot = rxQueue[j].slot => rxQueue[i].value.n <= rxQueue[j].value.n

\* None of them is older than what the registers hold.
RegistersAhead ==
  \A i \in 1..Len(rxQueue), w \in 1..2 : reg[rxQueue[i].slot][w].n <= rxQueue[i].value.n

\* The zone being written has its temperature, and no newer humidity.
HalfWritten ==
  \A i \in 1..Len(handling) :
    LET f == handling[i]
    IN f.slot \in ZoneSlot /\ reg[f.slot][1] = f.value /\ reg[f.slot][2].n <= f.value.n

OneTrack == reg[SLOT_TRACK][1] = reg[SLOT_TRACK][2]

SlaveInv == SlaveTypes /\ QueueInOrder /\ RegistersAhead /\ HalfWritten /\ OneTrack

-----------------------------------------------------------------------------
(* The link.                                                               *)

LinkTypes ==
  /\ DOMAIN latest = Slot /\ \A s \in Slot : latest[s] \in Word(s)
  /\ DOMAIN slots = Slot
  /\ \A s \in Slot : slots[s] \in Seq(Word(s)) /\ Len(slots[s]) <= 1
  /\ worker \in [at : {"wait", "send", "answer"}, job : Seq(Frame), left : Int]
  /\ Len(worker.job) = IF worker.at = "wait" THEN 0 ELSE 1
  /\ cursor \in Slot

\* A value moves from RPi B to the mailbox, the worker, the line, the registers;
\* what is further on is never newer.  The mailboxes of a daemon that no longer
\* takes from them may hold what others have overtaken: they are emptied when it
\* starts again.
LinkOrder ==
  /\ \A s \in Slot : Behind(reg, rxQueue, s, latest[s].n)
  /\ \A i \in 1..Len(worker.job) :
       LET f == worker.job[i]
       IN Behind(reg, rxQueue, f.slot, f.value.n) /\ f.value.n <= latest[f.slot].n
  /\ Working =>
       \A s \in Slot : \A k \in 1..Len(slots[s]) :
         /\ Behind(reg, rxQueue, s, slots[s][k].n) /\ slots[s][k].n <= latest[s].n
         /\ \A i \in 1..Len(worker.job) :
              worker.job[i].slot = s => worker.job[i].value.n <= slots[s][k].n

LinkInv == SlaveInv /\ LinkTypes /\ LinkOrder

-----------------------------------------------------------------------------
(* Words and frames.                                                       *)

LEMMA SlotFacts ==
  /\ SLOT_TRACK \in Slot /\ SLOT_FIRE \in Slot /\ SLOT_TRACK # SLOT_FIRE
  /\ \A s \in ZoneSlot : s \in Slot /\ s # SLOT_TRACK /\ s # SLOT_FIRE
  /\ \A s \in Slot : s \notin ZoneSlot => s = SLOT_TRACK \/ s = SLOT_FIRE
  /\ 0 \in Slot /\ SLOT_COUNT \in Nat \ {0}
BY SlaveAssumption DEF Slot, ZoneSlot, SLOT_TRACK, SLOT_FIRE, SLOT_COUNT, SLOT_ZONE_BASE

LEMMA WordFacts ==
  ASSUME NEW s \in Slot, NEW v \in Word(s)
  PROVE  v.n \in Nat
BY DEF Word

LEMMA FrameFacts ==
  ASSUME NEW f \in Frame
  PROVE  f.slot \in Slot /\ f.value \in Word(f.slot) /\ f.value.n \in Nat
<1>1. PICK s \in Slot : f \in [slot : {s}, value : Word(s)]
  BY DEF Frame
<1>2. f.slot = s /\ f.value \in Word(s)
  BY <1>1
<1> QED
  BY <1>1, <1>2, WordFacts

LEMMA MakeFrame ==
  ASSUME NEW s \in Slot, NEW v \in Word(s)
  PROVE  /\ [slot |-> s, value |-> v] \in Frame
         /\ [slot |-> s, value |-> v].slot = s /\ [slot |-> s, value |-> v].value = v
<1>1. [slot |-> s, value |-> v] \in [slot : {s}, value : Word(s)]
  OBVIOUS
<1> QED
  BY <1>1 DEF Frame

LEMMA BlankFacts ==
  ASSUME NEW s \in Slot
  PROVE  Blank(s) \in Word(s) /\ Blank(s).n = 0
BY DEF Blank, Word

LEMMA NewRegFacts ==
  /\ DOMAIN NewReg = Slot /\ \A s \in Slot : NewReg[s] \in Word(s) \X Word(s)
  /\ \A s \in Slot, w \in 1..2 : NewReg[s][w].n = 0
  /\ NewReg[SLOT_TRACK][1] = NewReg[SLOT_TRACK][2]
BY BlankFacts, SlotFacts DEF NewReg, Both

\* A track of which the status is cleared is of the same publication.
LEMMA ClearedTrack ==
  ASSUME NEW v \in Word(SLOT_TRACK)
  PROVE  /\ [v EXCEPT !.c = {"none"}] \in Word(SLOT_TRACK)
         /\ [v EXCEPT !.c = {"none"}].n = v.n
BY SlotFacts DEF Word

Bank(b) == DOMAIN b = Slot /\ \A s \in Slot : b[s] \in Word(s) \X Word(s)

LEMMA BankFacts ==
  ASSUME NEW b, Bank(b), NEW s \in Slot, NEW w \in 1..2
  PROVE  b[s][w] \in Word(s) /\ b[s][w].n \in Nat
<1>1. b[s] \in Word(s) \X Word(s)
  BY DEF Bank
<1>2. w = 1 \/ w = 2
  OBVIOUS
<1>3. b[s][w] \in Word(s)
  BY <1>1, <1>2
<1> QED
  BY <1>3, WordFacts

\* The poll leaves every block at its publication.
LEMMA PolledFacts ==
  ASSUME NEW b, Bank(b), b[SLOT_TRACK][1] = b[SLOT_TRACK][2], NEW old \in BOOLEAN
  PROVE  /\ Bank(Polled(b, old))
         /\ Polled(b, old)[SLOT_TRACK][1] = Polled(b, old)[SLOT_TRACK][2]
         /\ \A s \in Slot, w \in 1..2 : Polled(b, old)[s][w].n = b[s][w].n
         /\ \A s \in Slot : s # SLOT_TRACK => Polled(b, old)[s] = b[s]
<1>1. CASE old /\ IsPoint(b[SLOT_TRACK][1])
  <2> DEFINE v == [b[SLOT_TRACK][1] EXCEPT !.c = {"none"}]
  <2>1. v \in Word(SLOT_TRACK) /\ v.n = b[SLOT_TRACK][1].n
    BY BankFacts, ClearedTrack, SlotFacts
  <2>2. Polled(b, old) = [b EXCEPT ![SLOT_TRACK] = <<v, v>>]
    BY <1>1 DEF Polled, Both
  <2> HIDE DEF v
  <2>3. /\ DOMAIN Polled(b, old) = Slot /\ Polled(b, old)[SLOT_TRACK] = <<v, v>>
        /\ \A s \in Slot : s # SLOT_TRACK => Polled(b, old)[s] = b[s]
    BY <2>2, SlotFacts DEF Bank
  <2>4. Bank(Polled(b, old))
    BY <2>1, <2>3 DEF Bank
  <2>5. \A s \in Slot, w \in 1..2 : Polled(b, old)[s][w].n = b[s][w].n
    <3>1. TAKE s \in Slot, w \in 1..2
    <3>2. CASE s = SLOT_TRACK
      <4>1. w = 1 \/ w = 2
        OBVIOUS
      <4> QED
        BY <4>1, <3>2, <2>1, <2>3
    <3>3. CASE s # SLOT_TRACK
      BY <3>3, <2>3
    <3> QED
      BY <3>2, <3>3
  <2> QED
    BY <2>3, <2>4, <2>5
<1>2. CASE ~(old /\ IsPoint(b[SLOT_TRACK][1]))
  BY <1>2 DEF Polled
<1> QED
  BY <1>1, <1>2

LEMMA QueueTail ==
  ASSUME NEW q \in Seq(Frame), q # << >>
  PROVE  /\ Head(q) = q[1] /\ Head(q) \in Frame /\ 1 \in 1..Len(q)
         /\ Tail(q) \in Seq(Frame) /\ Len(Tail(q)) = Len(q) - 1
         /\ \A i \in 1..Len(Tail(q)) : Tail(q)[i] = q[i + 1] /\ i + 1 \in 1..Len(q)
<1>1. Len(q) \in Nat /\ Len(q) # 0
  BY EmptySeq
<1>2. Tail(q) \in Seq(Frame) /\ Len(Tail(q)) = Len(q) - 1
  BY HeadTailProperties
<1>3. \A i \in 1..Len(Tail(q)) : Tail(q)[i] = q[i + 1] /\ i + 1 \in 1..Len(q)
  BY <1>1, <1>2, HeadTailProperties
<1>4. Head(q) = q[1] /\ Head(q) \in Frame /\ 1 \in 1..Len(q)
  BY <1>1
<1> QED
  BY <1>2, <1>3, <1>4

LEMMA QueueAppend ==
  ASSUME NEW q \in Seq(Frame), NEW f \in Frame
  PROVE  /\ Append(q, f) \in Seq(Frame) /\ Len(Append(q, f)) = Len(q) + 1
         /\ \A i \in 1..Len(q) : Append(q, f)[i] = q[i]
         /\ Append(q, f)[Len(q) + 1] = f
BY AppendProperties

LEMMA QueueFacts ==
  ASSUME NEW q \in Seq(Frame), NEW i \in 1..Len(q)
  PROVE  /\ q[i] \in Frame /\ q[i].slot \in Slot
         /\ q[i].value \in Word(q[i].slot) /\ q[i].value.n \in Nat
<1>1. q[i] \in Frame
  BY ElementOfSeq
<1> QED
  BY <1>1, FrameFacts

-----------------------------------------------------------------------------
(* The steps of the panel.                                                 *)

\* No word of the registers goes back.
Forward == \A s \in Slot, w \in 1..2 : reg'[s][w].n >= reg[s][w].n

\* Every word is as it was, or of the frame f.
WrittenFrom(f) ==
  \A s \in Slot, w \in 1..2 :
    \/ reg'[s][w].n = reg[s][w].n
    \/ s = f.slot /\ reg'[s][w].n = f.value.n

\* Handling the first frame of the queue keeps the order of the rest.
LEMMA Dequeues ==
  ASSUME SlaveInv, rxQueue # << >>, rxQueue' = Tail(rxQueue), Bank(reg'),
         WrittenFrom(Head(rxQueue))
  PROVE  /\ QueueInOrder' /\ RegistersAhead' /\ Forward
         /\ \A s \in Slot, n \in Nat : Behind(reg, rxQueue, s, n) => Behind(reg', rxQueue', s, n)
<1> DEFINE f == rxQueue[1]
<1>1. /\ rxQueue \in Seq(Frame) /\ Bank(reg) /\ Len(rxQueue) \in Nat /\ 1 \in 1..Len(rxQueue)
      /\ f \in Frame /\ f.slot \in Slot /\ f.value.n \in Nat /\ Head(rxQueue) = f
      /\ Len(rxQueue') = Len(rxQueue) - 1
      /\ \A i \in 1..Len(rxQueue') : rxQueue'[i] = rxQueue[i + 1] /\ i + 1 \in 1..Len(rxQueue)
  BY QueueTail, QueueFacts DEF SlaveInv, SlaveTypes, Bank
<1>2. WrittenFrom(f)
  BY <1>1
<1>3. \A i \in 1..Len(rxQueue) : rxQueue[i].slot \in Slot /\ rxQueue[i].value.n \in Nat
  BY <1>1, QueueFacts
<1>4. \A s \in Slot, w \in 1..2 : reg[s][w].n \in Nat /\ reg'[s][w].n \in Nat
  BY <1>1, BankFacts
<1>5. \A w \in 1..2 : reg[f.slot][w].n <= f.value.n
  BY <1>1 DEF SlaveInv, RegistersAhead
<1>6. \A i \in 1..Len(rxQueue') :
        rxQueue'[i].slot = f.slot => f.value.n <= rxQueue'[i].value.n
  BY <1>1 DEF SlaveInv, QueueInOrder
<1> HIDE DEF f
<1>7. QueueInOrder'
  <2>1. ASSUME NEW i \in 1..Len(rxQueue'), NEW j \in 1..Len(rxQueue'), i < j,
               rxQueue'[i].slot = rxQueue'[j].slot
        PROVE  rxQueue'[i].value.n <= rxQueue'[j].value.n
    <3>1. i + 1 \in 1..Len(rxQueue) /\ j + 1 \in 1..Len(rxQueue) /\ i + 1 < j + 1
      BY <1>1, <2>1
    <3> QED
      BY <1>1, <2>1, <3>1 DEF SlaveInv, QueueInOrder
  <2> QED
    BY <2>1 DEF QueueInOrder
<1>8. RegistersAhead'
  <2>1. ASSUME NEW i \in 1..Len(rxQueue'), NEW w \in 1..2
        PROVE  reg'[rxQueue'[i].slot][w].n <= rxQueue'[i].value.n
    <3>1. i + 1 \in 1..Len(rxQueue) /\ rxQueue'[i] = rxQueue[i + 1]
      BY <1>1, <2>1
    <3>2. rxQueue'[i].slot \in Slot
      BY <1>3, <3>1
    <3>3. reg[rxQueue'[i].slot][w].n <= rxQueue'[i].value.n
      BY <3>1, <2>1 DEF SlaveInv, RegistersAhead
    <3> QED
      BY <1>2, <1>6, <2>1, <3>2, <3>3 DEF WrittenFrom
  <2> QED
    BY <2>1 DEF RegistersAhead
<1>9. Forward
  BY <1>2, <1>4, <1>5 DEF Forward, WrittenFrom
<1>10. ASSUME NEW s \in Slot, NEW n \in Nat, Behind(reg, rxQueue, s, n)
       PROVE  Behind(reg', rxQueue', s, n)
  <2>1. \A w \in 1..2 : reg[s][w].n <= n
    BY <1>10 DEF Behind
  <2>2. s = f.slot => f.value.n <= n
    BY <1>10, <1>1 DEF Behind, f
  <2>3. \A w \in 1..2 : reg'[s][w].n <= n
    BY <1>2, <2>1, <2>2 DEF WrittenFrom
  <2>4. ASSUME NEW i \in 1..Len(rxQueue'), rxQueue'[i].slot = s
        PROVE  rxQueue'[i].value.n <= n
    <3>1. i + 1 \in 1..Len(rxQueue) /\ rxQueue'[i] = rxQueue[i + 1]
      BY <1>1, <2>4
    <3> QED
      BY <3>1, <2>4, <1>10 DEF Behind
  <2> QED
    BY <2>3, <2>4 DEF Behind
<1> QED
  BY <1>7, <1>8, <1>9, <1>10

\* A step that leaves the queue alone and writes what is not newer than the
\* first word of a block.
LEMMA Settles ==
  ASSUME SlaveInv, rxQueue' = rxQueue, Bank(reg'), Forward,
         \A s \in Slot, w \in 1..2 :
           reg'[s][w].n = reg[s][w].n \/ reg'[s][w].n = reg[s][1].n
  PROVE  /\ QueueInOrder' /\ RegistersAhead'
         /\ \A s \in Slot, n \in Nat : Behind(reg, rxQueue, s, n) => Behind(reg', rxQueue', s, n)
<1>1. QueueInOrder'
  BY DEF SlaveInv, QueueInOrder
<1>2. RegistersAhead'
  <2>1. ASSUME NEW i \in 1..Len(rxQueue), NEW w \in 1..2
        PROVE  reg'[rxQueue[i].slot][w].n <= rxQueue[i].value.n
    <3>1. rxQueue[i].slot \in Slot /\ 1 \in 1..2
      BY <2>1, QueueFacts DEF SlaveInv, SlaveTypes
    <3>2. /\ reg[rxQueue[i].slot][w].n <= rxQueue[i].value.n
          /\ reg[rxQueue[i].slot][1].n <= rxQueue[i].value.n
      BY <2>1, <3>1 DEF SlaveInv, RegistersAhead
    <3> QED
      BY <3>1, <3>2, <2>1
  <2> QED
    BY <2>1 DEF RegistersAhead
<1>3. ASSUME NEW s \in Slot, NEW n \in Nat, Behind(reg, rxQueue, s, n)
      PROVE  Behind(reg', rxQueue', s, n)
  <2>1. \A w \in 1..2 : reg[s][w].n <= n
    BY <1>3 DEF Behind
  <2>2. \A w \in 1..2 : reg'[s][w].n <= n
    BY <2>1
  <2> QED
    BY <1>3, <2>2 DEF Behind
<1> QED
  BY <1>1, <1>2, <1>3

LEMMA HandleFrameStep ==
  ASSUME SlaveInv, HandleFrame
  PROVE  /\ SlaveInv' /\ Forward
         /\ \A s \in Slot, n \in Nat : Behind(reg, rxQueue, s, n) => Behind(reg', rxQueue', s, n)
<1> DEFINE f == Head(rxQueue)
           b == [reg EXCEPT ![f.slot] = Both(f.value)]
           old == IF f.slot = SLOT_TRACK /\ IsPoint(f.value) THEN FALSE ELSE aged
<1>1. /\ rxQueue # << >> /\ rxQueue' = Tail(rxQueue) /\ rxQueue \in Seq(Frame)
      /\ Bank(reg) /\ aged \in BOOLEAN /\ handling = << >> /\ handling' = handling
      /\ reg' = Polled(b, old) /\ aged' = old /\ f.slot \notin ZoneSlot
  BY DEF HandleFrame, SlaveInv, SlaveTypes, Bank
<1>2. /\ f \in Frame /\ f.slot \in Slot /\ f.value \in Word(f.slot) /\ f.value.n \in Nat
      /\ Tail(rxQueue) \in Seq(Frame)
  BY <1>1, QueueTail, FrameFacts
<1>3. old \in BOOLEAN
  BY <1>1
<1> HIDE DEF f, old
<1>4. /\ DOMAIN b = Slot /\ b[f.slot] = <<f.value, f.value>>
      /\ \A s \in Slot : s # f.slot => b[s] = reg[s]
  BY <1>1, <1>2 DEF Bank, Both
<1> HIDE DEF b
<1>5. Bank(b)
  BY <1>1, <1>2, <1>4 DEF Bank
<1>6. b[SLOT_TRACK][1] = b[SLOT_TRACK][2]
  <2>1. CASE f.slot = SLOT_TRACK
    BY <2>1, <1>4
  <2>2. CASE f.slot # SLOT_TRACK
    BY <2>2, <1>4, SlotFacts DEF SlaveInv, OneTrack
  <2> QED
    BY <2>1, <2>2
<1>7. Bank(reg') /\ OneTrack' /\ \A s \in Slot, w \in 1..2 : reg'[s][w].n = b[s][w].n
  BY <1>1, <1>3, <1>5, <1>6, PolledFacts DEF OneTrack
<1>8. WrittenFrom(f)
  <2>1. ASSUME NEW s \in Slot, NEW w \in 1..2
        PROVE  b[s][w].n = reg[s][w].n \/ (s = f.slot /\ b[s][w].n = f.value.n)
    <3>1. w = 1 \/ w = 2
      BY <2>1
    <3> QED
      BY <3>1, <1>4, <2>1
  <2> QED
    BY <2>1, <1>7 DEF WrittenFrom
<1>9. WrittenFrom(Head(rxQueue))
  BY <1>8 DEF f
<1>10. /\ QueueInOrder' /\ RegistersAhead' /\ Forward
       /\ \A s \in Slot, n \in Nat : Behind(reg, rxQueue, s, n) => Behind(reg', rxQueue', s, n)
  BY <1>1, <1>7, <1>9, Dequeues
<1>11. SlaveTypes'
  BY <1>1, <1>2, <1>3, <1>7 DEF SlaveTypes, SlaveInv, Bank
<1>12. HalfWritten'
  BY <1>1 DEF HalfWritten
<1> QED
  BY <1>7, <1>10, <1>11, <1>12 DEF SlaveInv

LEMMA HandleTempStep ==
  ASSUME SlaveInv, HandleTemp
  PROVE  /\ SlaveInv' /\ Forward
         /\ \A s \in Slot, n \in Nat : Behind(reg, rxQueue, s, n) => Behind(reg', rxQueue', s, n)
<1> DEFINE f == Head(rxQueue)
<1>1. /\ rxQueue # << >> /\ rxQueue' = Tail(rxQueue) /\ rxQueue \in Seq(Frame)
      /\ Bank(reg) /\ aged \in BOOLEAN /\ handling = << >> /\ handling' = <<f>>
      /\ reg' = [reg EXCEPT ![f.slot][1] = f.value] /\ aged' = aged /\ f.slot \in ZoneSlot
  BY DEF HandleTemp, SlaveInv, SlaveTypes, Bank
<1>2. /\ f \in Frame /\ f.slot \in Slot /\ f.value \in Word(f.slot) /\ f.value.n \in Nat
      /\ Tail(rxQueue) \in Seq(Frame) /\ f = rxQueue[1] /\ 1 \in 1..Len(rxQueue)
  BY <1>1, QueueTail, FrameFacts
<1> HIDE DEF f
<1>3. PICK x, y \in Word(f.slot) : reg[f.slot] = <<x, y>>
  BY <1>1, <1>2 DEF Bank
<1>4. /\ DOMAIN reg' = Slot /\ reg'[f.slot] = <<f.value, y>>
      /\ \A s \in Slot : s # f.slot => reg'[s] = reg[s]
  BY <1>1, <1>2, <1>3 DEF Bank
<1>5. Bank(reg')
  BY <1>1, <1>2, <1>3, <1>4 DEF Bank
<1>6. WrittenFrom(f)
  <2>1. ASSUME NEW s \in Slot, NEW w \in 1..2
        PROVE  reg'[s][w].n = reg[s][w].n \/ (s = f.slot /\ reg'[s][w].n = f.value.n)
    <3>1. w = 1 \/ w = 2
      BY <2>1
    <3> QED
      BY <3>1, <1>3, <1>4, <2>1
  <2> QED
    BY <2>1 DEF WrittenFrom
<1>7. WrittenFrom(Head(rxQueue))
  BY <1>6 DEF f
<1>8. /\ QueueInOrder' /\ RegistersAhead' /\ Forward
      /\ \A s \in Slot, n \in Nat : Behind(reg, rxQueue, s, n) => Behind(reg', rxQueue', s, n)
  BY <1>1, <1>5, <1>7, Dequeues
<1>9. SlaveTypes'
  <2>1. <<f>> \in Seq(Frame) /\ Len(<<f>>) = 1
    BY <1>2
  <2> QED
    BY <1>1, <1>2, <1>5, <2>1 DEF SlaveTypes, Bank
<1>10. HalfWritten'
  <2>1. reg[rxQueue[1].slot][2].n <= rxQueue[1].value.n
    BY <1>2 DEF SlaveInv, RegistersAhead
  <2>2. reg'[f.slot][1] = f.value /\ reg'[f.slot][2].n <= f.value.n
    BY <1>2, <1>3, <1>4, <2>1
  <2> QED
    BY <1>1, <2>2 DEF HalfWritten
<1>11. OneTrack'
  BY <1>1, <1>4, SlotFacts DEF SlaveInv, OneTrack
<1> QED
  BY <1>8, <1>9, <1>10, <1>11 DEF SlaveInv

LEMMA HandleHumidityStep ==
  ASSUME SlaveInv, HandleHumidity
  PROVE  /\ SlaveInv' /\ Forward
         /\ \A s \in Slot, n \in Nat : Behind(reg, rxQueue, s, n) => Behind(reg', rxQueue', s, n)
<1> DEFINE f == handling[1]
           b == [reg EXCEPT ![f.slot][2] = f.value]
<1>1. /\ handling \in Seq(Frame) /\ Len(handling) = 1 /\ handling' = << >>
      /\ Bank(reg) /\ aged \in BOOLEAN /\ aged' = aged /\ rxQueue' = rxQueue
      /\ reg' = Polled(b, aged)
  <2>1. handling \in Seq(Frame) /\ Len(handling) <= 1 /\ handling # << >>
    BY DEF HandleHumidity, SlaveInv, SlaveTypes
  <2>2. Len(handling) = 1
    BY <2>1
  <2> QED
    BY <2>1, <2>2 DEF HandleHumidity, SlaveInv, SlaveTypes, Bank
<1>2. /\ f \in Frame /\ f.slot \in ZoneSlot /\ f.slot \in Slot /\ f.value \in Word(f.slot)
      /\ f.value.n \in Nat /\ reg[f.slot][1] = f.value /\ reg[f.slot][2].n <= f.value.n
  <2>1. 1 \in 1..Len(handling)
    BY <1>1
  <2> QED
    BY <1>1, <2>1, QueueFacts, SlotFacts DEF SlaveInv, HalfWritten
<1> HIDE DEF f
<1>3. PICK x, y \in Word(f.slot) : reg[f.slot] = <<x, y>>
  BY <1>1, <1>2 DEF Bank
<1>4. /\ DOMAIN b = Slot /\ b[f.slot] = <<f.value, f.value>>
      /\ \A s \in Slot : s # f.slot => b[s] = reg[s]
  BY <1>1, <1>2, <1>3 DEF Bank
<1> HIDE DEF b
<1>5. Bank(b)
  BY <1>1, <1>2, <1>4 DEF Bank
<1>6. b[SLOT_TRACK][1] = b[SLOT_TRACK][2]
  BY <1>2, <1>4, SlotFacts DEF SlaveInv, OneTrack
<1>7. Bank(reg') /\ OneTrack' /\ \A s \in Slot, w \in 1..2 : reg'[s][w].n = b[s][w].n
  BY <1>1, <1>5, <1>6, PolledFacts DEF OneTrack
<1>8. ASSUME NEW s \in Slot, NEW w \in 1..2
      PROVE  /\ reg'[s][w].n = reg[s][w].n \/ reg'[s][w].n = reg[s][1].n
             /\ reg'[s][w].n >= reg[s][w].n
  <2>1. reg'[s][w].n = b[s][w].n /\ reg[s][w].n \in Nat
    BY <1>1, <1>7, <1>8, BankFacts
  <2>2. w = 1 \/ w = 2
    BY <1>8
  <2>3. CASE s = f.slot
    BY <1>2, <1>3, <1>4, <2>1, <2>2, <2>3
  <2>4. CASE s # f.slot
    BY <1>4, <1>8, <2>1, <2>4
  <2> QED
    BY <2>3, <2>4
<1>9. Forward
  BY <1>8 DEF Forward
<1>10. /\ QueueInOrder' /\ RegistersAhead'
       /\ \A s \in Slot, n \in Nat : Behind(reg, rxQueue, s, n) => Behind(reg', rxQueue', s, n)
  BY <1>1, <1>7, <1>8, <1>9, Settles
<1>11. SlaveTypes'
  BY <1>1, <1>7 DEF SlaveTypes, SlaveInv, Bank
<1>12. HalfWritten'
  BY <1>1 DEF HalfWritten
<1> QED
  BY <1>7, <1>9, <1>10, <1>11, <1>12 DEF SlaveInv

LEMMA PollStep ==
  ASSUME SlaveInv, Poll
  PROVE  /\ SlaveInv' /\ Forward
         /\ \A s \in Slot, n \in Nat : Behind(reg, rxQueue, s, n) => Behind(reg', rxQueue', s, n)
<1>1. /\ Bank(reg) /\ aged \in BOOLEAN /\ handling = << >> /\ handling' = handling
      /\ rxQueue' = rxQueue /\ aged' = aged /\ reg' = Polled(reg, aged)
      /\ reg[SLOT_TRACK][1] = reg[SLOT_TRACK][2]
  BY DEF Poll, SlaveInv, SlaveTypes, Bank, OneTrack
<1>2. Bank(reg') /\ OneTrack' /\ \A s \in Slot, w \in 1..2 : reg'[s][w].n = reg[s][w].n
  BY <1>1, PolledFacts DEF OneTrack
<1>3. Forward
  BY <1>1, <1>2, BankFacts DEF Forward
<1>4. /\ QueueInOrder' /\ RegistersAhead'
      /\ \A s \in Slot, n \in Nat : Behind(reg, rxQueue, s, n) => Behind(reg', rxQueue', s, n)
  BY <1>1, <1>2, <1>3, Settles
<1>5. SlaveTypes' /\ HalfWritten'
  BY <1>1, <1>2 DEF SlaveTypes, SlaveInv, Bank, HalfWritten
<1> QED
  BY <1>2, <1>3, <1>4, <1>5 DEF SlaveInv

LEMMA TenSecondsStep ==
  ASSUME SlaveInv, TenSecondsPass
  PROVE  /\ SlaveInv' /\ Forward
         /\ \A s \in Slot, n \in Nat : Behind(reg, rxQueue, s, n) => Behind(reg', rxQueue', s, n)
<1>1. UNCHANGED <<rxQueue, handling, reg>> /\ aged' \in BOOLEAN /\ Bank(reg)
  BY DEF TenSecondsPass, SlaveInv, SlaveTypes, Bank
<1>2. SlaveInv'
  BY <1>1 DEF SlaveInv, SlaveTypes, QueueInOrder, RegistersAhead, HalfWritten, OneTrack
<1>3. Forward
  BY <1>1, BankFacts DEF Forward
<1> QED
  BY <1>1, <1>2, <1>3 DEF Behind

\* Whatever the panel does by itself: its invariant, registers that only go
\* forward, and nothing that gets newer.
LEMMA PanelStep ==
  ASSUME SlaveInv, Answering \/ Silent \/ TenSecondsPass
  PROVE  /\ SlaveInv' /\ Forward
         /\ \A s \in Slot, n \in Nat : Behind(reg, rxQueue, s, n) => Behind(reg', rxQueue', s, n)
BY HandleFrameStep, HandleTempStep, HandleHumidityStep, PollStep, TenSecondsStep
  DEF Answering, Silent

\* A frame that is not older than all that is before it joins the queue, or is
\* dropped.
LEMMA QueueFrameStep ==
  ASSUME SlaveInv, NEW f \in Frame, Behind(reg, rxQueue, f.slot, f.value.n),
         QueueFrame(f), UNCHANGED <<handling, reg, aged>>
  PROVE  /\ SlaveInv' /\ Forward
         /\ \A s \in Slot, n \in Nat :
              Behind(reg, rxQueue, s, n) /\ (f.slot = s => f.value.n <= n) => Behind(reg', rxQueue', s, n)
<1>1. /\ rxQueue \in Seq(Frame) /\ Len(rxQueue) \in Nat /\ Bank(reg)
      /\ f.slot \in Slot /\ f.value.n \in Nat
  BY FrameFacts DEF SlaveInv, SlaveTypes, Bank
<1>2. Forward
  BY <1>1, BankFacts DEF Forward
<1>3. CASE rxQueue' = rxQueue
  <2>1. SlaveInv'
    BY <1>3 DEF SlaveInv, SlaveTypes, QueueInOrder, RegistersAhead, HalfWritten, OneTrack
  <2> QED
    BY <1>2, <1>3, <2>1 DEF Behind
<1>4. CASE rxQueue' = Append(rxQueue, f)
  <2>1. /\ rxQueue' \in Seq(Frame) /\ Len(rxQueue') = Len(rxQueue) + 1
        /\ \A i \in 1..Len(rxQueue) : rxQueue'[i] = rxQueue[i]
        /\ rxQueue'[Len(rxQueue) + 1] = f
    BY <1>1, <1>4, QueueAppend
  <2>2. \A i \in 1..Len(rxQueue') :
          i \in 1..Len(rxQueue) \/ i = Len(rxQueue) + 1
    BY <1>1, <2>1
  <2>3. QueueInOrder'
    <3>1. ASSUME NEW i \in 1..Len(rxQueue'), NEW j \in 1..Len(rxQueue'), i < j,
                 rxQueue'[i].slot = rxQueue'[j].slot
          PROVE  rxQueue'[i].value.n <= rxQueue'[j].value.n
      <4>1. i \in 1..Len(rxQueue)
        BY <1>1, <2>1, <3>1
      <4>2. CASE j \in 1..Len(rxQueue)
        BY <4>1, <4>2, <2>1, <3>1 DEF SlaveInv, QueueInOrder
      <4>3. CASE j = Len(rxQueue) + 1
        BY <4>1, <4>3, <2>1, <3>1 DEF Behind
      <4> QED
        BY <2>2, <4>2, <4>3
    <3> QED
      BY <3>1 DEF QueueInOrder
  <2>4. RegistersAhead'
    <3>1. ASSUME NEW i \in 1..Len(rxQueue'), NEW w \in 1..2
          PROVE  reg[rxQueue'[i].slot][w].n <= rxQueue'[i].value.n
      <4>1. CASE i \in 1..Len(rxQueue)
        BY <4>1, <2>1, <3>1 DEF SlaveInv, RegistersAhead
      <4>2. CASE i = Len(rxQueue) + 1
        BY <4>2, <2>1, <3>1 DEF Behind
      <4> QED
        BY <2>2, <4>1, <4>2
    <3> QED
      BY <3>1 DEF RegistersAhead
  <2>5. SlaveTypes' /\ HalfWritten' /\ OneTrack'
    BY <2>1 DEF SlaveInv, SlaveTypes, HalfWritten, OneTrack
  <2>6. ASSUME NEW s \in Slot, NEW n \in Nat, Behind(reg, rxQueue, s, n), f.slot = s => f.value.n <= n
        PROVE  Behind(reg', rxQueue', s, n)
    <3>1. \A i \in 1..Len(rxQueue') : rxQueue'[i].slot = s => rxQueue'[i].value.n <= n
      BY <2>1, <2>2, <2>6 DEF Behind
    <3> QED
      BY <2>6, <3>1 DEF Behind
  <2> QED
    BY <1>2, <2>3, <2>4, <2>5, <2>6 DEF SlaveInv
<1> QED
  BY <1>3, <1>4 DEF QueueFrame

\* A reset panel is behind everything.
LEMMA SlaveResetStep ==
  ASSUME rxQueue' = << >>, handling' = << >>, reg' = NewReg, aged' = FALSE
  PROVE  SlaveInv' /\ \A s \in Slot, n \in Nat : Behind(reg', rxQueue', s, n)
<1>1. Len(rxQueue') = 0 /\ Len(handling') = 0 /\ rxQueue' \in Seq(Frame) /\ handling' \in Seq(Frame)
  BY EmptySeq
<1>2. SlaveTypes' /\ OneTrack'
  <2>1. FALSE \in BOOLEAN /\ aged' \in BOOLEAN
    OBVIOUS
  <2>2. OneTrack'
    BY NewRegFacts DEF OneTrack
  <2> QED
    BY <1>1, <2>1, <2>2, NewRegFacts DEF SlaveTypes
<1>3. QueueInOrder' /\ RegistersAhead' /\ HalfWritten'
  BY <1>1 DEF QueueInOrder, RegistersAhead, HalfWritten
<1>4. \A s \in Slot, n \in Nat : Behind(reg', rxQueue', s, n)
  BY <1>1, NewRegFacts DEF Behind
<1> QED
  BY <1>2, <1>3, <1>4 DEF SlaveInv

-----------------------------------------------------------------------------
(* The steps of the link.                                                  *)

WorkerType ==
  /\ worker \in [at : {"wait", "send", "answer"}, job : Seq(Frame), left : Int]
  /\ Len(worker.job) = IF worker.at = "wait" THEN 0 ELSE 1

LEMMA LinkFacts ==
  ASSUME LinkInv
  PROVE  /\ \A s \in Slot : latest[s] \in Word(s) /\ latest[s].n \in Nat /\ slots[s] \in Seq(Word(s))
         /\ \A s \in Slot : \A k \in 1..Len(slots[s]) :
              slots[s][k] \in Word(s) /\ slots[s][k].n \in Nat
         /\ \A i \in 1..Len(worker.job) :
              /\ worker.job[i] \in Frame /\ worker.job[i].slot \in Slot
              /\ worker.job[i].value.n \in Nat
<1>1. \A s \in Slot : latest[s] \in Word(s) /\ slots[s] \in Seq(Word(s))
  BY DEF LinkInv, LinkTypes
<1>2. \A s \in Slot : latest[s].n \in Nat
  BY <1>1, WordFacts
<1>3. ASSUME NEW s \in Slot, NEW k \in 1..Len(slots[s])
      PROVE  slots[s][k] \in Word(s) /\ slots[s][k].n \in Nat
  <2>1. slots[s][k] \in Word(s)
    BY <1>1, <1>3, ElementOfSeq
  <2> QED
    BY <2>1, WordFacts
<1>4. worker.job \in Seq(Frame)
  BY DEF LinkInv, LinkTypes
<1>5. \A i \in 1..Len(worker.job) :
        /\ worker.job[i] \in Frame /\ worker.job[i].slot \in Slot
        /\ worker.job[i].value.n \in Nat
  BY <1>4, QueueFacts
<1> QED
  BY <1>1, <1>2, <1>3, <1>5

\* Steps that leave the mailboxes alone and give the worker nothing new.
LEMMA NothingNew ==
  ASSUME LinkInv, UNCHANGED <<latest, slots, cursor>>, WorkerType',
         worker'.job = worker.job \/ worker'.job = << >>,
         Working' => Working,
         \A s \in Slot, n \in Nat : Behind(reg, rxQueue, s, n) => Behind(reg', rxQueue', s, n)
  PROVE  LinkTypes' /\ LinkOrder'
<1>1. LinkTypes'
  BY DEF LinkInv, LinkTypes, WorkerType
<1>2. \A s \in Slot : Behind(reg', rxQueue', s, latest'[s].n)
  BY LinkFacts DEF LinkInv, LinkOrder
<1>3. ASSUME NEW i \in 1..Len(worker'.job)
      PROVE  /\ worker'.job[i] = worker.job[i] /\ i \in 1..Len(worker.job)
             /\ worker.job[i].slot \in Slot /\ worker.job[i].value.n \in Nat
  <2>1. Len(<< >>) = 0
    OBVIOUS
  <2>2. worker'.job = worker.job
    BY <1>3, <2>1
  <2> QED
    BY <1>3, <2>2, LinkFacts
<1>4. ASSUME NEW i \in 1..Len(worker'.job)
      PROVE  /\ Behind(reg', rxQueue', worker.job[i].slot, worker.job[i].value.n)
             /\ worker.job[i].value.n <= latest[worker.job[i].slot].n
  <2>1. /\ Behind(reg, rxQueue, worker.job[i].slot, worker.job[i].value.n)
        /\ worker.job[i].value.n <= latest[worker.job[i].slot].n
    BY <1>3 DEF LinkInv, LinkOrder
  <2> QED
    BY <1>3, <2>1
<1>5. ASSUME Working', NEW s \in Slot, NEW k \in 1..Len(slots[s])
      PROVE  /\ Behind(reg', rxQueue', s, slots[s][k].n) /\ slots[s][k].n <= latest[s].n
             /\ \A i \in 1..Len(worker'.job) :
                  worker'.job[i].slot = s => worker'.job[i].value.n <= slots[s][k].n
  <2>1. /\ Behind(reg, rxQueue, s, slots[s][k].n) /\ slots[s][k].n <= latest[s].n
        /\ \A i \in 1..Len(worker.job) :
             worker.job[i].slot = s => worker.job[i].value.n <= slots[s][k].n
    BY <1>5 DEF LinkInv, LinkOrder
  <2>2. slots[s][k].n \in Nat
    BY <1>5, LinkFacts
  <2>3. Behind(reg', rxQueue', s, slots[s][k].n)
    BY <2>1, <2>2
  <2> QED
    BY <1>3, <2>1, <2>3
<1>6. LinkOrder'
  <2>1. \A i \in 1..Len(worker'.job) :
          /\ Behind(reg', rxQueue', worker'.job[i].slot, worker'.job[i].value.n)
          /\ worker'.job[i].value.n <= latest'[worker'.job[i].slot].n
    BY <1>3, <1>4
  <2> QED
    BY <1>2, <1>5, <2>1 DEF LinkOrder
<1> QED
  BY <1>1, <1>6

\* A value as new as all before it goes to the mailbox, when the daemon is there.
LEMMA Posts ==
  ASSUME LinkInv, NEW s \in Slot, NEW v \in Word(s), latest[s].n <= v.n,
         DOMAIN latest' = Slot, \A t \in Slot : latest'[t] = IF t = s THEN v ELSE latest[t],
         Handle(s, v), UNCHANGED <<app, port, cursor, worker, answers, slaveVars>>
  PROVE  LinkInv'
<1>1. /\ SlaveInv'
      /\ \A t \in Slot, n \in Nat : Behind(reg, rxQueue, t, n) => Behind(reg', rxQueue', t, n)
  BY DEF LinkInv, SlaveInv, SlaveTypes, QueueInOrder, RegistersAhead, HalfWritten, OneTrack,
         Behind, slaveVars
<1>2. v.n \in Nat /\ \A t \in Slot : latest[t].n \in Nat /\ latest[t].n <= latest'[t].n
  BY LinkFacts, WordFacts
<1>3. \A t \in Slot : latest'[t] \in Word(t) /\ latest'[t].n \in Nat
  BY LinkFacts, <1>2
<1>4. ASSUME NEW t \in Slot, NEW n \in Nat, latest[t].n <= n
      PROVE  Behind(reg, rxQueue, t, n)
  <2>1. Behind(reg, rxQueue, t, latest[t].n)
    BY DEF LinkInv, LinkOrder
  <2>2. \A w \in 1..2 : reg[t][w].n \in Nat
    BY BankFacts DEF LinkInv, SlaveInv, SlaveTypes, Bank
  <2>3. \A i \in 1..Len(rxQueue) : rxQueue[i].value.n \in Nat
    BY QueueFacts DEF LinkInv, SlaveInv, SlaveTypes
  <2> QED
    <3>1. latest[t].n \in Nat
      BY <1>2
    <3>2. \A w \in 1..2 : reg[t][w].n <= n
      BY <1>4, <2>1, <2>2, <3>1 DEF Behind
    <3>3. \A i \in 1..Len(rxQueue) : rxQueue[i].slot = t => rxQueue[i].value.n <= n
      BY <1>4, <2>1, <2>3, <3>1 DEF Behind
    <3> QED
      BY <3>2, <3>3 DEF Behind
<1>5. \A t \in Slot : Behind(reg', rxQueue', t, latest'[t].n)
  BY <1>1, <1>2, <1>3, <1>4
<1>6. \A i \in 1..Len(worker'.job) :
        LET f == worker'.job[i]
        IN Behind(reg', rxQueue', f.slot, f.value.n) /\ f.value.n <= latest'[f.slot].n
  <2>1. ASSUME NEW i \in 1..Len(worker.job)
        PROVE  /\ Behind(reg', rxQueue', worker.job[i].slot, worker.job[i].value.n)
               /\ worker.job[i].value.n <= latest'[worker.job[i].slot].n
    <3>1. worker.job[i].slot \in Slot /\ worker.job[i].value.n \in Nat
      BY LinkFacts
    <3>2. /\ Behind(reg, rxQueue, worker.job[i].slot, worker.job[i].value.n)
          /\ worker.job[i].value.n <= latest[worker.job[i].slot].n
      BY DEF LinkInv, LinkOrder
    <3> QED
      BY <1>1, <1>2, <1>3, <3>1, <3>2
  <2>2. worker' = worker
    OBVIOUS
  <2> QED
    BY <2>1, <2>2
<1>0. Working' = Working
  BY DEF Working
<1>7. CASE Working
  <2>1. /\ DOMAIN slots' = Slot /\ slots'[s] = <<v>>
        /\ \A t \in Slot : t # s => slots'[t] = slots[t]
    BY <1>7 DEF Handle, post, LinkInv, LinkTypes
  <2>2. <<v>> \in Seq(Word(s)) /\ Len(<<v>>) = 1 /\ <<v>>[1] = v
    OBVIOUS
  <2>3. LinkTypes'
    <3>1. \A t \in Slot : slots'[t] \in Seq(Word(t)) /\ Len(slots'[t]) <= 1
      <4>1. \A t \in Slot : slots[t] \in Seq(Word(t)) /\ Len(slots[t]) <= 1
        BY DEF LinkInv, LinkTypes
      <4>2. TAKE t \in Slot
      <4>3. CASE t = s
        BY <4>3, <2>1, <2>2
      <4>4. CASE t # s
        BY <4>4, <4>1, <2>1
      <4> QED
        BY <4>3, <4>4
    <3> QED
      BY <1>3, <2>1, <3>1 DEF LinkInv, LinkTypes
  <2>4. ASSUME NEW t \in Slot, NEW k \in 1..Len(slots'[t])
        PROVE  /\ Behind(reg', rxQueue', t, slots'[t][k].n) /\ slots'[t][k].n <= latest'[t].n
               /\ \A i \in 1..Len(worker'.job) :
                    worker'.job[i].slot = t => worker'.job[i].value.n <= slots'[t][k].n
    <3>1. CASE t = s
      <4>1. slots'[t][k] = v
        BY <2>1, <2>2, <2>4, <3>1
      <4> QED
        BY <1>2, <1>5, <1>6, <3>1, <4>1
    <3>2. CASE t # s
      <4>1. k \in 1..Len(slots[t]) /\ slots'[t][k] = slots[t][k] /\ slots[t][k].n \in Nat
        BY <2>1, <2>4, <3>2, LinkFacts
      <4>2. /\ Behind(reg, rxQueue, t, slots[t][k].n) /\ slots[t][k].n <= latest[t].n
            /\ \A i \in 1..Len(worker.job) :
                 worker.job[i].slot = t => worker.job[i].value.n <= slots[t][k].n
        BY <1>7, <4>1 DEF LinkInv, LinkOrder
      <4> QED
        BY <1>1, <3>2, <4>1, <4>2
    <3> QED
      BY <3>1, <3>2
  <2> QED
    BY <1>0, <1>1, <1>5, <1>6, <2>3, <2>4 DEF LinkInv, LinkOrder
<1>8. CASE ~ Working
  <2>1. slots' = slots
    BY <1>8 DEF Handle
  <2>2. LinkTypes'
    BY <1>3, <2>1 DEF LinkInv, LinkTypes
  <2> QED
    BY <1>0, <1>1, <1>5, <1>6, <1>8, <2>2 DEF LinkInv, LinkOrder
<1> QED
  BY <1>7, <1>8

LEMMA PublishStep ==
  ASSUME LinkInv, NEW s \in Slot, Publish(s)
  PROVE  LinkInv'
<1>1. PICK c \in Contents(s) :
        /\ latest' = [latest EXCEPT ![s] = [n |-> latest[s].n + 1, c |-> c]]
        /\ Handle(s, [n |-> latest[s].n + 1, c |-> c])
  BY DEF Publish
<1> DEFINE v == [n |-> latest[s].n + 1, c |-> c]
<1>2. latest[s].n \in Nat /\ DOMAIN latest = Slot
  BY LinkFacts DEF LinkInv, LinkTypes
<1>3. c \in IF s = SLOT_FIRE THEN SUBSET Bits ELSE {{"none"}, {"point"}}
  <2>1. CASE s = SLOT_FIRE
    BY <1>1, <2>1, FiresAssumption, SlotFacts DEF Contents
  <2>2. CASE s # SLOT_FIRE
    BY <1>1, <2>2 DEF Contents
  <2> QED
    BY <2>1, <2>2
<1>4. v \in Word(s) /\ latest[s].n <= v.n
  BY <1>2, <1>3 DEF Word
<1> HIDE DEF v
<1>5. latest' = [latest EXCEPT ![s] = v] /\ Handle(s, v)
  BY <1>1 DEF v
<1>6. DOMAIN latest' = Slot /\ \A t \in Slot : latest'[t] = IF t = s THEN v ELSE latest[t]
  BY <1>2, <1>5
<1>7. UNCHANGED <<app, port, cursor, worker, answers, slaveVars>>
  BY DEF Publish
<1> QED
  BY <1>4, <1>5, <1>6, <1>7, Posts

LEMMA AgainStep ==
  ASSUME LinkInv, NEW s \in Slot, Again(s)
  PROVE  LinkInv'
<1>1. /\ latest[s] \in Word(s) /\ latest[s].n <= latest[s].n /\ DOMAIN latest' = Slot
      /\ \A t \in Slot : latest'[t] = IF t = s THEN latest[s] ELSE latest[t]
      /\ Handle(s, latest[s]) /\ UNCHANGED <<app, port, cursor, worker, answers, slaveVars>>
  BY LinkFacts DEF Again, LinkInv, LinkTypes
<1> QED
  BY <1>1, Posts

\* The worker takes a value from its mailbox: it is as new as all before it.
LEMMA TakePendingStep ==
  ASSUME LinkInv, TakePending
  PROVE  LinkInv'
<1>1. PICK i \in Slot :
        /\ pending(InTurn(i))
        /\ worker' = [at |-> "send",
                      job |-> <<[slot |-> InTurn(i), value |-> slots[InTurn(i)][1]]>>,
                      left |-> MATRIX_RETRIES]
        /\ slots' = [slots EXCEPT ![InTurn(i)] = << >>]
        /\ cursor' = (InTurn(i) + 1) % SLOT_COUNT
  BY DEF TakePending
<1>2. Working /\ UNCHANGED <<latest, app, answers, slaveVars>>
  BY DEF TakePending
<1> DEFINE s == InTurn(i)
           v == slots[s][1]
           f == [slot |-> s, value |-> v]
<1>3. s \in Slot /\ (s + 1) % SLOT_COUNT \in Slot
  <2>1. \A a \in Int, m \in Nat \ {0} : a % m \in 0..m - 1
    OBVIOUS
  <2>2. cursor \in Int /\ i \in Int /\ SLOT_COUNT \in Nat \ {0}
    BY SlotFacts DEF LinkInv, LinkTypes, Slot
  <2>3. s \in 0..SLOT_COUNT - 1
    BY <2>1, <2>2 DEF InTurn
  <2> HIDE DEF s
  <2>4. (s + 1) % SLOT_COUNT \in 0..SLOT_COUNT - 1
    BY <2>1, <2>2, <2>3
  <2> QED
    BY <2>3, <2>4 DEF Slot
<1>4. /\ slots[s] # << >> /\ DOMAIN slots = Slot
      /\ worker' = [at |-> "send", job |-> <<f>>, left |-> MATRIX_RETRIES]
      /\ slots' = [slots EXCEPT ![s] = << >>] /\ cursor' \in Slot
  BY <1>1, <1>3 DEF pending, LinkInv, LinkTypes
<1> HIDE DEF s
<1>5. 1 \in 1..Len(slots[s]) /\ slots[s] \in Seq(Word(s))
  <2>1. slots[s] \in Seq(Word(s))
    BY <1>3, LinkFacts
  <2>2. Len(slots[s]) \in Nat /\ Len(slots[s]) # 0
    BY <1>4, <2>1
  <2> QED
    BY <2>1, <2>2
<1>6. /\ v \in Word(s) /\ v.n \in Nat /\ Behind(reg, rxQueue, s, v.n) /\ v.n <= latest[s].n
  BY <1>2, <1>3, <1>5, LinkFacts DEF LinkInv, LinkOrder
<1>7. f \in Frame /\ f.slot = s /\ f.value = v
  BY <1>3, <1>6, MakeFrame
<1> HIDE DEF f, v
<1>8. /\ worker'.job = <<f>> /\ worker'.at = "send" /\ Len(worker'.job) = 1 /\ worker'.job[1] = f
      /\ \A k \in 1..Len(worker'.job) : worker'.job[k] = f
      /\ worker' \in [at : {"wait", "send", "answer"}, job : Seq(Frame), left : Int]
  BY <1>4, <1>7, LinkAssumption
<1>9. /\ DOMAIN slots' = Slot /\ slots'[s] = << >>
      /\ \A t \in Slot : t # s => slots'[t] = slots[t]
  BY <1>3, <1>4
<1>10. LinkTypes'
  BY <1>2, <1>4, <1>8, <1>9, EmptySeq DEF LinkInv, LinkTypes
<1>11. /\ SlaveInv'
       /\ \A t \in Slot, n \in Nat : Behind(reg, rxQueue, t, n) => Behind(reg', rxQueue', t, n)
  BY <1>2 DEF LinkInv, SlaveInv, SlaveTypes, QueueInOrder, RegistersAhead, HalfWritten, OneTrack,
         Behind, slaveVars
<1>12. \A t \in Slot : Behind(reg', rxQueue', t, latest'[t].n)
  BY <1>2, <1>11, LinkFacts DEF LinkInv, LinkOrder
<1>13. ASSUME NEW t \in Slot, NEW k \in 1..Len(slots'[t])
       PROVE  /\ Behind(reg', rxQueue', t, slots'[t][k].n) /\ slots'[t][k].n <= latest[t].n
              /\ t # s
  <2>1. t # s
    <3>1. Len(<< >>) = 0
      OBVIOUS
    <3> QED
      BY <1>9, <1>13, <3>1
  <2>2. k \in 1..Len(slots[t]) /\ slots'[t] = slots[t]
    BY <1>9, <1>13, <2>1
  <2>3. Behind(reg, rxQueue, t, slots[t][k].n) /\ slots[t][k].n <= latest[t].n /\ slots[t][k].n \in Nat
    BY <1>2, <2>2, LinkFacts DEF LinkInv, LinkOrder
  <2> QED
    BY <1>11, <2>1, <2>2, <2>3
<1>14. Behind(reg', rxQueue', f.slot, f.value.n) /\ f.value.n <= latest[f.slot].n
  BY <1>3, <1>6, <1>7, <1>11
<1>15. LinkOrder'
  BY <1>2, <1>7, <1>8, <1>12, <1>13, <1>14 DEF LinkOrder
<1> QED
  BY <1>10, <1>11, <1>15 DEF LinkInv

\* The daemon that leaves clears the track with the number of the last one.
LEMMA LeaveStep ==
  ASSUME LinkInv, Leave
  PROVE  LinkInv'
<1> DEFINE v == [n |-> latest[SLOT_TRACK].n, c |-> {"none"}]
           f == [slot |-> SLOT_TRACK, value |-> v]
<1>1. /\ worker' = [at |-> "send", left |-> MATRIX_RETRIES, job |-> <<f>>]
      /\ app' = "clearing" /\ UNCHANGED <<latest, slots, cursor, answers, slaveVars>>
  BY DEF Leave
<1>2. latest[SLOT_TRACK].n \in Nat /\ Behind(reg, rxQueue, SLOT_TRACK, latest[SLOT_TRACK].n)
  BY LinkFacts, SlotFacts DEF LinkInv, LinkOrder
<1>3. v \in Word(SLOT_TRACK) /\ v.n = latest[SLOT_TRACK].n
  BY <1>2, SlotFacts DEF Word
<1> HIDE DEF v
<1>4. f \in Frame /\ f.slot = SLOT_TRACK /\ f.value = v
  BY <1>3, SlotFacts, MakeFrame
<1> HIDE DEF f
<1>5. /\ \A k \in 1..Len(worker'.job) : worker'.job[k] = f
      /\ worker'.at = "send" /\ Len(worker'.job) = 1
      /\ worker' \in [at : {"wait", "send", "answer"}, job : Seq(Frame), left : Int]
  BY <1>1, <1>4, LinkAssumption
<1>6. /\ SlaveInv'
      /\ \A t \in Slot, n \in Nat : Behind(reg, rxQueue, t, n) => Behind(reg', rxQueue', t, n)
  BY <1>1 DEF LinkInv, SlaveInv, SlaveTypes, QueueInOrder, RegistersAhead, HalfWritten, OneTrack,
         Behind, slaveVars
<1>7. \A t \in Slot : Behind(reg', rxQueue', t, latest'[t].n)
  BY <1>1, <1>6, LinkFacts DEF LinkInv, LinkOrder
<1>8. Behind(reg', rxQueue', f.slot, f.value.n) /\ f.value.n <= latest[f.slot].n
  BY <1>2, <1>3, <1>4, <1>6, SlotFacts
<1>9. LinkTypes'
  BY <1>1, <1>5 DEF LinkInv, LinkTypes
<1>10. LinkOrder'
  BY <1>1, <1>5, <1>7, <1>8 DEF LinkOrder, Working
<1> QED
  BY <1>6, <1>9, <1>10 DEF LinkInv

LEMMA StartAppStep ==
  ASSUME LinkInv, NEW opens \in BOOLEAN, StartApp(opens)
  PROVE  LinkInv'
<1>1. /\ slots' = [s \in Slot |-> << >>] /\ cursor' = 0 /\ worker' = Idle
      /\ UNCHANGED <<latest, slaveVars>>
  BY DEF StartApp
<1>2. /\ SlaveInv'
      /\ \A t \in Slot, n \in Nat : Behind(reg, rxQueue, t, n) => Behind(reg', rxQueue', t, n)
  BY <1>1 DEF LinkInv, SlaveInv, SlaveTypes, QueueInOrder, RegistersAhead, HalfWritten, OneTrack,
         Behind, slaveVars
<1>3. \A t \in Slot : Behind(reg', rxQueue', t, latest'[t].n)
  BY <1>1, <1>2, LinkFacts DEF LinkInv, LinkOrder
<1>4. /\ Len(worker'.job) = 0 /\ worker'.at = "wait"
      /\ worker' \in [at : {"wait", "send", "answer"}, job : Seq(Frame), left : Int]
      /\ DOMAIN slots' = Slot /\ \A s \in Slot : slots'[s] = << >> /\ Len(slots'[s]) = 0
  BY <1>1 DEF Idle
<1>5. LinkTypes'
  BY <1>1, <1>4, SlotFacts, EmptySeq DEF LinkInv, LinkTypes
<1>6. LinkOrder'
  BY <1>1, <1>3, <1>4 DEF LinkOrder
<1> QED
  BY <1>2, <1>5, <1>6 DEF LinkInv

-----------------------------------------------------------------------------
(* The whole.                                                              *)

LEMMA InitInv ==
  ASSUME Init
  PROVE  LinkInv
<1>1. /\ rxQueue = << >> /\ handling = << >> /\ reg = NewReg /\ aged = FALSE
      /\ latest = [s \in Slot |-> Blank(s)] /\ slots = [s \in Slot |-> << >>]
      /\ cursor = 0 /\ worker = Idle
  BY DEF Init, SlaveInit
<1>2. Len(rxQueue) = 0 /\ Len(handling) = 0 /\ rxQueue \in Seq(Frame) /\ handling \in Seq(Frame)
  BY <1>1, EmptySeq
<1>3. FALSE \in BOOLEAN
  OBVIOUS
<1>4. SlaveTypes /\ OneTrack
  <2>1. OneTrack
    BY <1>1, NewRegFacts DEF OneTrack
  <2>2. DOMAIN reg = Slot /\ \A s \in Slot : reg[s] \in Word(s) \X Word(s)
    BY <1>1, NewRegFacts
  <2>3. aged \in BOOLEAN
    BY <1>1, <1>3
  <2> QED
    BY <1>2, <2>1, <2>2, <2>3 DEF SlaveTypes
<1>5. QueueInOrder /\ RegistersAhead /\ HalfWritten
  BY <1>2 DEF QueueInOrder, RegistersAhead, HalfWritten
<1>6. /\ DOMAIN latest = Slot /\ \A s \in Slot : latest[s] \in Word(s) /\ latest[s].n = 0
  BY <1>1, BlankFacts
<1>7. /\ Len(worker.job) = 0 /\ worker.at = "wait"
      /\ worker \in [at : {"wait", "send", "answer"}, job : Seq(Frame), left : Int]
      /\ DOMAIN slots = Slot /\ \A s \in Slot : slots[s] = << >> /\ Len(slots[s]) = 0
  BY <1>1 DEF Idle
<1>8. LinkTypes
  BY <1>1, <1>6, <1>7, SlotFacts, EmptySeq DEF LinkTypes
<1>9. \A s \in Slot : Behind(reg, rxQueue, s, latest[s].n)
  BY <1>1, <1>2, <1>6, NewRegFacts DEF Behind
<1>10. LinkOrder
  BY <1>7, <1>9 DEF LinkOrder
<1> QED
  BY <1>4, <1>5, <1>8, <1>10 DEF LinkInv, SlaveInv

\* A step of the worker or of the daemon that leaves the panel alone.
LEMMA SlaveIdle ==
  ASSUME LinkInv, UNCHANGED <<rxQueue, handling, reg, aged>>
  PROVE  /\ SlaveInv' /\ Forward
         /\ \A s \in Slot, n \in Nat : Behind(reg, rxQueue, s, n) => Behind(reg', rxQueue', s, n)
<1>1. SlaveInv'
  BY DEF LinkInv, SlaveInv, SlaveTypes, QueueInOrder, RegistersAhead, HalfWritten, OneTrack
<1>2. Forward
  BY BankFacts DEF Forward, LinkInv, SlaveInv, SlaveTypes, Bank
<1> QED
  BY <1>1, <1>2

LEMMA WorkerFacts ==
  ASSUME LinkInv
  PROVE  WorkerType
BY DEF LinkInv, LinkTypes, WorkerType

LEMMA WorkerUpdates ==
  ASSUME NEW w \in [at : {"wait", "send", "answer"}, job : Seq(Frame), left : Int], NEW k \in Int
  PROVE  /\ LET u == [w EXCEPT !.at = "answer"]
            IN /\ u \in [at : {"wait", "send", "answer"}, job : Seq(Frame), left : Int]
               /\ u.at = "answer" /\ u.job = w.job
         /\ LET u == [w EXCEPT !.at = "send", !.left = k]
            IN /\ u \in [at : {"wait", "send", "answer"}, job : Seq(Frame), left : Int]
               /\ u.at = "send" /\ u.job = w.job
OBVIOUS

LEMMA AttemptStep ==
  ASSUME LinkInv, Attempt
  PROVE  /\ WorkerType' /\ worker'.job = worker.job
         /\ worker.job[1] \in Frame
         /\ Behind(reg, rxQueue, worker.job[1].slot, worker.job[1].value.n)
         /\ UNCHANGED <<latest, app, port, slots, cursor>>
<1>1. /\ worker.at = "send" /\ worker' = [worker EXCEPT !.at = "answer"]
      /\ UNCHANGED <<latest, app, port, slots, cursor>>
  BY DEF Attempt
<1>2. WorkerType' /\ worker'.job = worker.job /\ 1 \in 1..Len(worker.job)
  <2>1. /\ worker \in [at : {"wait", "send", "answer"}, job : Seq(Frame), left : Int]
        /\ Len(worker.job) = 1 /\ 0 \in Int
    BY <1>1, WorkerFacts DEF WorkerType
  <2>2. /\ worker' \in [at : {"wait", "send", "answer"}, job : Seq(Frame), left : Int]
        /\ worker'.at = "answer" /\ worker'.job = worker.job
    BY <1>1, <2>1, WorkerUpdates
  <2> QED
    BY <2>1, <2>2 DEF WorkerType
<1> QED
  BY <1>1, <1>2, LinkFacts DEF LinkInv, LinkOrder

LEMMA SendStep ==
  ASSUME LinkInv, Send
  PROVE  LinkInv' /\ Forward
<1>1. Attempt /\ QueueFrame(worker.job[1]) /\ UNCHANGED <<handling, reg, aged>>
  BY DEF Send
<1> DEFINE f == worker.job[1]
<1>2. /\ WorkerType' /\ worker'.job = worker.job /\ UNCHANGED <<latest, app, port, slots, cursor>>
      /\ f \in Frame /\ Behind(reg, rxQueue, f.slot, f.value.n)
  BY <1>1, AttemptStep
<1> HIDE DEF f
<1>3. /\ SlaveInv' /\ Forward
      /\ \A s \in Slot, n \in Nat :
           Behind(reg, rxQueue, s, n) /\ (f.slot = s => f.value.n <= n)
             => Behind(reg', rxQueue', s, n)
  <2>1. QueueFrame(f) /\ SlaveInv
    BY <1>1 DEF f, LinkInv
  <2> QED
    BY <1>1, <1>2, <2>1, QueueFrameStep
<1>4. LinkTypes'
  BY <1>2 DEF LinkInv, LinkTypes, WorkerType
<1>5. Len(worker.job) = 1 /\ \A i \in 1..Len(worker.job) : worker.job[i] = f
  <2>1. Len(worker.job) = 1
    BY <1>1, WorkerFacts DEF Attempt, WorkerType
  <2> QED
    BY <2>1 DEF f
<1>6. f.slot \in Slot /\ f.value.n \in Nat /\ f.value.n <= latest[f.slot].n
  BY <1>2, <1>5, FrameFacts DEF LinkInv, LinkOrder
<1>7. \A s \in Slot : Behind(reg', rxQueue', s, latest[s].n)
  BY <1>3, <1>6, LinkFacts DEF LinkInv, LinkOrder
<1>8. Behind(reg', rxQueue', f.slot, f.value.n)
  BY <1>2, <1>3, <1>6
<1>9. ASSUME Working, NEW s \in Slot, NEW k \in 1..Len(slots[s])
      PROVE  /\ Behind(reg', rxQueue', s, slots[s][k].n) /\ slots[s][k].n <= latest[s].n
             /\ f.slot = s => f.value.n <= slots[s][k].n
  <2>1. /\ Behind(reg, rxQueue, s, slots[s][k].n) /\ slots[s][k].n <= latest[s].n
        /\ f.slot = s => f.value.n <= slots[s][k].n
    BY <1>5, <1>9 DEF LinkInv, LinkOrder
  <2>2. slots[s][k].n \in Nat
    BY <1>9, LinkFacts
  <2> QED
    BY <1>3, <2>1, <2>2
<1>10. LinkOrder'
  <2>1. /\ latest' = latest /\ slots' = slots /\ Working' = Working
        /\ \A i \in 1..Len(worker'.job) : worker'.job[i] = f
    BY <1>2, <1>5 DEF Working
  <2> QED
    BY <1>6, <1>7, <1>8, <1>9, <2>1 DEF LinkOrder
<1> QED
  BY <1>3, <1>4, <1>10 DEF LinkInv

\* The steps of the worker and of the daemon that bring nothing new.
LEMMA JobEndsFacts ==
  ASSUME JobEnds
  PROVE  worker' = Idle /\ (Working' => Working)
BY DEF JobEnds, Working

LEMMA AttemptFailsFacts ==
  ASSUME LinkInv, AttemptFails, worker.at = "answer"
  PROVE  /\ WorkerType' /\ (worker'.job = worker.job \/ worker'.job = << >>)
         /\ (Working' => Working) /\ UNCHANGED <<latest, slots, cursor, slaveVars>>
<1>1. CASE worker.left > 0
  <2>1. worker' = [worker EXCEPT !.at = "send", !.left = worker.left - 1] /\ Working' = Working
    BY <1>1 DEF AttemptFails, Working
  <2>2. WorkerType' /\ worker'.job = worker.job
    <3>1. /\ worker \in [at : {"wait", "send", "answer"}, job : Seq(Frame), left : Int]
          /\ Len(worker.job) = 1 /\ worker.left - 1 \in Int
      BY WorkerFacts DEF WorkerType
    <3>2. /\ worker' \in [at : {"wait", "send", "answer"}, job : Seq(Frame), left : Int]
          /\ worker'.at = "send" /\ worker'.job = worker.job
      BY <2>1, <3>1, WorkerUpdates
    <3> QED
      BY <3>1, <3>2 DEF WorkerType
  <2> QED
    BY <2>1, <2>2 DEF AttemptFails
<1>2. CASE ~ (worker.left > 0)
  <2>1. worker' = Idle /\ (Working' => Working)
    BY <1>2, JobEndsFacts DEF AttemptFails
  <2>2. WorkerType' /\ worker'.job = << >>
    BY <2>1 DEF WorkerType, Idle
  <2> QED
    BY <2>1, <2>2 DEF AttemptFails
<1> QED
  BY <1>1, <1>2

LEMMA NothingNewStep ==
  ASSUME LinkInv,
         \/ SendLost \/ WriteFails \/ Receive \/ ReceiveDamaged \/ Timeout
         \/ StopApp \/ KillApp \/ PortGoes
         \/ \E z \in ZoneSlot : SensorFails(z) \/ SensorRecovers(z)
  PROVE  LinkInv' /\ Forward
<1>1. /\ WorkerType' /\ (worker'.job = worker.job \/ worker'.job = << >>)
      /\ (Working' => Working) /\ UNCHANGED <<latest, slots, cursor, slaveVars>>
  <2>1. CASE SendLost
    BY <2>1, AttemptStep DEF SendLost, Working
  <2>2. CASE Receive \/ WriteFails
    <3>1. worker' = Idle /\ (Working' => Working)
      BY <2>2, JobEndsFacts DEF Receive, WriteFails
    <3>2. WorkerType' /\ worker'.job = << >>
      BY <3>1 DEF WorkerType, Idle
    <3> QED
      BY <2>2, <3>1, <3>2 DEF Receive, WriteFails
  <2>3. CASE ReceiveDamaged
    BY <2>3, AttemptFailsFacts DEF ReceiveDamaged
  <2>4. CASE Timeout
    BY <2>4, AttemptFailsFacts DEF Timeout
  <2>5. CASE StopApp \/ PortGoes \/ \E z \in ZoneSlot : SensorFails(z) \/ SensorRecovers(z)
    <3>1. worker' = worker /\ (Working' => Working) /\ UNCHANGED <<latest, slots, cursor, slaveVars>>
      BY <2>5 DEF StopApp, PortGoes, SensorFails, SensorRecovers, Working
    <3>2. WorkerType' /\ worker'.job = worker.job
      BY <3>1, WorkerFacts DEF WorkerType
    <3> QED
      BY <3>1, <3>2
  <2>6. CASE KillApp
    <3>1. WorkerType' /\ worker'.job = << >>
      BY <2>6 DEF KillApp, WorkerType, Idle
    <3> QED
      BY <2>6, <3>1 DEF KillApp, Working
  <2> QED
    BY <2>1, <2>2, <2>3, <2>4, <2>5, <2>6
<1>2. UNCHANGED <<rxQueue, handling, reg, aged>>
  BY <1>1 DEF slaveVars
<1>3. /\ SlaveInv' /\ Forward
      /\ \A s \in Slot, n \in Nat : Behind(reg, rxQueue, s, n) => Behind(reg', rxQueue', s, n)
  BY <1>2, SlaveIdle
<1>4. LinkTypes' /\ LinkOrder'
  BY <1>1, <1>3, NothingNew
<1> QED
  BY <1>3, <1>4 DEF LinkInv

LEMMA PanelWorksStep ==
  ASSUME LinkInv, Answers \/ Works \/ Age
  PROVE  LinkInv' /\ Forward
<1>1. (Answering \/ Silent \/ TenSecondsPass) /\ UNCHANGED <<latest, app, port, slots, cursor, worker>>
  BY DEF Answers, Works, Age, linkVars
<1>2. /\ SlaveInv' /\ Forward
      /\ \A s \in Slot, n \in Nat : Behind(reg, rxQueue, s, n) => Behind(reg', rxQueue', s, n)
  BY <1>1, PanelStep DEF LinkInv
<1>3. WorkerType' /\ worker'.job = worker.job
  BY <1>1, WorkerFacts DEF WorkerType
<1>5. Working' => Working
  BY <1>1 DEF Working
<1>4. LinkTypes' /\ LinkOrder'
  BY <1>1, <1>2, <1>3, <1>5, NothingNew
<1> QED
  BY <1>2, <1>4 DEF LinkInv

LEMMA ResetPanelStep ==
  ASSUME LinkInv, ResetPanel
  PROVE  LinkInv' /\ reg' = NewReg
<1>1. /\ rxQueue' = << >> /\ handling' = << >> /\ reg' = NewReg /\ aged' = FALSE
      /\ UNCHANGED <<latest, app, port, slots, cursor, worker>>
  BY DEF ResetPanel, SlaveReset, linkVars
<1>2. SlaveInv' /\ \A s \in Slot, n \in Nat : Behind(reg', rxQueue', s, n)
  BY <1>1, SlaveResetStep
<1>3. WorkerType' /\ worker'.job = worker.job
  BY <1>1, WorkerFacts DEF WorkerType
<1>5. Working' => Working
  BY <1>1 DEF Working
<1>4. LinkTypes' /\ LinkOrder'
  BY <1>1, <1>2, <1>3, <1>5, NothingNew
<1> QED
  BY <1>1, <1>2, <1>4 DEF LinkInv

LEMMA NextInv ==
  ASSUME LinkInv, [Next]_vars
  PROVE  LinkInv' /\ (Forward \/ reg' = NewReg)
<1>1. ASSUME NEW s \in Slot, Publish(s) \/ Refresh(s) \/ Reconnect(s)
      PROVE  LinkInv' /\ Forward
  <2>1. Publish(s) \/ Again(s)
    BY <1>1 DEF Refresh, Reconnect
  <2>2. UNCHANGED <<rxQueue, handling, reg, aged>>
    BY <2>1 DEF Publish, Again, slaveVars
  <2> QED
    BY <2>1, <2>2, PublishStep, AgainStep, SlaveIdle
<1>2. CASE TakePending \/ Leave \/ \E opens \in BOOLEAN : StartApp(opens)
  <2>1. UNCHANGED <<rxQueue, handling, reg, aged>>
    BY <1>2 DEF TakePending, Leave, StartApp, slaveVars
  <2> QED
    BY <1>2, <2>1, TakePendingStep, LeaveStep, StartAppStep, SlaveIdle
<1>3. CASE Send
  BY <1>3, SendStep
<1>4. CASE \/ SendLost \/ WriteFails \/ Receive \/ ReceiveDamaged \/ Timeout
           \/ StopApp \/ KillApp \/ PortGoes
           \/ \E z \in ZoneSlot : SensorFails(z) \/ SensorRecovers(z)
  BY <1>4, NothingNewStep
<1>5. CASE Answers \/ Works \/ Age
  BY <1>5, PanelWorksStep
<1>6. CASE ResetPanel
  BY <1>6, ResetPanelStep
<1>7. CASE UNCHANGED vars
  <2>1. UNCHANGED <<rxQueue, handling, reg, aged>> /\ UNCHANGED <<latest, app, port, slots, cursor, worker>>
    BY <1>7 DEF vars, linkVars, slaveVars
  <2>2. /\ SlaveInv' /\ Forward
        /\ \A s \in Slot, n \in Nat : Behind(reg, rxQueue, s, n) => Behind(reg', rxQueue', s, n)
    BY <2>1, SlaveIdle
  <2>3. WorkerType' /\ worker'.job = worker.job
    BY <2>1, WorkerFacts DEF WorkerType
  <2>4. Working' => Working
    BY <2>1 DEF Working
  <2>5. LinkTypes' /\ LinkOrder'
    BY <2>1, <2>2, <2>3, <2>4, NothingNew
  <2> QED
    BY <2>2, <2>5 DEF LinkInv
<1> QED
  BY <1>1, <1>2, <1>3, <1>4, <1>5, <1>6, <1>7 DEF Next, WorkerStep

\* Whatever is published, lost, repeated, late, stopped, killed and restarted,
\* a register never shows an older publication than before; a reset of the
\* panel alone clears them (mailboxes and worker of matrix_link.c, Modbus task
\* of modbus_slave.c).
THEOREM RegistersGoForward == Spec => NeverBackwards
<1>1. Init => LinkInv
  BY InitInv
<1>2. LinkInv /\ [Next]_vars => LinkInv'
  BY NextInv
<1>3. LinkInv /\ [Next]_vars =>
        [\/ reg' = NewReg
         \/ \A s \in Slot, w \in 1..2 : reg'[s][w].n >= reg[s][w].n]_reg
  BY NextInv DEF Forward
<1> QED
  BY <1>1, <1>2, <1>3, PTL DEF Spec, NeverBackwards

\* What LedPanel takes for granted of the line: the frames of a block come in
\* the order of their publication, and none is older than the registers.
THEOREM FramesComeInOrder == Spec => [](QueueInOrder /\ RegistersAhead)
<1>1. Init => LinkInv
  BY InitInv
<1>2. LinkInv /\ [Next]_vars => LinkInv'
  BY NextInv
<1>3. LinkInv => QueueInOrder /\ RegistersAhead
  BY DEF LinkInv, SlaveInv
<1> QED
  BY <1>1, <1>2, <1>3, PTL DEF Spec

-----------------------------------------------------------------------------
(* The types and the bounds of the link.                                   *)

\* Every frame in the panel gives at most one answer, and an attempt drops the
\* answers that were left over.
AnswersBounded ==
  /\ answers \in Nat /\ Len(rxQueue) <= MODBUS_QUEUE_DEPTH
  /\ answers + Len(rxQueue) + Len(handling) <= MODBUS_QUEUE_DEPTH + 1

WorkerBounded ==
  /\ app \in {"up", "stopping", "clearing", "down"}
  /\ worker.left \in 0..MATRIX_RETRIES
  /\ \A s \in Slot : latest[s].n <= MaxPosts[s]

LEMMA LengthsOfLink ==
  ASSUME LinkInv
  PROVE  Len(rxQueue) \in Nat /\ Len(handling) \in Nat /\ Len(handling) <= 1
BY DEF LinkInv, SlaveInv, SlaveTypes

LEMMA AnswersStep ==
  ASSUME LinkInv, AnswersBounded, [Next]_vars
  PROVE  AnswersBounded'
<1> USE LengthsOfLink, SlaveAssumption
<1>1. CASE UNCHANGED <<answers, rxQueue, handling>>
  BY <1>1 DEF AnswersBounded
<1>2. CASE answers' = 0 /\ UNCHANGED <<rxQueue, handling>>
  BY <1>2 DEF AnswersBounded
<1>0. \A z \in ZoneSlot : SensorFails(z) \/ SensorRecovers(z) => AnswersBounded'
  BY <1>1 DEF SensorFails, SensorRecovers, slaveVars
<1>3. CASE Send
  <2>1. answers' = 0 /\ handling' = handling /\ QueueFrame(worker.job[1]) /\ worker.job[1] \in Frame
    BY <1>3, AttemptStep DEF Send, Attempt
  <2>2. CASE Len(rxQueue) < MODBUS_QUEUE_DEPTH
    <3>1. Len(rxQueue') = Len(rxQueue) + 1
      BY <2>1, <2>2, QueueAppend DEF QueueFrame, LinkInv, SlaveInv, SlaveTypes
    <3> QED
      BY <2>1, <2>2, <3>1 DEF AnswersBounded
  <2>3. CASE ~ (Len(rxQueue) < MODBUS_QUEUE_DEPTH)
    <3>1. rxQueue' = rxQueue
      BY <2>1, <2>3 DEF QueueFrame
    <3> QED
      BY <2>1, <3>1 DEF AnswersBounded
  <2> QED
    BY <2>2, <2>3
<1>4. CASE ResetPanel
  <2>1. answers' = answers /\ rxQueue' = << >> /\ handling' = << >> /\ Len(<< >>) = 0
    BY <1>4 DEF ResetPanel, SlaveReset, linkVars
  <2> QED
    BY <2>1 DEF AnswersBounded
<1>5. CASE Answers
  <2>1. answers' = answers + 1 \/ answers' = answers
    BY <1>5 DEF Answers
  <2>2. CASE HandleFrame
    <3>1. rxQueue # << >> /\ rxQueue' = Tail(rxQueue) /\ handling' = handling
      BY <2>2 DEF HandleFrame
    <3>2. Len(rxQueue') = Len(rxQueue) - 1 /\ Len(rxQueue') \in Nat
      BY <3>1, QueueTail DEF LinkInv, SlaveInv, SlaveTypes
    <3> QED
      BY <2>1, <3>1, <3>2 DEF AnswersBounded
  <2>3. CASE HandleHumidity
    <3>1. handling # << >> /\ handling \in Seq(Frame) /\ rxQueue' = rxQueue /\ handling' = << >>
      BY <2>3 DEF HandleHumidity, LinkInv, SlaveInv, SlaveTypes
    <3>2. Len(handling) # 0 /\ Len(<< >>) = 0
      BY <3>1
    <3> QED
      BY <2>1, <3>1, <3>2 DEF AnswersBounded
  <2> QED
    BY <1>5, <2>2, <2>3 DEF Answers, Answering
<1>6. CASE Works
  <2>1. answers' = answers
    BY <1>6 DEF Works, linkVars
  <2>2. CASE HandleTemp
    <3>1. rxQueue # << >> /\ rxQueue' = Tail(rxQueue) /\ handling = << >>
          /\ handling' = <<Head(rxQueue)>>
      BY <2>2 DEF HandleTemp
    <3>2. Len(rxQueue') = Len(rxQueue) - 1 /\ Len(rxQueue') \in Nat
      BY <3>1, QueueTail DEF LinkInv, SlaveInv, SlaveTypes
    <3>3. Len(handling) = 0 /\ Len(handling') = 1
      BY <3>1
    <3> QED
      BY <2>1, <3>2, <3>3 DEF AnswersBounded
  <2>3. CASE Poll
    BY <1>1, <2>1, <2>3 DEF Poll
  <2> QED
    BY <1>6, <2>2, <2>3 DEF Works, Silent
<1>7. ASSUME NEW s \in Slot, Publish(s) \/ Refresh(s) \/ Reconnect(s)
      PROVE  AnswersBounded'
  BY <1>1, <1>7 DEF Publish, Refresh, Reconnect, Again, slaveVars
<1>8. CASE TakePending \/ Leave \/ StopApp \/ KillApp \/ Timeout \/ Age \/ UNCHANGED vars
  BY <1>1, <1>8 DEF TakePending, Leave, StopApp, KillApp, Timeout, AttemptFails, Age,
                    TenSecondsPass, vars, linkVars, slaveVars
<1>9. CASE \/ Receive \/ ReceiveDamaged \/ WriteFails \/ SendLost \/ PortGoes
           \/ \E opens \in BOOLEAN : StartApp(opens)
  BY <1>2, <1>9 DEF Receive, ReceiveDamaged, WriteFails, AttemptFails, StartApp, SendLost, PortGoes,
                    Attempt, slaveVars
<1> QED
  BY <1>0, <1>3, <1>4, <1>5, <1>6, <1>7, <1>8, <1>9 DEF Next, WorkerStep

LEMMA BoundsStep ==
  ASSUME LinkInv, WorkerBounded, [Next]_vars
  PROVE  WorkerBounded'
<1>1. /\ MATRIX_RETRIES \in Nat /\ worker.left \in 0..MATRIX_RETRIES
      /\ \A s \in Slot : MaxPosts[s] \in Nat /\ latest[s].n \in Nat
  BY LinkAssumption, LinkFacts DEF WorkerBounded
<1>2. ASSUME NEW s \in Slot, Publish(s)
      PROVE  WorkerBounded'
  <2>1. PICK c \in Contents(s) : latest' = [latest EXCEPT ![s] = [n |-> latest[s].n + 1, c |-> c]]
    BY <1>2 DEF Publish
  <2>2. DOMAIN latest = Slot /\ latest[s].n < MaxPosts[s]
    BY <1>2 DEF Publish, LinkInv, LinkTypes
  <2>3. \A t \in Slot : latest'[t].n <= MaxPosts[t]
    BY <1>1, <2>1, <2>2 DEF WorkerBounded
  <2> QED
    BY <1>2, <2>3 DEF Publish, WorkerBounded
<1>3. CASE UNCHANGED <<latest, app, worker>>
  BY <1>3 DEF WorkerBounded
<1>4. ASSUME latest' = latest, app' \in {"up", "stopping", "clearing", "down"},
             worker'.left \in 0..MATRIX_RETRIES
      PROVE  WorkerBounded'
  BY <1>4 DEF WorkerBounded
<1>5. CASE TakePending \/ Leave
  <2>1. /\ latest' = latest /\ app' \in {app, "clearing"}
        /\ worker'.left = MATRIX_RETRIES
    BY <1>5 DEF TakePending, Leave
  <2> QED
    BY <1>1, <1>4, <2>1 DEF WorkerBounded
<1>6. CASE Send \/ SendLost
  <2>1. worker' = [worker EXCEPT !.at = "answer"] /\ UNCHANGED <<latest, app>>
    BY <1>6 DEF Send, SendLost, Attempt
  <2>2. worker'.left = worker.left
    BY <2>1, WorkerFacts DEF WorkerType
  <2> QED
    BY <1>1, <1>4, <2>1, <2>2 DEF WorkerBounded
<1>7. ASSUME JobEnds, latest' = latest
      PROVE  WorkerBounded'
  <2>1. worker'.left = 0 /\ app' \in {app, "down"}
    BY <1>7 DEF JobEnds, Idle
  <2> QED
    BY <1>1, <1>4, <1>7, <2>1 DEF WorkerBounded
<1>8. CASE ReceiveDamaged \/ Timeout
  <2>1. AttemptFails
    BY <1>8 DEF ReceiveDamaged, Timeout
  <2>2. CASE worker.left > 0
    <3>1. /\ worker' = [worker EXCEPT !.at = "send", !.left = worker.left - 1]
          /\ UNCHANGED <<latest, app>>
      BY <2>1, <2>2 DEF AttemptFails
    <3>2. worker'.left = worker.left - 1
      BY <3>1, WorkerFacts DEF WorkerType
    <3> QED
      BY <1>1, <1>4, <2>2, <3>1, <3>2 DEF WorkerBounded
  <2>3. CASE ~ (worker.left > 0)
    BY <1>7, <2>1, <2>3 DEF AttemptFails
  <2> QED
    BY <2>2, <2>3
<1>9. CASE Receive \/ WriteFails
  BY <1>7, <1>9 DEF Receive, WriteFails
<1>10. CASE StopApp
  BY <1>1, <1>4, <1>10 DEF StopApp
<1>11. CASE KillApp \/ \E opens \in BOOLEAN : StartApp(opens)
  <2>1. latest' = latest /\ worker'.left = 0 /\ app' \in {"up", "down"}
    BY <1>11 DEF KillApp, StartApp, Idle
  <2> QED
    BY <1>1, <1>4, <2>1
<1>12. CASE \/ ResetPanel \/ Answers \/ Works \/ Age \/ PortGoes \/ UNCHANGED vars
            \/ \E z \in ZoneSlot : SensorFails(z) \/ SensorRecovers(z)
  BY <1>3, <1>12 DEF ResetPanel, Answers, Works, Age, PortGoes, SensorFails, SensorRecovers, vars, linkVars
<1>13. ASSUME NEW s \in Slot, Refresh(s) \/ Reconnect(s)
       PROVE  WorkerBounded'
  BY <1>3, <1>13 DEF Refresh, Reconnect, Again
<1> QED
  BY <1>2, <1>5, <1>6, <1>8, <1>9, <1>10, <1>11, <1>12, <1>13 DEF Next, WorkerStep

DaemonTyped ==
  /\ sensor \in [ZoneSlot -> {"valid", "invalid", "silent"}]
  /\ port \in {"open", "gone", "none"} /\ (app = "down" => port = "none")

LEMMA DaemonStep ==
  ASSUME LinkInv, DaemonTyped, [Next]_vars
  PROVE  DaemonTyped'
<1>1. CASE UNCHANGED <<sensor, app, port>>
  BY <1>1 DEF DaemonTyped
<1>2. CASE \E z \in ZoneSlot : SensorFails(z) \/ SensorRecovers(z)
  BY <1>2 DEF SensorFails, SensorRecovers, DaemonTyped
<1>3. CASE StopApp \/ KillApp \/ PortGoes \/ \E opens \in BOOLEAN : StartApp(opens)
  BY <1>3 DEF StopApp, KillApp, PortGoes, StartApp, DaemonTyped
<1>4. CASE JobEnds /\ UNCHANGED sensor
  BY <1>4 DEF JobEnds, DaemonTyped
<1>5. CASE Receive \/ WriteFails \/ ReceiveDamaged \/ Timeout
  BY <1>1, <1>4, <1>5 DEF Receive, WriteFails, ReceiveDamaged, Timeout, AttemptFails
<1>6. CASE TakePending \/ Send \/ SendLost
  BY <1>1, <1>6 DEF TakePending, Send, SendLost, Attempt
<1>7. CASE Leave
  BY <1>7 DEF Leave, DaemonTyped
<1>8. CASE ResetPanel \/ Answers \/ Works \/ Age \/ UNCHANGED vars
  BY <1>1, <1>8 DEF ResetPanel, Answers, Works, Age, vars, linkVars
<1>9. ASSUME NEW s \in Slot, Publish(s) \/ Refresh(s) \/ Reconnect(s)
      PROVE  DaemonTyped'
  BY <1>1, <1>9 DEF Publish, Refresh, Reconnect, Again
<1> QED
  BY <1>2, <1>3, <1>5, <1>6, <1>7, <1>8, <1>9 DEF Next, WorkerStep

\* Every variable keeps its type: no mailbox holds two values, no more answers
\* wait than frames were queued, the two words of a track always agree.
THEOREM LinkTyped == Spec => []TypeOK
<1>1. Init => LinkInv /\ AnswersBounded /\ WorkerBounded /\ DaemonTyped
  <2> SUFFICES ASSUME Init
               PROVE  LinkInv /\ AnswersBounded /\ WorkerBounded /\ DaemonTyped
    OBVIOUS
  <2>1. LinkInv
    BY InitInv
  <2>2. AnswersBounded
    <3>1. answers = 0 /\ rxQueue = << >> /\ handling = << >> /\ Len(<< >>) = 0
      BY DEF Init, SlaveInit
    <3> QED
      BY <3>1, SlaveAssumption DEF AnswersBounded
  <2>3. WorkerBounded
    <3>1. /\ app = "down" /\ worker.left = 0 /\ \A s \in Slot : latest[s].n = 0
      BY BlankFacts DEF Init, Idle
    <3> QED
      BY <3>1, LinkAssumption DEF WorkerBounded
  <2>4. DaemonTyped
    BY DEF Init, DaemonTyped
  <2> QED
    BY <2>1, <2>2, <2>3, <2>4
<1>2. LinkInv /\ AnswersBounded /\ WorkerBounded /\ DaemonTyped /\ [Next]_vars
        => (LinkInv /\ AnswersBounded /\ WorkerBounded /\ DaemonTyped)'
  BY NextInv, AnswersStep, BoundsStep, DaemonStep
<1>3. LinkInv /\ AnswersBounded /\ WorkerBounded /\ DaemonTyped => TypeOK
  <2> SUFFICES ASSUME LinkInv, AnswersBounded, WorkerBounded, DaemonTyped
               PROVE  TypeOK
    OBVIOUS
  <2>1. SlaveTypeOK
    <3>1. \A i \in 1..Len(rxQueue) : IsFrame(rxQueue[i])
      BY QueueFacts DEF IsFrame, LinkInv, SlaveInv, SlaveTypes
    <3> QED
      BY <3>1 DEF SlaveTypeOK, LinkInv, SlaveInv, SlaveTypes, OneTrack, AnswersBounded
  <2>2. worker.at \in {"wait", "send", "answer"} /\ (worker.job = << >>) = (worker.at = "wait")
    <3>1. worker.at \in {"wait", "send", "answer"} /\ worker.job \in Seq(Frame)
      BY WorkerFacts DEF WorkerType
    <3>2. Len(worker.job) = IF worker.at = "wait" THEN 0 ELSE 1
      BY WorkerFacts DEF WorkerType
    <3>3. worker.job = << >> <=> worker.at = "wait"
      <4>1. CASE worker.at = "wait"
        BY <3>1, <3>2, <4>1
      <4>2. CASE worker.at # "wait"
        <5>1. Len(worker.job) = 1 /\ Len(<< >>) = 0
          BY <3>2, <4>2
        <5> QED
          BY <4>2, <5>1
      <4> QED
        BY <4>1, <4>2
    <3> QED
      BY <3>1, <3>3
  <2>3. \A s \in Slot : Len(slots[s]) <= 1
    BY DEF LinkInv, LinkTypes
  <2>4. cursor \in Slot
    BY DEF LinkInv, LinkTypes
  <2>5. answers \in 0..MODBUS_QUEUE_DEPTH + 1
    BY LengthsOfLink, SlaveAssumption DEF AnswersBounded
  <2> QED
    BY <2>1, <2>2, <2>3, <2>4, <2>5 DEF TypeOK, WorkerBounded, DaemonTyped
<1> QED
  BY <1>1, <1>2, <1>3, PTL DEF Spec

-----------------------------------------------------------------------------
(* The panel behind its registers (LedPanel): its types, its registers     *)
(* under frames in order, and its picture.                                 *)

Reading == [n : Nat, c : {{"none"}, {"point"}}]
Readings == [ZoneSlot -> Reading \X Reading]
Picture == [zone : Readings, track : Reading]
Signature == [screen : 0..2, fire : BOOLEAN, zone : Bits]
UiRead == [select : 0..3, fire : SUBSET Bits, zone : Readings, track : Reading]

ScreenTypes ==
  /\ select \in 0..3 /\ due \in BOOLEAN /\ revised \in BOOLEAN
  /\ ui \in [at : {"sleep", "sensors", "screen", "revision", "fire"}, read : UiRead,
             auto : 0..1, previous : {0, 1, 2, 255}]
  /\ g \in Signature /\ shown \in Picture
  /\ drawn \in [sig : Signature, data : Picture]

\* What arrived last of a block is the newest of it.
LineTypes ==
  /\ Len(rxQueue) <= MODBUS_QUEUE_DEPTH
  /\ DOMAIN sent = Slot
  /\ \A s \in Slot : sent[s] \in Word(s) /\ Behind(reg, rxQueue, s, sent[s].n)

PanelInv == SlaveInv /\ LineTypes /\ ScreenTypes

LEMMA ReadingFacts ==
  /\ \A s \in ZoneSlot : s \in Slot /\ Word(s) = Reading /\ Blank(s) \in Reading
  /\ Word(SLOT_TRACK) = Reading /\ Blank(SLOT_TRACK) \in Reading
  /\ Word(SLOT_FIRE) = [n : Nat, c : SUBSET Bits]
<1>1. \A s \in Slot : s # SLOT_FIRE => Word(s) = Reading
  BY DEF Word, Reading
<1>2. Word(SLOT_FIRE) = [n : Nat, c : SUBSET Bits]
  BY DEF Word
<1> QED
  BY <1>1, <1>2, SlotFacts, BlankFacts

LEMMA NothingReadTypes ==
  NothingRead \in UiRead /\ NewShown \in Picture
<1>1. [s \in ZoneSlot |-> Both(Blank(s))] \in Readings
  BY ReadingFacts DEF Readings, Both
<1>2. {} \in SUBSET Bits /\ 0 \in 0..3
  OBVIOUS
<1> QED
  BY <1>1, <1>2, ReadingFacts DEF NothingRead, NewShown, UiRead, Picture

LEMMA InitPanelInv ==
  ASSUME InitPanel
  PROVE  PanelInv
<1>1. /\ rxQueue = << >> /\ handling = << >> /\ reg = NewReg /\ aged = FALSE
      /\ sent = [s \in Slot |-> Blank(s)]
  BY DEF InitPanel, SlaveInit
<1>2. SlaveTypes /\ OneTrack
  <2>1. << >> \in Seq(Frame) /\ Len(<< >>) <= 1
    BY EmptySeq
  <2>2. FALSE \in BOOLEAN
    OBVIOUS
  <2> QED
    BY <1>1, <2>1, <2>2, NewRegFacts DEF SlaveTypes, OneTrack
<1>3. Len(rxQueue) = 0 /\ Len(handling) = 0
  BY <1>1
<1>4. QueueInOrder /\ RegistersAhead /\ HalfWritten
  BY <1>3 DEF QueueInOrder, RegistersAhead, HalfWritten
<1>5. LineTypes
  <2>1. \A s \in Slot : sent[s] \in Word(s) /\ sent[s].n = 0
    BY <1>1, BlankFacts
  <2>2. \A s \in Slot : Behind(reg, rxQueue, s, sent[s].n)
    BY <1>1, <1>3, <2>1, NewRegFacts DEF Behind
  <2> QED
    BY <1>1, <1>3, <2>1, <2>2, SlaveAssumption DEF LineTypes
<1>6. ScreenTypes
  <2>1. NewG \in Signature
    BY DEF NewG, Signature, Bits
  <2>2. NewUi \in [at : {"sleep", "sensors", "screen", "revision", "fire"}, read : UiRead,
                   auto : 0..1, previous : {0, 1, 2, 255}]
    BY NothingReadTypes DEF NewUi
  <2>3. NewDrawn \in [sig : Signature, data : Picture]
    BY <2>1, NothingReadTypes DEF NewDrawn
  <2>4. due \in BOOLEAN /\ revised \in BOOLEAN
    BY DEF InitPanel
  <2>5. /\ select \in 0..3 /\ g \in Signature /\ shown \in Picture
        /\ ui = NewUi /\ drawn = NewDrawn
    BY <2>1, NothingReadTypes DEF InitPanel
  <2> QED
    BY <2>2, <2>3, <2>4, <2>5 DEF ScreenTypes
<1> QED
  BY <1>2, <1>4, <1>5, <1>6 DEF PanelInv, SlaveInv

\* The Modbus task and the clock keep the line's types.
LEMMA ModbusLine ==
  ASSUME PanelInv, Modbus \/ TrackAges
  PROVE  PanelInv' /\ Forward
<1>1. (Answering \/ Silent \/ TenSecondsPass) /\ UNCHANGED <<panelVars, lineVars>>
  BY DEF Modbus, TrackAges
<1>2. /\ SlaveInv' /\ Forward
      /\ \A s \in Slot, n \in Nat : Behind(reg, rxQueue, s, n) => Behind(reg', rxQueue', s, n)
  BY <1>1, PanelStep DEF PanelInv
<1>3. Len(rxQueue') <= Len(rxQueue) /\ Len(rxQueue) \in Nat /\ Len(rxQueue') \in Nat
  <2>1. rxQueue \in Seq(Frame) /\ rxQueue' \in Seq(Frame)
    BY <1>2 DEF PanelInv, SlaveInv, SlaveTypes
  <2>2. rxQueue' = rxQueue \/ (rxQueue # << >> /\ rxQueue' = Tail(rxQueue))
    BY <1>1 DEF Answering, Silent, HandleFrame, HandleHumidity, HandleTemp, Poll, TenSecondsPass
  <2> QED
    BY <2>1, <2>2
<1>4. LineTypes'
  BY <1>1, <1>2, <1>3, SlaveAssumption, WordFacts DEF PanelInv, LineTypes, lineVars
<1>5. ScreenTypes'
  BY <1>1 DEF PanelInv, ScreenTypes, panelVars
<1> QED
  BY <1>2, <1>4, <1>5 DEF PanelInv

\* A frame arrives: new, or the last one of its block once more.
LEMMA ArrivesLine ==
  ASSUME PanelInv, NEW s \in Slot, Arrives(s)
  PROVE  PanelInv' /\ Forward
<1>1. /\ DOMAIN sent = Slot /\ sent[s] \in Word(s) /\ sent[s].n \in Nat
      /\ \A t \in Slot : sent[t] \in Word(t) /\ sent[t].n \in Nat /\ Behind(reg, rxQueue, t, sent[t].n)
  BY WordFacts DEF PanelInv, LineTypes
<1>2. /\ DOMAIN sent' = Slot /\ sent'[s] \in Word(s) /\ sent[s].n <= sent'[s].n
      /\ \A t \in Slot : t # s => sent'[t] = sent[t]
  <2>1. CASE UNCHANGED sent
    BY <1>1, <2>1
  <2>2. CASE \E c \in Contents(s) : sent' = [sent EXCEPT ![s] = [n |-> @.n + 1, c |-> c]]
    <3>1. PICK c \in Contents(s) : sent' = [sent EXCEPT ![s] = [n |-> sent[s].n + 1, c |-> c]]
      BY <2>2
    <3>2. [n |-> sent[s].n + 1, c |-> c] \in Word(s)
      <4>1. CASE s = SLOT_FIRE
        BY <1>1, <3>1, <4>1, FiresAssumption, SlotFacts DEF Contents, Word
      <4>2. CASE s # SLOT_FIRE
        BY <1>1, <3>1, <4>2 DEF Contents, Word
      <4> QED
        BY <4>1, <4>2
    <3> QED
      BY <1>1, <3>1, <3>2
  <2> QED
    BY <2>1, <2>2 DEF Arrives
<1>3. sent'[s].n \in Nat
  BY <1>2, WordFacts
<1> DEFINE f == [slot |-> s, value |-> sent'[s]]
<1>4. f \in Frame /\ f.slot = s /\ f.value = sent'[s]
  BY <1>2, MakeFrame
<1>5. QueueFrame(f) /\ UNCHANGED <<handling, reg, aged>> /\ UNCHANGED panelVars
  BY DEF Arrives
<1> HIDE DEF f
<1>6. Behind(reg, rxQueue, s, sent'[s].n)
  <2>1. \A w \in 1..2 : reg[s][w].n \in Nat
    BY BankFacts DEF PanelInv, SlaveInv, SlaveTypes, Bank
  <2>2. \A i \in 1..Len(rxQueue) : rxQueue[i].value.n \in Nat
    <3>1. rxQueue \in Seq(Frame)
      BY DEF PanelInv, SlaveInv, SlaveTypes
    <3>2. \A i \in 1..Len(rxQueue) : rxQueue[i] \in Frame
      BY <3>1
    <3> QED
      BY <3>2, FrameFacts
  <2> QED
    BY <1>1, <1>2, <1>3, <2>1, <2>2 DEF Behind
<1>7. /\ SlaveInv' /\ Forward
      /\ \A t \in Slot, n \in Nat :
           Behind(reg, rxQueue, t, n) /\ (s = t => sent'[s].n <= n) => Behind(reg', rxQueue', t, n)
  BY <1>4, <1>5, <1>6, QueueFrameStep DEF PanelInv
<1>8. \A t \in Slot : sent'[t] \in Word(t) /\ Behind(reg', rxQueue', t, sent'[t].n)
  BY <1>1, <1>2, <1>3, <1>6, <1>7
<1>9. Len(rxQueue') <= MODBUS_QUEUE_DEPTH
  <2>1. rxQueue \in Seq(Frame) /\ Len(rxQueue) <= MODBUS_QUEUE_DEPTH
    BY DEF PanelInv, LineTypes, SlaveInv, SlaveTypes
  <2> QED
    BY <1>4, <1>5, <2>1, SlaveAssumption DEF QueueFrame
<1>10. ScreenTypes'
  BY <1>5 DEF PanelInv, ScreenTypes, panelVars
<1> QED
  BY <1>2, <1>7, <1>8, <1>9, <1>10 DEF PanelInv, LineTypes

\* What leaves registers and line alone.
LEMMA LineRests ==
  ASSUME PanelInv, UNCHANGED <<slaveVars, sent>>, ScreenTypes'
  PROVE  PanelInv' /\ Forward
<1>1. UNCHANGED <<rxQueue, handling, reg, aged, sent>>
  BY DEF slaveVars
<1>2. SlaveInv' /\ LineTypes'
  BY <1>1 DEF PanelInv, SlaveInv, LineTypes, SlaveTypes, QueueInOrder, RegistersAhead, HalfWritten, OneTrack
<1>3. Forward
  BY <1>1, BankFacts DEF Forward, PanelInv, SlaveInv, SlaveTypes, Bank
<1> QED
  BY <1>2, <1>3 DEF PanelInv

LEMMA LowestBit ==
  ASSUME NEW B \in SUBSET Bits, B # {}
  PROVE  Min(B) \in Bits
<1>1. \E x \in B : \A y \in B : x <= y
  <2>1. CASE 0 \in B
    BY <2>1 DEF Bits
  <2>2. CASE 0 \notin B /\ 1 \in B
    BY <2>2 DEF Bits
  <2>3. CASE 0 \notin B /\ 1 \notin B /\ 2 \in B
    BY <2>3 DEF Bits
  <2>4. CASE 0 \notin B /\ 1 \notin B /\ 2 \notin B
    <3>1. \A x \in B : x = 3
      BY <2>4 DEF Bits
    <3> QED
      BY <3>1
  <2> QED
    BY <2>1, <2>2, <2>3, <2>4
<1> QED
  BY <1>1 DEF Min

\* A pass of the UI task reads typed words, whatever the Modbus task writes
\* between two of them.
LEMMA UiTypes ==
  ASSUME PanelInv, UiPass
  PROVE  ScreenTypes'
<1>1. /\ select \in 0..3 /\ due \in BOOLEAN /\ revised \in BOOLEAN
      /\ ui \in [at : {"sleep", "sensors", "screen", "revision", "fire"}, read : UiRead,
                 auto : 0..1, previous : {0, 1, 2, 255}]
      /\ ui.read \in UiRead /\ ui.auto \in 0..1 /\ ui.previous \in {0, 1, 2, 255}
      /\ g \in Signature /\ shown \in Picture /\ drawn \in [sig : Signature, data : Picture]
  BY DEF PanelInv, ScreenTypes
<1>2. Bank(reg)
  BY DEF PanelInv, SlaveInv, SlaveTypes, Bank
<1>3. \A s \in ZoneSlot : reg[s][1] \in Reading /\ reg[s][2] \in Reading
  BY <1>2, ReadingFacts, BankFacts
<1>4. reg[SLOT_TRACK][1] \in Reading /\ reg[SLOT_FIRE][1].c \in SUBSET Bits
  <2>1. reg[SLOT_TRACK][1] \in Word(SLOT_TRACK) /\ reg[SLOT_FIRE][1] \in Word(SLOT_FIRE)
    BY <1>2, SlotFacts, BankFacts
  <2> QED
    BY <2>1, ReadingFacts
<1>5. CASE UiReads
  <2>1. [s \in ZoneSlot |-> <<reg[s][1], Blank(s)>>] \in Readings
    BY <1>3, ReadingFacts DEF Readings
  <2>2. ui'.read \in UiRead
    BY <1>1, <1>4, <1>5, <2>1 DEF UiReads, UiRead
  <2>3. ui' \in [at : {"sleep", "sensors", "screen", "revision", "fire"}, read : UiRead,
                 auto : 0..1, previous : {0, 1, 2, 255}]
    BY <1>1, <1>5, <2>2 DEF UiReads
  <2> QED
    BY <1>1, <1>5, <2>3 DEF UiReads, ScreenTypes
<1>6. CASE UiChoosesScreen
  <2> DEFINE auto == IF ui.read.select = 0 /\ due THEN 1 - ui.auto ELSE ui.auto
             zone == [s \in ZoneSlot |-> <<ui.read.zone[s][1], reg[s][2]>>]
  <2>1. auto \in 0..1
    BY <1>1
  <2>2. zone \in Readings
    <3>1. \A s \in ZoneSlot : ui.read.zone[s] \in Reading \X Reading
      BY <1>1 DEF UiRead, Readings
    <3> QED
      BY <1>3, <3>1 DEF Readings
  <2>3. /\ ui' = [ui EXCEPT !.at = "screen", !.auto = auto, !.read.zone = zone,
                            !.read.track = reg[SLOT_TRACK][1]]
        /\ g' = [g EXCEPT !.screen = IF ui.read.select = 0 THEN auto ELSE ui.read.select - 1]
        /\ due' = FALSE /\ UNCHANGED <<select, revised, shown, drawn>>
    BY <1>6 DEF UiChoosesScreen
  <2> HIDE DEF auto, zone
  <2>4. ui'.read \in UiRead
    BY <1>1, <1>4, <2>2, <2>3 DEF UiRead
  <2>5. ui' \in [at : {"sleep", "sensors", "screen", "revision", "fire"}, read : UiRead,
                 auto : 0..1, previous : {0, 1, 2, 255}]
    BY <1>1, <2>1, <2>3, <2>4
  <2>6. g' \in Signature
    <3>1. (IF ui.read.select = 0 THEN auto ELSE ui.read.select - 1) \in 0..2
      BY <1>1, <2>1 DEF UiRead
    <3> QED
      BY <1>1, <2>3, <3>1 DEF Signature
  <2>7. due' \in BOOLEAN
    BY <2>3
  <2> QED
    BY <1>1, <2>3, <2>5, <2>6, <2>7 DEF ScreenTypes
<1>7. CASE UiCaptures
  <2>2. ui' \in [at : {"sleep", "sensors", "screen", "revision", "fire"}, read : UiRead,
                 auto : 0..1, previous : {0, 1, 2, 255}]
    BY <1>1, <1>7 DEF UiCaptures
  <2>3. Snapshot \in Picture
    BY <1>1 DEF Snapshot, Picture, UiRead
  <2>5. shown' \in Picture /\ UNCHANGED <<select, due, g, revised, drawn>>
    BY <1>1, <1>7, <2>3 DEF UiCaptures
  <2> QED
    BY <1>1, <2>2, <2>5 DEF ScreenTypes
<1>9. CASE UiCounts
  <2>1. g.screen \in {0, 1, 2, 255}
    BY <1>1 DEF Signature
  <2>2. ui' \in [at : {"sleep", "sensors", "screen", "revision", "fire"}, read : UiRead,
                 auto : 0..1, previous : {0, 1, 2, 255}]
    BY <1>1, <1>9, <2>1 DEF UiCounts
  <2>3. revised' \in BOOLEAN /\ UNCHANGED <<select, due, g, shown, drawn>>
    BY <1>9 DEF UiCounts
  <2> QED
    BY <1>1, <2>2, <2>3 DEF ScreenTypes
<1>8. CASE UiShowsFire
  <2>1. ui' \in [at : {"sleep", "sensors", "screen", "revision", "fire"}, read : UiRead,
                 auto : 0..1, previous : {0, 1, 2, 255}]
    BY <1>1, <1>8, NothingReadTypes DEF UiShowsFire
  <2>2. (IF ui.read.fire = {} THEN g.zone ELSE Min(ui.read.fire)) \in Bits
    BY <1>1, LowestBit DEF UiRead, Signature
  <2>3. (ui.read.fire # {}) \in BOOLEAN
    OBVIOUS
  <2>4. g' \in Signature
    BY <1>1, <1>8, <2>2, <2>3 DEF UiShowsFire, Signature
  <2> QED
    BY <1>1, <1>8, <2>1, <2>4 DEF UiShowsFire, ScreenTypes
<1> QED
  BY <1>5, <1>6, <1>7, <1>8, <1>9 DEF UiPass

LEMMA NextPanelInv ==
  ASSUME PanelInv, [NextPanel]_allVars
  PROVE  PanelInv' /\ Forward
<1>1. CASE Modbus \/ TrackAges
  BY <1>1, ModbusLine
<1>2. ASSUME NEW s \in Slot, Arrives(s)
      PROVE  PanelInv' /\ Forward
  BY <1>2, ArrivesLine
<1>3. CASE Ui
  BY <1>3, UiTypes, LineRests DEF Ui, lineVars
<1>4. CASE Draw \/ Rotate
  <2>1. ScreenTypes'
    <3>1. CASE Draw
      BY <3>1 DEF Draw, Render, PanelInv, ScreenTypes
    <3>2. CASE Rotate
      BY <3>2 DEF Rotate, PeriodElapses, PanelInv, ScreenTypes
    <3> QED
      BY <1>4, <3>1, <3>2
  <2> QED
    BY <1>4, <2>1, LineRests DEF Draw, Rotate, lineVars
<1>5. CASE Selects
  <2>1. ScreenTypes'
    BY <1>5, PanelAssumption DEF Selects, PanelInv, ScreenTypes
  <2> QED
    BY <1>5, <2>1, LineRests DEF Selects
<1>6. CASE UNCHANGED allVars
  <2>1. ScreenTypes'
    BY <1>6 DEF allVars, panelVars, PanelInv, ScreenTypes
  <2> QED
    BY <1>6, <2>1, LineRests DEF allVars, lineVars
<1> QED
  BY <1>1, <1>2, <1>3, <1>4, <1>5, <1>6 DEF NextPanel

\* Whatever a pass of the UI task reads while the Modbus task writes, in the
\* order in which the frames come, every variable of the panel keeps its type;
\* no queue outgrows its depth.
THEOREM PanelTyped == SpecPanel => []TypeOKPanel
<1>1. InitPanel => PanelInv
  BY InitPanelInv
<1>2. PanelInv /\ [NextPanel]_allVars => PanelInv'
  BY NextPanelInv
<1>3. PanelInv => TypeOKPanel
  <2> SUFFICES ASSUME PanelInv
               PROVE  TypeOKPanel
    OBVIOUS
  <2>1. SlaveTypeOK
    <3>1. \A i \in 1..Len(rxQueue) : IsFrame(rxQueue[i])
      <4>1. \A i \in 1..Len(rxQueue) : rxQueue[i] \in Frame
        BY DEF PanelInv, SlaveInv, SlaveTypes
      <4> QED
        BY <4>1, FrameFacts DEF IsFrame
    <3> QED
      BY <3>1 DEF SlaveTypeOK, PanelInv, SlaveInv, SlaveTypes, LineTypes, OneTrack
  <2>2. \A d : d.zone \in Readings /\ d.track \in Reading =>
               /\ \A s \in ZoneSlot : d.zone[s] \in Word(s) \X Word(s)
               /\ d.track \in Word(SLOT_TRACK)
    BY ReadingFacts DEF Readings
  <2>3. /\ shown.zone \in Readings /\ shown.track \in Reading
        /\ drawn.data.zone \in Readings /\ drawn.data.track \in Reading
        /\ ui.read.zone \in Readings /\ ui.read.track \in Reading
    BY DEF PanelInv, ScreenTypes, Picture, UiRead
  <2>4. /\ due \in BOOLEAN /\ revised \in BOOLEAN /\ select \in 0..3
        /\ ui.at \in {"sleep", "sensors", "screen", "revision", "fire"}
        /\ ui.read.fire \in SUBSET Bits /\ ui.read.select \in 0..3
        /\ g \in Signature /\ drawn.sig \in Signature
    BY DEF PanelInv, ScreenTypes, UiRead
  <2> QED
    BY <2>1, <2>2, <2>3, <2>4 DEF TypeOKPanel, Signature
<1> QED
  BY <1>1, <1>2, <1>3, PTL DEF SpecPanel

\* Fed by such a line the registers go forward here as they do behind
\* MatrixLink.
THEOREM PanelGoesForward == SpecPanel => NeverBackwards
<1>1. InitPanel => PanelInv
  BY InitPanelInv
<1>2. PanelInv /\ [NextPanel]_allVars => PanelInv'
  BY NextPanelInv
<1>3. PanelInv /\ [NextPanel]_allVars =>
        [\/ reg' = NewReg
         \/ \A s \in Slot, w \in 1..2 : reg'[s][w].n >= reg[s][w].n]_reg
  BY NextPanelInv DEF Forward
<1> QED
  BY <1>1, <1>2, <1>3, PTL DEF SpecPanel, NeverBackwards

\* With nothing counted as revised, the picture is made from the snapshot, or
\* the UI task has changed the snapshot and is about to count the revision.
Pictured == revised \/ ui.at = "revision" \/ drawn.data = shown

\* A snapshot never stays undrawn because the signature of the screen did not
\* change (StartUiTask and StartRenderTask of freertos.c).
THEOREM SnapshotIsDrawn == SpecPanel => []NoStalePicture
<1>1. InitPanel => Pictured
  BY DEF InitPanel, Pictured
<1>2. PanelInv /\ Pictured /\ [NextPanel]_allVars => Pictured'
  <2> SUFFICES ASSUME PanelInv, Pictured, [NextPanel]_allVars
               PROVE  Pictured'
    OBVIOUS
  <2>1. CASE Ui
    <3>1. CASE UiCaptures
      <4>1. DOMAIN ui = {"at", "read", "auto", "previous"}
        BY DEF PanelInv, ScreenTypes
      <4>2. ui'.at = IF g.screen # ui.previous THEN "revision" ELSE "fire"
        BY <3>1, <4>1 DEF UiCaptures
      <4> QED
        BY <3>1, <4>2 DEF UiCaptures, Pictured
    <3>2. CASE UiCounts
      BY <3>2 DEF UiCounts, Pictured
    <3>3. CASE UiReads \/ UiChoosesScreen \/ UiShowsFire
      BY <3>3 DEF UiReads, UiChoosesScreen, UiShowsFire, Pictured
    <3> QED
      BY <2>1, <3>1, <3>2, <3>3 DEF Ui, UiPass
  <2>2. CASE Draw
    BY <2>2 DEF Draw, Render, Pictured
  <2>3. CASE Modbus \/ TrackAges \/ UNCHANGED allVars
    BY <2>3 DEF Modbus, TrackAges, allVars, panelVars, Pictured
  <2>4. CASE Rotate
    BY <2>4 DEF Rotate, PeriodElapses, Pictured
  <2>5. CASE Selects
    BY <2>5 DEF Selects, Pictured
  <2>6. ASSUME NEW s \in Slot, Arrives(s)
        PROVE  Pictured'
    BY <2>6 DEF Arrives, panelVars, Pictured
  <2> QED
    BY <2>1, <2>2, <2>3, <2>4, <2>5, <2>6 DEF NextPanel
<1>3. Pictured => NoStalePicture
  BY DEF Pictured, NoStalePicture, UpToDate
<1>4. InitPanel => PanelInv
  BY InitPanelInv
<1>5. PanelInv /\ [NextPanel]_allVars => PanelInv'
  BY NextPanelInv
<1> QED
  BY <1>1, <1>2, <1>3, <1>4, <1>5, PTL DEF SpecPanel

=============================================================================
