---------------------------- MODULE DbWriterProofs ----------------------------
(***************************************************************************)
(* The recording half, for every pair of ring capacities, every scenario   *)
(* of distinct commands and every number of records: the rings are lossy   *)
(* queues, the worker never sleeps on work, no record vanishes uncounted   *)
(* and a command keeps the event of its scenario while no event is lost.   *)
(***************************************************************************)
EXTENDS DbWriter, FiniteSetTheorems, TLAPS

-----------------------------------------------------------------------------
(* What the ring operators compute, for every capacity: pushing and        *)
(* popping a typed ring is pushing to and popping from its contents.       *)

(* The index arithmetic: the slot after the last one is slot 0.            *)
LEMMA StepValue ==
  ASSUME NEW cap \in Nat \ {0, 1}, NEW i \in 0 .. cap - 1
  PROVE  Step(i, cap) = IF i = cap - 1 THEN 0 ELSE i + 1
<1>1. CASE i = cap - 1
  <2>1. i + 1 = cap
    BY <1>1
  <2>2. cap % cap = 0
    BY SMT
  <2> QED BY <1>1, <2>1, <2>2 DEF Step
<1>2. CASE i # cap - 1
  <2>1. i + 1 \in 0 .. cap - 1
    BY <1>2
  <2>2. \A x \in 0 .. cap - 1 : x % cap = x
    BY SMT
  <2> QED BY <1>2, <2>1, <2>2 DEF Step
<1> QED BY <1>1, <1>2

(* A new ring is typed, empty, and has lost nothing.                       *)
LEMMA NewRingTyped ==
  ASSUME NEW cap \in Nat \ {0, 1}, NEW Item, NEW blank \in Item
  PROVE  /\ NewRing(cap, blank) \in RingType(cap, Item)
         /\ Contents(NewRing(cap, blank)) = <<>>
         /\ NewRing(cap, blank).dropped = 0
BY DEF NewRing, RingType, Contents, Count

(* The fields of a typed ring, for the provers.                            *)
LEMMA FieldsTyped ==
  ASSUME NEW cap \in Nat \ {0, 1}, NEW Item, NEW r \in RingType(cap, Item)
  PROVE  /\ r.buf \in [0 .. cap - 1 -> Item] /\ r.cap = cap
         /\ r.head \in 0 .. cap - 1 /\ r.tail \in 0 .. cap - 1 /\ r.dropped \in Nat
         /\ Step(r.head, r.cap) = IF r.head = cap - 1 THEN 0 ELSE r.head + 1
         /\ Step(r.tail, r.cap) = IF r.tail = cap - 1 THEN 0 ELSE r.tail + 1
<1>1. /\ r.buf \in [0 .. cap - 1 -> Item] /\ r.cap = cap
      /\ r.head \in 0 .. cap - 1 /\ r.tail \in 0 .. cap - 1 /\ r.dropped \in Nat
  BY DEF RingType
<1> QED BY <1>1, StepValue

(* The operations change the fields they name and no other.                *)
LEMMA Fields ==
  ASSUME NEW cap \in Nat \ {0, 1}, NEW Item, NEW x \in Item, NEW r \in RingType(cap, Item)
  PROVE  /\ Evict(r) = [buf |-> r.buf, cap |-> cap, head |-> Step(r.head, cap),
                        tail |-> r.tail, dropped |-> r.dropped + 1]
         /\ Put(r, x) = [buf |-> [r.buf EXCEPT ![r.tail] = x], cap |-> cap, head |-> r.head,
                           tail |-> Step(r.tail, cap), dropped |-> r.dropped]
         /\ ring_pop(r) = [buf |-> r.buf, cap |-> cap, head |-> Step(r.head, cap),
                           tail |-> r.tail, dropped |-> r.dropped]
<1>1. r = [buf |-> r.buf, cap |-> cap, head |-> r.head, tail |-> r.tail, dropped |-> r.dropped]
  BY DEF RingType
<1>2. ring_pop(r) = [buf |-> r.buf, cap |-> cap, head |-> Step(r.head, cap),
                     tail |-> r.tail, dropped |-> r.dropped]
  BY <1>1 DEF ring_pop
<1>3. Evict(r) = [buf |-> r.buf, cap |-> cap, head |-> Step(r.head, cap),
                  tail |-> r.tail, dropped |-> r.dropped + 1]
  BY <1>2 DEF Evict
<1>4. Fill(r, x) = [buf |-> [r.buf EXCEPT ![r.tail] = x], cap |-> cap, head |-> r.head,
                      tail |-> r.tail, dropped |-> r.dropped]
  BY <1>1 DEF Fill
<1>5. Put(r, x) = [buf |-> [r.buf EXCEPT ![r.tail] = x], cap |-> cap, head |-> r.head,
                     tail |-> Step(r.tail, cap), dropped |-> r.dropped]
  <2>1. r.cap = cap
    BY DEF RingType
  <2> QED BY <1>4, <2>1 DEF Put
<1> QED BY <1>2, <1>3, <1>5

(* A push gives a typed ring.                                              *)
LEMMA PushTyped ==
  ASSUME NEW cap \in Nat \ {0, 1}, NEW Item, NEW x \in Item, NEW r \in RingType(cap, Item)
  PROVE  ring_push(r, x) \in RingType(cap, Item)
<1>1. ASSUME NEW q \in RingType(cap, Item)
      PROVE  Evict(q) \in RingType(cap, Item) /\ Put(q, x) \in RingType(cap, Item)
  <2>1. Step(q.head, cap) \in 0 .. cap - 1 /\ Step(q.tail, cap) \in 0 .. cap - 1
    BY FieldsTyped
  <2>2. /\ q.buf \in [0 .. cap - 1 -> Item] /\ q.head \in 0 .. cap - 1
        /\ q.tail \in 0 .. cap - 1 /\ q.dropped \in Nat
    BY FieldsTyped
  <2>3. [q.buf EXCEPT ![q.tail] = x] \in [0 .. cap - 1 -> Item]
    BY <2>2
  <2>4. Evict(q) = [buf |-> q.buf, cap |-> cap, head |-> Step(q.head, cap),
                    tail |-> q.tail, dropped |-> q.dropped + 1]
    BY Fields
  <2>5. Put(q, x) = [buf |-> [q.buf EXCEPT ![q.tail] = x], cap |-> cap, head |-> q.head,
                       tail |-> Step(q.tail, cap), dropped |-> q.dropped]
    BY Fields
  <2>6. Evict(q) \in RingType(cap, Item)
    BY <2>1, <2>2, <2>4 DEF RingType
  <2>7. Put(q, x) \in RingType(cap, Item)
    BY <2>1, <2>2, <2>3, <2>5 DEF RingType
  <2> QED BY <2>6, <2>7
<1> QED BY <1>1 DEF ring_push

(* A pop gives a typed ring and a record.                                  *)
LEMMA PopTyped ==
  ASSUME NEW cap \in Nat \ {0, 1}, NEW Item, NEW r \in RingType(cap, Item)
  PROVE  ring_pop(r) \in RingType(cap, Item) /\ Oldest(r) \in Item
<1>1. Step(r.head, cap) \in 0 .. cap - 1
  BY FieldsTyped
<1> QED BY <1>1, Fields, FieldsTyped DEF Oldest, RingType

(* Full and empty are told by the count.                                   *)
LEMMA CountBounds ==
  ASSUME NEW cap \in Nat \ {0, 1}, NEW Item, NEW r \in RingType(cap, Item)
  PROVE  /\ Count(r) \in 0 .. cap - 1
         /\ ring_empty(r) <=> Count(r) = 0
         /\ ring_full(r) <=> Count(r) = cap - 1
<1>1. /\ r.cap = cap /\ r.head \in 0 .. cap - 1 /\ r.tail \in 0 .. cap - 1
      /\ Step(r.tail, cap) = IF r.tail = cap - 1 THEN 0 ELSE r.tail + 1
  BY FieldsTyped
<1>2. Count(r) \in 0 .. cap - 1 /\ (ring_empty(r) <=> Count(r) = 0)
  BY <1>1 DEF Count, ring_empty
<1>3. ring_full(r) <=> Count(r) = cap - 1
  <2>1. CASE r.tail = cap - 1
    BY <1>1, <2>1 DEF Count, ring_full
  <2>2. CASE r.tail # cap - 1
    BY <1>1, <2>2 DEF Count, ring_full
  <2> QED BY <2>1, <2>2
<1> QED BY <1>2, <1>3

(* A ring's contents are a sequence of records.                            *)
LEMMA ContentsTyped ==
  ASSUME NEW cap \in Nat \ {0, 1}, NEW Item, NEW r \in RingType(cap, Item)
  PROVE  /\ Contents(r) \in Seq(Item)
         /\ Len(Contents(r)) = Count(r)
         /\ \A k \in 1 .. Count(r) : Contents(r)[k] = r.buf[Slot(r, k)]
<1>1. Count(r) \in Nat
  BY CountBounds
<1>2. \A k \in 1 .. Count(r) : Slot(r, k) \in 0 .. cap - 1
  BY FieldsTyped DEF Slot, Count
<1>3. \A k \in 1 .. Count(r) : r.buf[Slot(r, k)] \in Item
  BY <1>2, FieldsTyped
<1> QED BY <1>1, <1>3 DEF Contents

(* Putting a record into a ring that is not full appends it.               *)
LEMMA PutContents ==
  ASSUME NEW cap \in Nat \ {0, 1}, NEW Item, NEW x \in Item, NEW r \in RingType(cap, Item),
         ~ring_full(r)
  PROVE  Contents(Put(r, x)) = Append(Contents(r), x)
<1> DEFINE p == Put(r, x)
<1>1. /\ r.buf \in [0 .. cap - 1 -> Item] /\ r.cap = cap
      /\ r.head \in 0 .. cap - 1 /\ r.tail \in 0 .. cap - 1
      /\ Step(r.tail, cap) = IF r.tail = cap - 1 THEN 0 ELSE r.tail + 1
  BY FieldsTyped
<1>2. p \in RingType(cap, Item)
  <2>1. ring_push(r, x) = p
    BY DEF ring_push
  <2> QED BY <2>1, PushTyped
<1>3. /\ p.head = r.head /\ p.cap = cap /\ p.tail = Step(r.tail, cap)
      /\ p.buf = [r.buf EXCEPT ![r.tail] = x]
  BY Fields
<1> HIDE DEF p
<1>4. Count(p) = Count(r) + 1 /\ Slot(p, Count(p)) = r.tail
  <2>1. Step(r.tail, cap) # r.head
    BY <1>1 DEF ring_full
  <2>2. CASE r.tail = cap - 1
    BY <1>1, <1>3, <2>1, <2>2 DEF Count, Slot
  <2>3. CASE r.tail # cap - 1
    <3>1. p.tail = r.tail + 1 /\ p.head = r.head /\ p.cap = cap /\ p.tail # p.head
      BY <1>1, <1>3, <2>1, <2>3
    <3>2. CASE r.head <= r.tail
      <4>1. Count(r) = r.tail - r.head /\ Count(p) = r.tail + 1 - r.head
        BY <1>1, <3>1, <3>2 DEF Count
      <4> QED BY <1>1, <3>1, <4>1 DEF Slot
    <3>3. CASE ~(r.head <= r.tail)
      <4>1. Count(r) = r.tail + cap - r.head /\ Count(p) = r.tail + 1 + cap - r.head
        BY <1>1, <3>1, <3>3 DEF Count
      <4> QED BY <1>1, <3>1, <3>3, <4>1 DEF Slot
    <3> QED BY <3>2, <3>3
  <2> QED BY <2>2, <2>3
<1>5. \A k \in 1 .. Count(r) : Slot(p, k) = Slot(r, k) /\ Slot(r, k) # r.tail /\ Slot(r, k) \in 0 .. cap - 1
  BY <1>1, <1>3 DEF Slot, Count
<1>7. \A k \in 1 .. Count(r) : p.buf[Slot(p, k)] = r.buf[Slot(r, k)]
  BY <1>1, <1>3, <1>5
<1>8. p.buf[Slot(p, Count(p))] = x
  BY <1>1, <1>3, <1>4
<1>9. /\ Contents(p) \in Seq(Item) /\ Len(Contents(p)) = Count(p)
      /\ \A k \in 1 .. Count(p) : Contents(p)[k] = p.buf[Slot(p, k)]
  BY <1>2, ContentsTyped
<1>10. /\ Contents(r) \in Seq(Item) /\ Len(Contents(r)) = Count(r)
       /\ \A k \in 1 .. Count(r) : Contents(r)[k] = r.buf[Slot(r, k)]
  BY ContentsTyped
<1>11. Count(r) \in Nat
  BY CountBounds
<1>12. \A k \in 1 .. Count(p) : Contents(p)[k] = Append(Contents(r), x)[k]
  BY <1>4, <1>7, <1>8, <1>9, <1>10, <1>11
<1>13. Append(Contents(r), x) \in Seq(Item) /\ Len(Append(Contents(r), x)) = Count(p)
  BY <1>4, <1>10, <1>11
<1>14. Contents(p) = Append(Contents(r), x)
  BY <1>9, <1>12, <1>13
<1> QED BY <1>14 DEF p

(* Moving the head of a ring that is not empty takes its first record off. *)
LEMMA AdvanceContents ==
  ASSUME NEW cap \in Nat \ {0, 1}, NEW Item, NEW r \in RingType(cap, Item),
         NEW p \in RingType(cap, Item), ~ring_empty(r),
         p.buf = r.buf, p.tail = r.tail, p.head = Step(r.head, r.cap)
  PROVE  Contents(p) = Tail(Contents(r)) /\ Oldest(r) = Head(Contents(r))
<1>1. /\ r.cap = cap /\ p.cap = cap /\ r.head \in 0 .. cap - 1 /\ r.tail \in 0 .. cap - 1
      /\ p.head = IF r.head = cap - 1 THEN 0 ELSE r.head + 1
      /\ p.tail = r.tail /\ r.head # r.tail
  BY FieldsTyped DEF ring_empty
<1>2. Count(p) + 1 = Count(r) /\ Count(r) \in Nat \ {0} /\ Count(p) \in Nat /\ Count(r) < cap
  <2>1. CASE r.head = cap - 1
    BY <1>1, <2>1 DEF Count
  <2>2. CASE r.head # cap - 1
    BY <1>1, <2>2 DEF Count
  <2> QED BY <2>1, <2>2
<1>3. ASSUME NEW k \in 1 .. Count(p)
      PROVE  Slot(p, k) = Slot(r, k + 1)
  <2>1. CASE r.head = cap - 1
    BY <1>1, <1>2, <2>1 DEF Slot
  <2>2. CASE r.head # cap - 1
    BY <1>1, <1>2, <2>2 DEF Slot
  <2> QED BY <2>1, <2>2
<1>4. Slot(r, 1) = r.head
  BY <1>1 DEF Slot
<1>5. /\ Contents(p) \in Seq(Item) /\ Len(Contents(p)) = Count(p)
      /\ \A k \in 1 .. Count(p) : Contents(p)[k] = p.buf[Slot(p, k)]
  BY ContentsTyped
<1>6. /\ Contents(r) \in Seq(Item) /\ Len(Contents(r)) = Count(r)
      /\ \A k \in 1 .. Count(r) : Contents(r)[k] = r.buf[Slot(r, k)]
  BY ContentsTyped
<1>7. Head(Contents(r)) = r.buf[r.head]
  BY <1>2, <1>4, <1>6
<1>8. Tail(Contents(r)) \in Seq(Item) /\ Len(Tail(Contents(r))) = Count(p)
        /\ \A k \in 1 .. Count(p) : Tail(Contents(r))[k] = Contents(r)[k + 1]
  BY <1>2, <1>6
<1>9. \A k \in 1 .. Count(p) : Contents(p)[k] = Tail(Contents(r))[k]
  BY <1>2, <1>3, <1>5, <1>6, <1>8
<1>10. Contents(p) = Tail(Contents(r))
  BY <1>5, <1>8, <1>9
<1> QED BY <1>7, <1>10 DEF Oldest

(* A pop takes the oldest record.                                          *)
LEMMA PopContents ==
  ASSUME NEW cap \in Nat \ {0, 1}, NEW Item, NEW r \in RingType(cap, Item), ~ring_empty(r)
  PROVE  /\ Contents(ring_pop(r)) = Tail(Contents(r))
         /\ Oldest(r) = Head(Contents(r))
         /\ ring_pop(r).dropped = r.dropped
<1>1. ring_pop(r) \in RingType(cap, Item)
  BY PopTyped
<1>2. /\ ring_pop(r).buf = r.buf /\ ring_pop(r).tail = r.tail
      /\ ring_pop(r).head = Step(r.head, r.cap) /\ ring_pop(r).dropped = r.dropped
  BY PopTyped, Fields, FieldsTyped
<1> QED BY <1>1, <1>2, AdvanceContents

(* A push appends, and gives up the oldest record of a full ring only.     *)
LEMMA PushContents ==
  ASSUME NEW cap \in Nat \ {0, 1}, NEW Item, NEW x \in Item, NEW r \in RingType(cap, Item)
  PROVE  /\ Contents(ring_push(r, x)) =
               Append(IF Len(Contents(r)) < cap - 1 THEN Contents(r) ELSE Tail(Contents(r)), x)
         /\ ring_push(r, x).dropped =
               IF Len(Contents(r)) < cap - 1 THEN r.dropped ELSE r.dropped + 1
<1>1. Len(Contents(r)) = Count(r) /\ Count(r) \in 0 .. cap - 1 /\ (ring_full(r) <=> Count(r) = cap - 1)
  BY ContentsTyped, CountBounds
<1>2. CASE ~ring_full(r)
  <2>1. ring_push(r, x) = Put(r, x) /\ Put(r, x).dropped = r.dropped
    BY <1>2, Fields DEF ring_push
  <2>2. Len(Contents(r)) < cap - 1
    BY <1>1, <1>2
  <2>3. Contents(Put(r, x)) = Append(Contents(r), x)
    BY <1>2, PutContents
  <2> QED BY <2>1, <2>2, <2>3
<1>3. CASE ring_full(r)
  <2> DEFINE e == Evict(r)
  <2>1. /\ r.cap = cap /\ r.head \in 0 .. cap - 1
        /\ Step(r.head, cap) = IF r.head = cap - 1 THEN 0 ELSE r.head + 1
    BY FieldsTyped
  <2>2. /\ e.buf = r.buf /\ e.tail = r.tail /\ e.cap = cap
        /\ e.head = Step(r.head, cap) /\ e.dropped = r.dropped + 1
    BY Fields
  <2>3. e \in RingType(cap, Item)
    BY <2>1, Fields, FieldsTyped DEF RingType
  <2>4. ring_push(r, x) = Put(e, x)
    BY <1>3 DEF ring_push
  <2> HIDE DEF e
  <2>5. Put(e, x).dropped = r.dropped + 1
    BY <2>2, <2>3, Fields
  <2>6. ~ring_empty(r)
    BY <1>1, <1>3, CountBounds
  <2>7. Contents(e) = Tail(Contents(r))
    BY <2>1, <2>2, <2>3, <2>6, AdvanceContents
  <2>8. ~ring_full(e)
    <3>1. Step(r.tail, r.cap) = r.head /\ r.cap = cap
      BY <1>3, <2>1 DEF ring_full
    <3>2. Step(e.tail, e.cap) # e.head
      BY <2>1, <2>2, <3>1
    <3> QED BY <3>2 DEF ring_full
  <2>9. Contents(Put(e, x)) = Append(Contents(e), x)
    BY <2>3, <2>8, PutContents
  <2>10. ~(Len(Contents(r)) < cap - 1)
    BY <1>1, <1>3
  <2> QED BY <2>4, <2>5, <2>7, <2>9, <2>10
<1> QED BY <1>2, <1>3

-----------------------------------------------------------------------------
(* The queue, whoever pushes.                                              *)

(* A step of the queue: a push while the worker lives, or a step of its    *)
(* own.                                                                    *)
QueueStep ==
  \/ \E r \in Rec : workerAt # "exited" /\ db_queue_push(r)
  \/ SpuriousWakeup
  \/ db_queue_pop
  \/ db_queue_shutdown
  \/ WriteDone
  \/ UNCHANGED queueVars

LEMMA AloneSteps == [Next]_queueVars => QueueStep
  BY DEF Next, Produce, QueueStep

LEMMA InitTypes == Init => TypeOK
BY CapAssumption, RecAssumption, NewRingTyped DEF Init, TypeOK

LEMMA PushTypes ==
  ASSUME TypeOK, NEW r \in Rec, db_queue_push(r)
  PROVE  TypeOK'
<1>1. sensor_ring' \in RingType(SensorCap, Rec)
  <2>1. CASE sensor_ring' = ring_push(sensor_ring, r)
    BY <2>1, CapAssumption, PushTyped DEF TypeOK
  <2>2. CASE sensor_ring' = sensor_ring
    BY <2>2 DEF TypeOK
  <2> QED BY <2>1, <2>2 DEF db_queue_push
<1>2. event_ring' \in RingType(EventCap, Rec)
  <2>1. CASE event_ring' = ring_push(event_ring, r)
    BY <2>1, CapAssumption, PushTyped DEF TypeOK
  <2>2. CASE event_ring' = event_ring
    BY <2>2 DEF TypeOK
  <2> QED BY <2>1, <2>2 DEF db_queue_push
<1> QED BY <1>1, <1>2 DEF db_queue_push, TypeOK, Woken

LEMMA PopTypes ==
  ASSUME TypeOK, db_queue_pop
  PROVE  TypeOK'
<1>1. CASE Sleep
  BY <1>1 DEF Sleep, TypeOK, rings
<1>2. CASE PopEvent
  BY <1>2, CapAssumption, PopTyped DEF PopEvent, TypeOK
<1>3. CASE PopSensor
  BY <1>3, CapAssumption, PopTyped DEF PopSensor, TypeOK
<1>4. CASE Leave
  BY <1>4 DEF Leave, TypeOK, rings
<1> QED BY <1>1, <1>2, <1>3, <1>4 DEF db_queue_pop

LEMMA StepTypes == TypeOK /\ QueueStep => TypeOK'
<1> SUFFICES ASSUME TypeOK, QueueStep
             PROVE  TypeOK'
  OBVIOUS
<1>1. CASE \E r \in Rec : workerAt # "exited" /\ db_queue_push(r)
  BY <1>1, PushTypes
<1>2. CASE SpuriousWakeup
  BY <1>2 DEF SpuriousWakeup, TypeOK, rings
<1>3. CASE db_queue_pop
  BY <1>3, PopTypes
<1>4. CASE db_queue_shutdown
  BY <1>4 DEF db_queue_shutdown, TypeOK, rings, Woken
<1>5. CASE WriteDone
  BY <1>5 DEF WriteDone, TypeOK, rings
<1>6. CASE UNCHANGED queueVars
  BY <1>6 DEF queueVars, TypeOK, rings
<1> QED BY <1>1, <1>2, <1>3, <1>4, <1>5, <1>6 DEF QueueStep

-----------------------------------------------------------------------------
LEMMA StepAsleep == NeverAsleepOnWork /\ QueueStep => NeverAsleepOnWork'
<1> SUFFICES ASSUME NeverAsleepOnWork, QueueStep
             PROVE  NeverAsleepOnWork'
  OBVIOUS
<1> USE DEF NeverAsleepOnWork, BothEmpty, rings
<1>1. CASE \E r \in Rec : workerAt # "exited" /\ db_queue_push(r)
  BY <1>1 DEF db_queue_push, Woken
<1>2. CASE SpuriousWakeup
  BY <1>2 DEF SpuriousWakeup
<1>3. CASE db_queue_pop
  BY <1>3 DEF db_queue_pop, Sleep, PopEvent, PopSensor, Leave
<1>4. CASE db_queue_shutdown
  BY <1>4 DEF db_queue_shutdown, Woken
<1>5. CASE WriteDone
  BY <1>5 DEF WriteDone
<1>6. CASE UNCHANGED queueVars
  BY <1>6 DEF queueVars
<1> QED BY <1>1, <1>2, <1>3, <1>4, <1>5, <1>6 DEF QueueStep

LEMMA StepLeaves == LeavesNothingBehind /\ QueueStep => LeavesNothingBehind'
<1> SUFFICES ASSUME LeavesNothingBehind, QueueStep
             PROVE  LeavesNothingBehind'
  OBVIOUS
<1> USE DEF LeavesNothingBehind, BothEmpty, rings
<1>1. CASE \E r \in Rec : workerAt # "exited" /\ db_queue_push(r)
  BY <1>1 DEF db_queue_push, Woken
<1>2. CASE SpuriousWakeup
  BY <1>2 DEF SpuriousWakeup
<1>3. CASE db_queue_pop
  BY <1>3 DEF db_queue_pop, Sleep, PopEvent, PopSensor, Leave, MayLeave
<1>4. CASE db_queue_shutdown
  BY <1>4 DEF db_queue_shutdown, Woken
<1>5. CASE WriteDone
  BY <1>5 DEF WriteDone
<1>6. CASE UNCHANGED queueVars
  BY <1>6 DEF queueVars
<1> QED BY <1>1, <1>2, <1>3, <1>4, <1>5, <1>6 DEF QueueStep

-----------------------------------------------------------------------------
(* A push of the code is a push of the queue the record belongs to.        *)
LEMMA PushRefines ==
  ASSUME TypeOK, NEW r \in Rec, db_queue_push(r)
  PROVE  Queue!PushSensor(r) \/ Queue!PushEvent(r)
<1>1. CASE ringOf(r) = "sensor"
  <2>1. sensor_ring' = ring_push(sensor_ring, r) /\ UNCHANGED <<event_ring, rec>>
    BY <1>1 DEF db_queue_push
  <2>2. r.type = "sensor"
    BY <1>1 DEF ringOf
  <2>3. /\ Contents(sensor_ring') =
              Append(IF Len(Contents(sensor_ring)) < SensorCap - 1 THEN Contents(sensor_ring)
                     ELSE Tail(Contents(sensor_ring)), r)
        /\ sensor_ring'.dropped =
              IF Len(Contents(sensor_ring)) < SensorCap - 1 THEN sensor_ring.dropped
              ELSE sensor_ring.dropped + 1
    BY <2>1, CapAssumption, PushContents DEF TypeOK
  <2>4. Queue!PushSensor(r)
    BY <2>1, <2>2, <2>3 DEF Queue!PushSensor, Queue!Joined, Queue!Lost, Queue!Room
  <2> QED BY <2>4
<1>2. CASE ringOf(r) = "event"
  <2>1. event_ring' = ring_push(event_ring, r) /\ UNCHANGED <<sensor_ring, rec>>
    BY <1>2 DEF db_queue_push
  <2>2. r.type # "sensor"
    BY <1>2 DEF ringOf
  <2>3. /\ Contents(event_ring') =
              Append(IF Len(Contents(event_ring)) < EventCap - 1 THEN Contents(event_ring)
                     ELSE Tail(Contents(event_ring)), r)
        /\ event_ring'.dropped =
              IF Len(Contents(event_ring)) < EventCap - 1 THEN event_ring.dropped
              ELSE event_ring.dropped + 1
    BY <2>1, CapAssumption, PushContents DEF TypeOK
  <2>4. Queue!PushEvent(r)
    BY <2>1, <2>2, <2>3 DEF Queue!PushEvent, Queue!Joined, Queue!Lost, Queue!Room
  <2> QED BY <2>4
<1> QED BY <1>1, <1>2 DEF ringOf

(* An empty ring is an empty queue.                                        *)
LEMMA EmptyRings ==
  ASSUME TypeOK
  PROVE  /\ ring_empty(event_ring) <=> Contents(event_ring) = <<>>
         /\ ring_empty(sensor_ring) <=> Contents(sensor_ring) = <<>>
<1>1. ASSUME NEW cap \in Nat \ {0, 1}, NEW r \in RingType(cap, Rec)
      PROVE  ring_empty(r) <=> Contents(r) = <<>>
  <2>1. Contents(r) \in Seq(Rec) /\ Len(Contents(r)) = Count(r)
    BY ContentsTyped
  <2>2. ring_empty(r) <=> Count(r) = 0
    BY CountBounds
  <2> QED BY <2>1, <2>2
<1> QED BY <1>1, CapAssumption DEF TypeOK

LEMMA PopRefines ==
  ASSUME TypeOK, db_queue_pop
  PROVE  Queue!TakeEvent \/ Queue!TakeSensor \/ UNCHANGED <<sensor_ring, event_ring, rec>>
<1>1. CASE Sleep \/ Leave
  BY <1>1 DEF Sleep, Leave, rings
<1>2. CASE PopEvent
  <2>1. /\ Contents(event_ring') = Tail(Contents(event_ring))
        /\ rec' = Head(Contents(event_ring))
        /\ event_ring'.dropped = event_ring.dropped
    BY <1>2, CapAssumption, PopContents DEF PopEvent, TypeOK
  <2>2. Queue!TakeEvent
    BY <1>2, <2>1, EmptyRings DEF PopEvent, Queue!TakeEvent
  <2> QED BY <2>2
<1>3. CASE PopSensor
  <2>1. /\ Contents(sensor_ring') = Tail(Contents(sensor_ring))
        /\ rec' = Head(Contents(sensor_ring))
        /\ sensor_ring'.dropped = sensor_ring.dropped
    BY <1>3, CapAssumption, PopContents DEF PopSensor, TypeOK
  <2>2. Queue!TakeSensor
    BY <1>3, <2>1, EmptyRings DEF PopSensor, Queue!TakeSensor
  <2> QED BY <2>2
<1> QED BY <1>1, <1>2, <1>3 DEF db_queue_pop

LEMMA StepRefines == TypeOK /\ QueueStep => [Queue!Next]_(Queue!queueVars)
<1> SUFFICES ASSUME TypeOK, QueueStep
             PROVE  [Queue!Next]_(Queue!queueVars)
  OBVIOUS
<1>1. CASE \E r \in Rec : workerAt # "exited" /\ db_queue_push(r)
  <2>1. PICK r \in Rec : db_queue_push(r)
    BY <1>1
  <2> QED BY <2>1, PushRefines DEF Queue!Next
<1>2. CASE db_queue_pop
  <2>1. CASE Queue!TakeEvent \/ Queue!TakeSensor
    BY <2>1 DEF Queue!Next
  <2>2. CASE UNCHANGED <<sensor_ring, event_ring, rec>>
    BY <2>2 DEF Queue!queueVars
  <2> QED BY <1>2, <2>1, <2>2, PopRefines
<1>3. CASE SpuriousWakeup \/ db_queue_shutdown \/ WriteDone \/ UNCHANGED queueVars
  BY <1>3 DEF SpuriousWakeup, db_queue_shutdown, WriteDone, queueVars, rings, Queue!queueVars
<1> QED BY <1>1, <1>2, <1>3 DEF QueueStep


-----------------------------------------------------------------------------
(* The writer's invariant.                                                 *)

Cycles  == Contents(sensor_ring)
Events  == Contents(event_ring)
Busy    == workerAt = "writing"
Ids(q)  == {q[i].id : i \in DOMAIN q}
Held    == Queued \cup InHand \cup Written

(* No id waits twice in a queue.                                           *)
OnceEach(q) == \A i, j \in DOMAIN q : q[i].id = q[j].id => i = j

(* The callback pushes a command after its transition or after another     *)
(* command of the same scenario, and none of them twice.                   *)
TodoShape ==
  \A i \in DOMAIN todo : todo[i].type = "command" =>
    /\ i > 1 => todo[i - 1].type \in {"transition", "command"}
    /\ \A j \in DOMAIN todo : j > i => todo[j].type = "command" /\ todo[j].key # todo[i].key

CallbackInv ==
  /\ TypeOKWriter
  /\ TodoShape
  /\ pushed + Len(todo) <= MaxRecords
  /\ shutting_down => todo = <<>>
  /\ conn = "none" => last_event_id = 0
  /\ ~ use_pg => conn = "none"
  /\ \A i \in DOMAIN Cycles : Cycles[i].type = "sensor"
  /\ \A i \in DOMAIN Events : Events[i].type # "sensor"

(* Every record pushed is in one place, but for a row whose commit went    *)
(* unnoticed and which has a line too.                                     *)
HeldOnce ==
  /\ Held \subseteq 1 .. pushed
  /\ OnceEach(Cycles) /\ OnceEach(Events)
  /\ Ids(Cycles) \cap Ids(Events) = {}
  /\ InHand \cap Queued = {}
  /\ Written \cap (Queued \cup InHand) = {}

(* The commands the worker has, will have or has stored.                   *)
LiveCommands ==
  {a \in {Events[i] : i \in DOMAIN Events}
           \cup (IF Busy THEN {rec} ELSE {}) \cup {r.rec : r \in pg} : a.type = "command"}

KeysOnce ==
  /\ \A a \in LiveCommands : a.own \in 0 .. pushed
  /\ \A a, b \in LiveCommands : a.own = b.own /\ a.key = b.key => a.id = b.id
  /\ todo # <<>> /\ Head(todo).type = "command" =>
       \A a \in LiveCommands, j \in DOMAIN todo : a.own = scene => a.key # todo[j].key

(* v is the id of the transition nearest above place i of q, or w.         *)
Nearest(w, q, i, v) ==
  \/ v = w /\ \A j \in 1 .. i - 1 : q[j].type # "transition"
  \/ \E j \in 1 .. i - 1 : /\ q[j].type = "transition" /\ q[j].id = v
                           /\ \A k \in j + 1 .. i - 1 : q[k].type # "transition"

(* Behind w, every command of q stands under its own transition, and so    *)
(* will the commands of z that are still to come.                          *)
Chained(w, q, z) ==
  /\ Nearest(w, q, Len(q) + 1, z)
  /\ \A i \in DOMAIN q : q[i].type = "command" => Nearest(w, q, i, q[i].own)

(* The event the next command row would be attached to.                    *)
Attached == IF conn = "bad" THEN 0 ELSE last_event_id

(* The commands in the event ring follow a transition w: the one in hand,  *)
(* or else the one the worker is attached to.                              *)
Order ==
  \E w \in 0 .. pushed :
    /\ Chained(w, Events, scene)
    /\ Busy /\ rec.type = "transition" => w = rec.id
    /\ Busy /\ rec.type = "command" => w = rec.own
    /\ ~ (Busy /\ rec.type = "transition") => (Attached # 0 => w = Attached)

OrderInv ==
  event_ring.dropped = 0 =>
    /\ Order
    /\ \A r \in CommandRows : r.event = r.rec.own

(* The events a command line may be compared with: those that have a line, *)
(* are in hand or wait.                                                    *)
Seen == {jsonl[i] : i \in DOMAIN jsonl} \cup (IF Busy THEN {rec} ELSE {})
          \cup {Events[i] : i \in DOMAIN Events}

(* No transition came between a command and its own; and the events pass   *)
(* from the ring through the hand into the file in the order of the        *)
(* pushes.                                                                 *)
Between ==
  \A c \in Seen : c.type = "command" =>
    /\ c.own \in Nat /\ c.own < c.id
    /\ \A t \in Seen : t.type = "transition" => ~ (c.own < t.id /\ t.id < c.id)

Rising ==
  /\ \A i, j \in DOMAIN Events : i < j => Events[i].id < Events[j].id
  /\ \A i, j \in DOMAIN jsonl :
       i < j /\ jsonl[i].type # "sensor" /\ jsonl[j].type # "sensor" => jsonl[i].id < jsonl[j].id
  /\ \A i \in DOMAIN jsonl, k \in DOMAIN Events :
       jsonl[i].type # "sensor" => jsonl[i].id < Events[k].id
  /\ Busy /\ rec.type # "sensor" =>
       /\ \A i \in DOMAIN jsonl : jsonl[i].type # "sensor" => jsonl[i].id < rec.id
       /\ \A k \in DOMAIN Events : rec.id < Events[k].id

LinesInv ==
  /\ \A a \in Seen : a.id \in 1 .. pushed
  /\ \A t \in Seen : t.type = "transition" => t.id <= scene
  /\ Between
  /\ Rising
  /\ \A i \in 1 .. Len(jsonl) + 1 : \E v : Nearest(0, jsonl, i, v)

WriterInv ==
  /\ CallbackInv /\ HeldOnce /\ KeysOnce /\ OrderInv /\ LinesInv
  /\ EveryRecordAccounted /\ NeverAsleepOnWork /\ LeavesNothingBehind

-----------------------------------------------------------------------------
(* Order in a sequence of records.                                         *)

LEMMA NearestAppend ==
  ASSUME NEW R, NEW q \in Seq(R), NEW r, NEW w, NEW v
  PROVE  /\ \A i \in 1 .. Len(q) + 1 : Nearest(w, Append(q, r), i, v) <=> Nearest(w, q, i, v)
         /\ r.type = "transition" => Nearest(w, Append(q, r), Len(q) + 2, r.id)
         /\ r.type # "transition" =>
              (Nearest(w, q, Len(q) + 1, v) => Nearest(w, Append(q, r), Len(q) + 2, v))
<1> DEFINE s == Append(q, r)
           n == Len(q)
<1>1. n \in Nat /\ s[n + 1] = r /\ \A j \in 1 .. n : s[j] = q[j]
  OBVIOUS
<1> HIDE DEF s, n
<1>2. ASSUME NEW i \in 1 .. n + 1 PROVE Nearest(w, s, i, v) <=> Nearest(w, q, i, v)
  <2>1. \A j \in 1 .. i - 1 : s[j] = q[j]
    BY <1>1
  <2>2. \A j \in 1 .. i - 1 : \A k \in j + 1 .. i - 1 : s[k] = q[k]
    BY <1>1
  <2> QED
    BY <2>1, <2>2 DEF Nearest
<1>3. r.type = "transition" => Nearest(w, s, n + 2, r.id)
  <2>1. n + 1 \in 1 .. (n + 2) - 1 /\ (n + 1) + 1 .. (n + 2) - 1 = {}
    BY <1>1
  <2> QED
    BY <1>1, <2>1 DEF Nearest
<1>4. ASSUME r.type # "transition", Nearest(w, q, n + 1, v) PROVE Nearest(w, s, n + 2, v)
  <2>1. (n + 2) - 1 = n + 1 /\ (n + 1) - 1 = n
    BY <1>1
  <2>2. CASE v = w /\ \A j \in 1 .. n : q[j].type # "transition"
    <3>1. ASSUME NEW j \in 1 .. n + 1 PROVE s[j].type # "transition"
      <4>1. CASE j = n + 1
        BY <1>1, <1>4, <4>1
      <4>2. CASE j \in 1 .. n
        BY <1>1, <2>2, <4>2
      <4> QED
        BY <1>1, <4>1, <4>2
    <3> QED
      BY <2>1, <2>2, <3>1 DEF Nearest
  <2>3. CASE \E j \in 1 .. n : /\ q[j].type = "transition" /\ q[j].id = v
                               /\ \A k \in j + 1 .. n : q[k].type # "transition"
    <3>1. PICK j \in 1 .. n : /\ q[j].type = "transition" /\ q[j].id = v
                              /\ \A k \in j + 1 .. n : q[k].type # "transition"
      BY <2>3
    <3>2. j \in 1 .. n + 1 /\ s[j].type = "transition" /\ s[j].id = v
      BY <1>1, <3>1
    <3>3. ASSUME NEW k \in j + 1 .. n + 1 PROVE s[k].type # "transition"
      <4>1. CASE k = n + 1
        BY <1>1, <1>4, <4>1
      <4>2. CASE k # n + 1
        <5>1. k \in j + 1 .. n /\ k \in 1 .. n
          BY <1>1, <4>2
        <5> QED
          BY <1>1, <3>1, <5>1
      <4> QED
        BY <4>1, <4>2
    <3> QED
      BY <2>1, <3>2, <3>3 DEF Nearest
  <2> QED
    BY <1>4, <2>1, <2>2, <2>3 DEF Nearest
<1> QED
  BY <1>2, <1>3, <1>4 DEF s, n

LEMMA ChainAppend ==
  ASSUME NEW R, NEW q \in Seq(R), NEW r, NEW w, NEW z, Chained(w, q, z),
         r.type = "command" => r.own = z
  PROVE  Chained(w, Append(q, r), IF r.type = "transition" THEN r.id ELSE z)
<1> DEFINE s == Append(q, r)
<1>1. Len(q) \in Nat /\ Len(s) + 1 = Len(q) + 2 /\ DOMAIN s = 1 .. Len(q) + 1 /\ DOMAIN q = 1 .. Len(q)
      /\ s[Len(q) + 1] = r /\ \A j \in 1 .. Len(q) : s[j] = q[j]
  OBVIOUS
<1>2. Nearest(w, s, Len(s) + 1, IF r.type = "transition" THEN r.id ELSE z)
  BY <1>1, NearestAppend DEF Chained
<1>3. ASSUME NEW i \in DOMAIN s, s[i].type = "command" PROVE Nearest(w, s, i, s[i].own)
  <2>1. CASE i = Len(q) + 1
    <3>1. s[i] = r /\ r.own = z /\ Nearest(w, q, Len(q) + 1, z) /\ Len(q) + 1 \in 1 .. Len(q) + 1
      BY <1>1, <1>3, <2>1 DEF Chained
    <3> HIDE DEF s
    <3>2. Nearest(w, s, Len(q) + 1, z)
      BY <3>1, NearestAppend DEF s
    <3> QED
      BY <2>1, <3>1, <3>2
  <2>2. CASE i # Len(q) + 1
    <3>1. i \in DOMAIN q /\ i \in 1 .. Len(q) + 1 /\ s[i] = q[i]
      BY <1>1, <2>2
    <3>2. Nearest(w, q, i, q[i].own)
      BY <1>3, <3>1 DEF Chained
    <3> QED
      BY <3>1, <3>2, NearestAppend
  <2> QED
    BY <2>1, <2>2
<1> QED
  BY <1>2, <1>3 DEF Chained

(* Taking the head off: what stood under it stands under the new start.    *)
LEMMA NearestTail ==
  ASSUME NEW R, NEW q \in Seq(R), q # <<>>, NEW w, NEW v, NEW i \in 2 .. Len(q) + 1, Nearest(w, q, i, v)
  PROVE  Nearest(IF Head(q).type = "transition" THEN Head(q).id ELSE w, Tail(q), i - 1, v)
<1> DEFINE t == Tail(q)
           x == IF Head(q).type = "transition" THEN Head(q).id ELSE w
<1> SUFFICES Nearest(x, t, i - 1, v)
  OBVIOUS
<1>1. Len(q) \in Nat /\ Head(q) = q[1] /\ \A j \in 1 .. Len(q) - 1 : t[j] = q[j + 1]
  OBVIOUS
<1>2. i \in Nat /\ i > 1 /\ (i - 1) - 1 = i - 2 /\ \A j \in 1 .. i - 2 : t[j] = q[j + 1] /\ j + 1 \in 1 .. i - 1
  BY <1>1
<1> HIDE DEF t
<1>3. CASE v = w /\ \A j \in 1 .. i - 1 : q[j].type # "transition"
  <2>1. x = w
    BY <1>1, <1>2, <1>3
  <2>2. \A j \in 1 .. i - 2 : t[j].type # "transition"
    BY <1>2, <1>3
  <2> QED
    BY <1>2, <1>3, <2>1, <2>2 DEF Nearest
<1>4. CASE \E j \in 1 .. i - 1 : /\ q[j].type = "transition" /\ q[j].id = v
                                 /\ \A k \in j + 1 .. i - 1 : q[k].type # "transition"
  <2>1. PICK j \in 1 .. i - 1 : /\ q[j].type = "transition" /\ q[j].id = v
                                /\ \A k \in j + 1 .. i - 1 : q[k].type # "transition"
    BY <1>4
  <2>2. CASE j = 1
    <3>1. x = v
      BY <1>1, <2>1, <2>2
    <3>2. \A k \in 1 .. i - 2 : t[k].type # "transition"
      BY <1>2, <2>1, <2>2
    <3> QED
      BY <1>2, <3>1, <3>2 DEF Nearest
  <2>3. CASE j # 1
    <3>1. j - 1 \in 1 .. i - 2 /\ t[j - 1] = q[j]
      BY <1>2, <2>3
    <3>2. \A k \in (j - 1) + 1 .. i - 2 : t[k].type # "transition"
      BY <1>2, <2>1, <2>3
    <3> QED
      BY <1>2, <2>1, <3>1, <3>2 DEF Nearest
  <2> QED
    BY <2>2, <2>3
<1> QED
  BY <1>3, <1>4 DEF Nearest

LEMMA ChainTail ==
  ASSUME NEW R, NEW q \in Seq(R), q # <<>>, NEW w, NEW z, Chained(w, q, z)
  PROVE  /\ Chained(IF Head(q).type = "transition" THEN Head(q).id ELSE w, Tail(q), z)
         /\ Head(q).type = "command" => Head(q).own = w
<1> DEFINE t == Tail(q)
           x == IF Head(q).type = "transition" THEN Head(q).id ELSE w
<1>1. /\ Len(q) \in Nat \ {0} /\ Head(q) = q[1] /\ DOMAIN q = 1 .. Len(q)
      /\ Len(q) >= 1 /\ Len(t) \in Nat /\ Len(t) + 1 = Len(q) /\ DOMAIN t = 1 .. Len(q) - 1
      /\ \A j \in 1 .. Len(q) - 1 : t[j] = q[j + 1]
  OBVIOUS
<1>2. \A i \in 2 .. Len(q) + 1 : \A v : Nearest(w, q, i, v) => Nearest(x, t, i - 1, v)
  BY NearestTail
<1> HIDE DEF t, x
<1>3. Nearest(x, t, Len(t) + 1, z)
  <2>1. \A n \in Nat \ {0} : n + 1 \in 2 .. n + 1 /\ (n + 1) - 1 = n
    OBVIOUS
  <2>2. Len(q) + 1 \in 2 .. Len(q) + 1 /\ (Len(q) + 1) - 1 = Len(q)
    BY <1>1, <2>1
  <2>3. Nearest(x, t, (Len(q) + 1) - 1, z)
    BY <1>2, <2>2 DEF Chained
  <2> QED
    BY <1>1, <2>2, <2>3
<1>4. ASSUME NEW i \in DOMAIN t, t[i].type = "command" PROVE Nearest(x, t, i, t[i].own)
  <2>1. i + 1 \in DOMAIN q /\ i + 1 \in 2 .. Len(q) + 1 /\ t[i] = q[i + 1] /\ (i + 1) - 1 = i
    BY <1>1
  <2>2. Nearest(w, q, i + 1, q[i + 1].own)
    BY <1>4, <2>1 DEF Chained
  <2> QED
    BY <1>2, <2>1, <2>2
<1>5. q[1].type = "command" => q[1].own = w
  <2>1. 1 \in DOMAIN q /\ 1 .. 1 - 1 = {}
    BY <1>1
  <2> QED
    BY <2>1 DEF Chained, Nearest
<1> QED
  BY <1>1, <1>3, <1>4, <1>5 DEF Chained, t, x

(* What OwnerLine chooses is the nearest transition line.                  *)
LEMMA OwnerIsNearest ==
  ASSUME jsonl \in Seq(Rec), NEW i \in 1 .. Len(jsonl) + 1, NEW v, Nearest(0, jsonl, i, v)
  PROVE  OwnerLine(i) = v
<1> DEFINE above == {j \in 1 .. i - 1 : jsonl[j].type = "transition"}
<1>1. CASE v = 0 /\ \A j \in 1 .. i - 1 : jsonl[j].type # "transition"
  <2>1. above = {}
    BY <1>1
  <2> QED
    BY <1>1, <2>1 DEF OwnerLine
<1>2. CASE \E j \in 1 .. i - 1 : /\ jsonl[j].type = "transition" /\ jsonl[j].id = v
                                 /\ \A k \in j + 1 .. i - 1 : jsonl[k].type # "transition"
  <2>1. PICK j \in 1 .. i - 1 : /\ jsonl[j].type = "transition" /\ jsonl[j].id = v
                                /\ \A k \in j + 1 .. i - 1 : jsonl[k].type # "transition"
    BY <1>2
  <2>2. j \in above /\ (\A k \in above : k <= j) /\ \A k \in above : k \in Int
    BY <2>1
  <2> HIDE DEF above
  <2>3. \A m \in above : (\A k \in above : k <= m) => m = j
    BY <2>2
  <2>4. (CHOOSE m \in above : \A k \in above : k <= m) = j
    BY <2>2, <2>3
  <2>5. above # {}
    BY <2>2
  <2> QED
    BY <2>1, <2>4, <2>5 DEF OwnerLine, above
<1> QED
  BY <1>1, <1>2 DEF Nearest

-----------------------------------------------------------------------------
(* What the operations do to the two queues and to the stores.             *)

Pushed(q, d, r, q2, d2) ==
  \/ q2 = Append(q, r) /\ d2 = d
  \/ q # <<>> /\ q2 = Append(Tail(q), r) /\ d2 = d + 1

LEMMA ContentIds ==
  ASSUME NEW cap \in Nat \ {0, 1}, NEW r \in RingType(cap, Rec)
  PROVE  /\ Contents(r) \in Seq(Rec) /\ r.dropped \in Nat
         /\ {Contents(r)[k].id : k \in 1 .. Count(r)} = Ids(Contents(r))
<1>1. Contents(r) \in Seq(Rec) /\ Len(Contents(r)) = Count(r) /\ r.dropped \in Nat
  BY ContentsTyped, FieldsTyped
<1>2. DOMAIN Contents(r) = 1 .. Count(r)
  BY <1>1
<1> QED
  BY <1>1, <1>2 DEF Ids

LEMMA RingFacts ==
  ASSUME TypeOK
  PROVE  /\ Cycles \in Seq(Rec) /\ Events \in Seq(Rec)
         /\ sensor_ring.dropped \in Nat /\ event_ring.dropped \in Nat
         /\ Queued = Ids(Cycles) \cup Ids(Events)
  BY ContentIds, CapAssumption DEF TypeOK, Queued, Cycles, Events

LEMMA RingFactsNext ==
  ASSUME TypeOK'
  PROVE  Queued' = Ids(Cycles') \cup Ids(Events')
<1>1. sensor_ring' \in RingType(SensorCap, Rec) /\ event_ring' \in RingType(EventCap, Rec)
  BY DEF TypeOK
<1> QED
  BY <1>1, ContentIds, CapAssumption DEF Queued, Cycles, Events

LEMMA PushMoves ==
  ASSUME TypeOK, NEW r \in Rec, db_queue_push(r)
  PROVE  \/ /\ r.type = "sensor" /\ Events' = Events /\ event_ring'.dropped = event_ring.dropped
            /\ Pushed(Cycles, sensor_ring.dropped, r, Cycles', sensor_ring'.dropped)
         \/ /\ r.type # "sensor" /\ Cycles' = Cycles /\ sensor_ring'.dropped = sensor_ring.dropped
            /\ Pushed(Events, event_ring.dropped, r, Events', event_ring'.dropped)
<1>1. ASSUME NEW cap \in Nat \ {0, 1}, NEW g \in RingType(cap, Rec)
      PROVE  Pushed(Contents(g), g.dropped, r, Contents(ring_push(g, r)), ring_push(g, r).dropped)
  <2>1. Contents(g) \in Seq(Rec)
    BY ContentsTyped
  <2>2. CASE Len(Contents(g)) < cap - 1
    BY <2>2, PushContents DEF Pushed
  <2>3. CASE ~ (Len(Contents(g)) < cap - 1)
    <3>1. Contents(g) # <<>>
      BY <2>1, <2>3
    <3> QED
      BY <2>3, <3>1, PushContents DEF Pushed
  <2> QED
    BY <2>2, <2>3
<1>2. CASE ringOf(r) = "sensor" /\ sensor_ring' = ring_push(sensor_ring, r) /\ event_ring' = event_ring
  <2>1. Pushed(Cycles, sensor_ring.dropped, r, Contents(sensor_ring'), sensor_ring'.dropped)
    BY <1>1, <1>2, CapAssumption DEF TypeOK, Cycles
  <2> QED
    BY <1>2, <2>1 DEF ringOf, Cycles, Events
<1>3. CASE ringOf(r) = "event" /\ event_ring' = ring_push(event_ring, r) /\ sensor_ring' = sensor_ring
  <2>1. Pushed(Events, event_ring.dropped, r, Contents(event_ring'), event_ring'.dropped)
    BY <1>1, <1>3, CapAssumption DEF TypeOK, Events
  <2> QED
    BY <1>3, <2>1 DEF ringOf, Cycles, Events
<1> QED
  BY <1>2, <1>3 DEF db_queue_push

(* A pop: nothing moves, or the head of one queue comes into the hand.     *)
PoppedEvent ==
  /\ Events # <<>> /\ rec' = Head(Events) /\ Events' = Tail(Events) /\ Cycles' = Cycles
PoppedCycle ==
  /\ Cycles # <<>> /\ rec' = Head(Cycles) /\ Cycles' = Tail(Cycles) /\ Events' = Events

LEMMA PopMoves ==
  ASSUME TypeOK, db_queue_pop
  PROVE  /\ sensor_ring'.dropped = sensor_ring.dropped /\ event_ring'.dropped = event_ring.dropped
         /\ UNCHANGED shutting_down /\ ~ Busy
         /\ \/ Cycles' = Cycles /\ Events' = Events /\ ~ Busy' /\ UNCHANGED <<rings, rec>>
            \/ PoppedEvent /\ Busy'
            \/ PoppedCycle /\ Busy'
<1>1. CASE Sleep \/ Leave
  BY <1>1 DEF Sleep, Leave, rings, Cycles, Events, Busy
<1>2. CASE PopEvent
  <2>1. /\ Contents(event_ring') = Tail(Contents(event_ring))
        /\ rec' = Head(Contents(event_ring))
        /\ event_ring'.dropped = event_ring.dropped
    BY <1>2, CapAssumption, PopContents DEF PopEvent, TypeOK
  <2>2. Events # <<>>
    BY <1>2, EmptyRings DEF PopEvent, Events
  <2> QED
    BY <1>2, <2>1, <2>2 DEF PopEvent, PoppedEvent, Cycles, Events, Busy
<1>3. CASE PopSensor
  <2>1. /\ Contents(sensor_ring') = Tail(Contents(sensor_ring))
        /\ rec' = Head(Contents(sensor_ring))
        /\ sensor_ring'.dropped = sensor_ring.dropped
    BY <1>3, CapAssumption, PopContents DEF PopSensor, TypeOK
  <2>2. Cycles # <<>>
    BY <1>3, EmptyRings DEF PopSensor, Cycles
  <2> QED
    BY <1>3, <2>1, <2>2 DEF PopSensor, PoppedCycle, Cycles, Events, Busy
<1> QED
  BY <1>1, <1>2, <1>3 DEF db_queue_pop

(* What an append leaves: the line; or no line, and a fragment less behind *)
(* it; or no line and one failure more.                                    *)
Appended ==
  \/ jsonl' = Append(jsonl, rec) /\ failures' = failures /\ AtStake' = AtStake
  \/ jsonl' = jsonl /\ failures' = failures /\ AtStake = AtStake' + 1
  \/ jsonl' = jsonl /\ failures' = failures + 1

LEMMA AppendMoves ==
  ASSUME torn \in BOOLEAN, failures \in 0 .. MaxFailures, write_jsonl
  PROVE  Appended /\ torn' \in BOOLEAN /\ failures' \in 0 .. MaxFailures
<1>1. CASE /\ jsonl' = IF torn THEN jsonl ELSE Append(jsonl, rec)
           /\ torn' = FALSE /\ failures' = failures
  <2>1. AtStake' = 0
    BY <1>1 DEF AtStake
  <2>2. CASE torn
    <3>1. AtStake = 1 /\ AtStake = AtStake' + 1
      BY <2>1, <2>2 DEF AtStake
    <3> QED
      BY <1>1, <2>2, <3>1 DEF Appended
  <2>3. CASE ~ torn
    BY <1>1, <2>1, <2>3 DEF Appended, AtStake
  <2> QED
    BY <1>1, <2>2, <2>3
<1>2. CASE /\ failures < MaxFailures /\ failures' = failures + 1
           /\ torn' \in {torn, TRUE} /\ jsonl' = jsonl
  <2>1. torn' \in BOOLEAN
    BY <1>2
  <2>2. failures' \in 0 .. MaxFailures
    BY <1>2, FailuresAssumption
  <2> QED
    BY <1>2, <2>1, <2>2 DEF Appended
<1> QED
  BY <1>1, <1>2 DEF write_jsonl

(* The event a row of the record in hand is given.                         *)
RowEvent ==
  IF rec.type = "transition" THEN rec.id ELSE IF rec.type = "command" THEN Attached ELSE 0

LEMMA WriteMoves ==
  ASSUME conn \in {"none", "ok", "bad"}, conn = "none" => last_event_id = 0,
         ~ use_pg => conn = "none", torn \in BOOLEAN, failures \in 0 .. MaxFailures, Write
  PROVE  /\ Busy /\ workerAt' = "popping" /\ UNCHANGED <<rings, shutting_down, rec, callback, use_pg>>
         /\ \/ pg' = pg
            \/ pg' = pg \cup {Row(RowEvent)} /\ (rec.type = "command" => Attached # 0)
         /\ jsonl' \in {jsonl, Append(jsonl, rec)}
         /\ \/ Appended
            \/ UNCHANGED file /\ pg' = pg \cup {Row(RowEvent)}
            \/ UNCHANGED file /\ rec.type = "command" /\ Attached # 0 /\ Conflict(Attached)
         /\ torn' \in BOOLEAN /\ failures' \in 0 .. MaxFailures
         /\ conn' \in {"none", "ok", "bad"} /\ last_event_id' \in {0, last_event_id, rec.id}
         /\ conn' = "none" => last_event_id' = 0
         /\ ~ use_pg => conn' = "none"
         /\ Attached' \in {0, IF rec.type = "transition" THEN rec.id ELSE Attached}
<1>1. CASE WriteLine
  <2>1. Attached' = 0
    BY <1>1 DEF WriteLine, Attached
  <2>2. Appended /\ torn' \in BOOLEAN /\ failures' \in 0 .. MaxFailures
    BY <1>1, AppendMoves DEF WriteLine
  <2>3. jsonl' \in {jsonl, Append(jsonl, rec)}
    BY <2>2 DEF Appended
  <2> QED
    BY <1>1, <2>1, <2>2, <2>3 DEF WriteLine, WriteDone, Busy, callback
<1>2. CASE WriteAround
  <2>1. PICK c \in ensure_conn : OutOfReach(c) /\ conn' = c.conn /\ last_event_id' = c.last
    BY <1>2 DEF WriteAround
  <2>2. /\ c.conn \in {conn, "ok"} /\ c.last \in {last_event_id, 0}
        /\ c.conn = "ok" => c.last = Attached
        /\ c.conn # "ok" => c.conn = conn /\ c.last = last_event_id
    BY <2>1 DEF ensure_conn, Reconnected, Attached
  <2>3. Attached' = Attached /\ (rec.type = "transition" => Attached' = 0)
    BY <2>1, <2>2 DEF Attached, OutOfReach
  <2>4. Appended /\ torn' \in BOOLEAN /\ failures' \in 0 .. MaxFailures
    BY <1>2, AppendMoves DEF WriteAround
  <2>5. jsonl' \in {jsonl, Append(jsonl, rec)}
    BY <2>4 DEF Appended
  <2> QED
    BY <1>2, <2>1, <2>2, <2>3, <2>4, <2>5 DEF WriteAround, WriteDone, Busy, callback
<1>3. CASE WriteToPg
  <2>1. PICK c \in ensure_conn, a \in Answers : ~ OutOfReach(c) /\ pg_write_record(c, a)
    BY <1>3 DEF WriteToPg
  <2>2. c.conn = "ok" /\ c.last = Attached /\ c.last \in {last_event_id, 0}
        /\ (rec.type = "command" => Attached # 0)
    BY <2>1 DEF OutOfReach, ensure_conn, Reconnected, Attached
  <2>3. /\ a.ok = TRUE \/ a.ok = FALSE
        /\ a.stored = TRUE \/ a.stored = FALSE
        /\ a.conn \in {"ok", "bad"}
        /\ a.ok = TRUE => a.stored = TRUE
    <3>1. CASE a = Done
      BY <3>1, Zenon DEF Done
    <3>2. CASE a = Refused
      BY <3>2, Zenon DEF Refused
    <3>3. ASSUME NEW x \in BOOLEAN, a = [ok |-> FALSE, conn |-> "bad", stored |-> x]
          PROVE  a.ok = FALSE /\ a.conn = "bad" /\ (a.stored = TRUE \/ a.stored = FALSE)
      BY <3>3, Zenon
    <3>4. a = Done \/ a = Refused \/ \E x \in BOOLEAN : a = [ok |-> FALSE, conn |-> "bad", stored |-> x]
      BY Zenon DEF Answers, Broken
    <3>5. FALSE # TRUE
      OBVIOUS
    <3> QED
      BY <3>1, <3>2, <3>3, <3>4, <3>5, Zenon
  <2>4. /\ conn' = a.conn
        /\ a.ok = FALSE => Appended
        /\ a.ok = TRUE => UNCHANGED file
        /\ torn' \in BOOLEAN /\ failures' \in 0 .. MaxFailures
        /\ jsonl' \in {jsonl, Append(jsonl, rec)}
    <3>1. conn' = a.conn /\ IF Fallback(a) THEN write_jsonl ELSE UNCHANGED file
      BY <2>1 DEF pg_write_record
    <3>2. CASE a.ok = FALSE
      <4>1. write_jsonl
        BY <3>1, <3>2 DEF Fallback
      <4>2. Appended /\ torn' \in BOOLEAN /\ failures' \in 0 .. MaxFailures
        BY <4>1, AppendMoves
      <4>3. jsonl' \in {jsonl, Append(jsonl, rec)}
        BY <4>2 DEF Appended
      <4> QED
        BY <3>1, <3>2, <4>2, <4>3
    <3>3. CASE a.ok = TRUE
      <4>1. UNCHANGED file
        BY <3>1, <3>3 DEF Fallback
      <4> QED
        BY <3>1, <3>3, <4>1 DEF file
    <3> QED
      BY <2>3, <3>2, <3>3
  <2>5. Attached' = IF a.conn = "bad" THEN 0 ELSE last_event_id'
    BY <2>3, <2>4 DEF Attached
  <2>6. CASE rec.type = "transition"
    <3>1. pg' = pg \cup (IF a.stored THEN {Row(rec.id)} ELSE {}) /\ last_event_id' = IF a.ok THEN rec.id ELSE 0
      BY <2>1, <2>6 DEF pg_write_record, ins_event, Rows
    <3>2. RowEvent = rec.id
      BY <2>6 DEF RowEvent
    <3> QED
      BY <1>3, <2>3, <2>4, <2>5, <2>6, <3>1, <3>2 DEF WriteToPg, WriteDone, Busy, callback
  <2>7. CASE rec.type = "command"
    <3>1. /\ pg' = pg \cup (IF a.stored /\ ~ Conflict(Attached) THEN {Row(Attached)} ELSE {})
          /\ last_event_id' = Attached
      BY <2>1, <2>2, <2>7 DEF pg_write_record, ins_command, Rows
    <3>2. RowEvent = Attached
      BY <2>7 DEF RowEvent
    <3> QED
      BY <1>3, <2>2, <2>3, <2>4, <2>5, <2>7, <3>1, <3>2 DEF WriteToPg, WriteDone, Busy, callback
  <2>8. CASE rec.type \notin {"transition", "command"}
    <3>1. /\ pg' = pg \cup (IF a.stored THEN {Row(0)} ELSE {})
          /\ last_event_id' = Attached
      BY <2>1, <2>2, <2>8 DEF pg_write_record, ins_plain, Rows
    <3>2. RowEvent = 0
      BY <2>8 DEF RowEvent
    <3> QED
      BY <1>3, <2>2, <2>3, <2>4, <2>5, <2>8, <3>1, <3>2 DEF WriteToPg, WriteDone, Busy, callback
  <2> QED
    BY <2>6, <2>7, <2>8
<1> QED
  BY <1>1, <1>2, <1>3 DEF Write

-----------------------------------------------------------------------------
(* The callback thread: what it has yet to push, and what it pushes next.  *)

Created == [type |-> Head(todo).type, id |-> pushed + 1, key |-> Head(todo).key,
            own |-> IF Head(todo).type = "command" THEN scene ELSE 0]

LEMMA TodoFacts ==
  ASSUME CallbackInv
  PROVE  /\ todo \in Seq(Task) /\ pushed \in 0 .. MaxRecords /\ MaxRecords \in Nat /\ scene \in 0 .. pushed
         /\ TypeOK /\ rec \in Rec /\ jsonl \in Seq(Rec)
         /\ conn \in {"none", "ok", "bad"} /\ use_pg \in BOOLEAN
         /\ last_event_id \in 0 .. pushed /\ pg \subseteq [rec : Rec, event : 0 .. MaxRecords]
         /\ torn \in BOOLEAN /\ failures \in 0 .. MaxFailures
         /\ todo # <<>> => /\ Head(todo) \in Task /\ pushed + 1 \in 1 .. MaxRecords
                           /\ Created \in Rec
                           /\ Tail(todo) \in Seq(Task) /\ Len(Tail(todo)) = Len(todo) - 1
<1>1. todo \in Seq(Task) /\ pushed \in 0 .. MaxRecords /\ MaxRecords \in Nat /\ scene \in 0 .. pushed
      /\ TypeOK /\ rec \in Rec /\ jsonl \in Seq(Rec) /\ conn \in {"none", "ok", "bad"} /\ use_pg \in BOOLEAN
      /\ last_event_id \in 0 .. pushed /\ pg \subseteq [rec : Rec, event : 0 .. MaxRecords]
      /\ torn \in BOOLEAN /\ failures \in 0 .. MaxFailures
      /\ pushed + Len(todo) <= MaxRecords
  BY RecordsAssumption DEF CallbackInv, TypeOKWriter, TypeOK
<1>2. ASSUME todo # <<>>
      PROVE  /\ Head(todo) \in Task /\ pushed + 1 \in 1 .. MaxRecords
             /\ Tail(todo) \in Seq(Task) /\ Len(Tail(todo)) = Len(todo) - 1
             /\ Created \in Rec
  <2>1. Head(todo) \in Task /\ Tail(todo) \in Seq(Task) /\ Len(Tail(todo)) = Len(todo) - 1 /\ Len(todo) >= 1
        /\ Len(todo) \in Nat
    BY <1>1, <1>2
  <2>2. pushed + 1 \in 1 .. MaxRecords
    BY <1>1, <2>1
  <2>3. Created \in DbRecord
    <3>1. CASE Head(todo) \in [type : {"sensor", "button", "transition"}, key : {NoKey}]
      BY <1>1, <2>2, <3>1 DEF Created, DbRecord
    <3>2. CASE Head(todo) \in [type : {"command"}, key : Keys]
      BY <1>1, <2>2, <3>2 DEF Created, DbRecord
    <3> QED
      BY <2>1, <3>1, <3>2 DEF Task
  <2> QED
    BY <2>1, <2>2, <2>3, DbRecordAssumption
<1> QED
  BY <1>1, <1>2

(* A sequence of one record, and a transition with its commands.           *)
LEMMA ShapeOfWork ==
  ASSUME NEW work \in on_sensor \cup on_clear_fire \cup on_button
  PROVE  /\ work \in Seq(Task) /\ work # <<>> /\ Head(work).type # "command"
         /\ \A i \in DOMAIN work : work[i].type = "command" =>
              /\ i > 1 => work[i - 1].type \in {"transition", "command"}
              /\ \A j \in DOMAIN work : j > i => work[j].type = "command" /\ work[j].key # work[i].key
<1> DEFINE n == Len(Scenario)
           p == Push("sensor", NoKey)
           t == Push("transition", NoKey)
           b == Push("button", NoKey)
<1>1. n \in Nat /\ DOMAIN Scenario = 1 .. n
  BY ScenarioAssumption
<1>2. /\ p \in Task /\ t \in Task /\ b \in Task
      /\ p.type = "sensor" /\ t.type = "transition" /\ b.type = "button"
  BY DEF Push, Task
<1>3. /\ Commands \in Seq(Task) /\ Len(Commands) = n
      /\ \A i \in 1 .. n : Commands[i].type = "command" /\ Commands[i].key = Scenario[i]
  <2>1. \A i \in 1 .. n : Push("command", Scenario[i]) \in Task
    BY <1>1 DEF Push, Task, Keys
  <2>2. Commands = [i \in 1 .. n |-> Push("command", Scenario[i])]
    BY <1>1 DEF Commands
  <2>3. Commands \in Seq(Task) /\ Len(Commands) = n
    BY <1>1, <2>1, <2>2
  <2> QED
    BY <2>2, <2>3 DEF Push
<1>4. \A i, j \in 1 .. n : i # j => Commands[i].key # Commands[j].key
  BY <1>1, <1>3, ScenarioAssumption
<1> HIDE DEF n, p, t, b
<1>5. /\ Transition \in Seq(Task) /\ Len(Transition) = n + 1 /\ Transition[1] = t
      /\ \A i \in 2 .. n + 1 : Transition[i] = Commands[i - 1]
  BY <1>1, <1>2, <1>3 DEF Transition, t
<1>6. CASE work = <<p>> \/ work = <<b>>
  <2>1. PICK x \in {p, b} : work = <<x>>
    BY <1>6
  <2>2. x \in Task /\ x.type # "command"
    BY <1>2, <2>1
  <2>3. work \in Seq(Task) /\ work # <<>> /\ Head(work) = x /\ \A i \in DOMAIN work : i = 1 /\ work[i] = x
    BY <2>1, <2>2
  <2> QED
    BY <2>2, <2>3
<1>7. CASE work = Transition
  <2>1. DOMAIN work = 1 .. n + 1 /\ work # <<>> /\ Head(work) = t
    BY <1>1, <1>5, <1>7
  <2>2. \A i \in DOMAIN work : work[i].type = "command" => i \in 2 .. n + 1
    BY <1>1, <1>2, <1>5, <1>7, <2>1
  <2>3. ASSUME NEW i \in 2 .. n + 1 PROVE work[i - 1].type \in {"transition", "command"}
    <3>1. CASE i = 2
      BY <1>2, <1>5, <1>7, <3>1
    <3>2. CASE i # 2
      <4>1. i - 1 \in 2 .. n + 1 /\ i - 2 \in 1 .. n /\ (i - 1) - 1 = i - 2
        BY <1>1, <3>2
      <4> QED
        BY <1>3, <1>5, <1>7, <4>1
    <3> QED
      BY <3>1, <3>2
  <2>4. ASSUME NEW i \in 2 .. n + 1, NEW j \in DOMAIN work, j > i
        PROVE  work[j].type = "command" /\ work[j].key # work[i].key
    <3>1. j \in 2 .. n + 1 /\ i - 1 \in 1 .. n /\ j - 1 \in 1 .. n /\ i - 1 # j - 1
      BY <1>1, <2>1, <2>4
    <3> QED
      BY <1>3, <1>4, <1>5, <1>7, <3>1
  <2> QED
    BY <1>2, <1>5, <1>7, <2>1, <2>2, <2>3, <2>4
<1>8. CASE work = <<p>> \o Transition
  <2>1. /\ work \in Seq(Task) /\ DOMAIN work = 1 .. n + 2 /\ work # <<>> /\ Head(work) = p /\ work[1] = p
        /\ work[2] = t /\ \A i \in 3 .. n + 2 : work[i] = Commands[i - 2]
    <3>1. work \in Seq(Task) /\ Len(work) = n + 2 /\ work[1] = p
          /\ \A i \in 2 .. n + 2 : work[i] = Transition[i - 1]
      BY <1>1, <1>2, <1>5, <1>8
    <3>2. DOMAIN work = 1 .. n + 2 /\ work # <<>> /\ Head(work) = work[1]
      BY <1>1, <3>1
    <3>3. work[2] = t
      BY <1>1, <1>5, <3>1
    <3>4. ASSUME NEW i \in 3 .. n + 2 PROVE work[i] = Commands[i - 2]
      <4>1. i \in 2 .. n + 2 /\ i - 1 \in 2 .. n + 1 /\ (i - 1) - 1 = i - 2
        BY <1>1
      <4> QED
        BY <1>5, <3>1, <4>1
    <3> QED
      BY <3>1, <3>2, <3>3, <3>4
  <2>2. \A i \in DOMAIN work : work[i].type = "command" => i \in 3 .. n + 2
    BY <1>1, <1>2, <2>1
  <2>3. ASSUME NEW i \in 3 .. n + 2 PROVE i > 1 /\ work[i - 1].type \in {"transition", "command"}
    <3>1. CASE i = 3
      BY <1>2, <2>1, <3>1
    <3>2. CASE i # 3
      <4>1. i - 1 \in 3 .. n + 2 /\ i - 3 \in 1 .. n /\ (i - 1) - 2 = i - 3
        BY <1>1, <3>2
      <4> QED
        BY <1>3, <2>1, <4>1
    <3> QED
      BY <3>1, <3>2
  <2>4. ASSUME NEW i \in 3 .. n + 2, NEW j \in DOMAIN work, j > i
        PROVE  work[j].type = "command" /\ work[j].key # work[i].key
    <3>1. j \in 3 .. n + 2 /\ i - 2 \in 1 .. n /\ j - 2 \in 1 .. n /\ i - 2 # j - 2
      BY <1>1, <2>1, <2>4
    <3> QED
      BY <1>3, <1>4, <2>1, <3>1
  <2> QED
    BY <1>2, <2>1, <2>2, <2>3, <2>4
<1> QED
  BY <1>6, <1>7, <1>8 DEF on_sensor, on_clear_fire, on_button, p, b

LEMMA ShapeOfTail ==
  ASSUME todo \in Seq(Task), todo # <<>>, TodoShape, todo' = Tail(todo)
  PROVE  /\ TodoShape'
         /\ todo' # <<>> /\ Head(todo').type = "command" => Head(todo).type \in {"transition", "command"}
         /\ \A j \in DOMAIN todo' : j + 1 \in DOMAIN todo /\ todo'[j] = todo[j + 1]
         /\ Head(todo).type = "command" =>
              \A j \in DOMAIN todo' : todo'[j].key # Head(todo).key
<1>1. /\ DOMAIN todo = 1 .. Len(todo) /\ Len(todo) \in Nat \ {0} /\ Head(todo) = todo[1]
      /\ DOMAIN todo' = 1 .. Len(todo) - 1 /\ (todo' # <<>> => Head(todo') = todo'[1] /\ 1 \in DOMAIN todo')
      /\ \A j \in DOMAIN todo' : j + 1 \in DOMAIN todo /\ todo'[j] = todo[j + 1]
  OBVIOUS
<1>2. ASSUME NEW i \in DOMAIN todo', todo'[i].type = "command"
      PROVE  /\ i > 1 => todo'[i - 1].type \in {"transition", "command"}
             /\ \A j \in DOMAIN todo' : j > i => todo'[j].type = "command" /\ todo'[j].key # todo'[i].key
  <2>1. /\ i + 1 \in DOMAIN todo /\ todo[i + 1].type = "command" /\ todo'[i] = todo[i + 1] /\ i \in Nat
        /\ i + 1 > 1 /\ (i + 1) - 1 = i
    BY <1>1, <1>2
  <2>2. i > 1 => todo'[i - 1] = todo[i]
    <3>1. i > 1 => i - 1 \in DOMAIN todo' /\ (i - 1) + 1 = i
      BY <1>1
    <3> QED
      BY <1>1, <3>1
  <2>3. todo[i].type \in {"transition", "command"}
    BY <2>1 DEF TodoShape
  <2>4. ASSUME NEW j \in DOMAIN todo', j > i PROVE todo'[j].type = "command" /\ todo'[j].key # todo'[i].key
    <3>1. j + 1 \in DOMAIN todo /\ todo'[j] = todo[j + 1] /\ j + 1 > i + 1
      BY <1>1, <2>4
    <3> QED
      BY <2>1, <3>1 DEF TodoShape
  <2> QED
    BY <2>2, <2>3, <2>4
<1>3. ASSUME todo' # <<>>, Head(todo').type = "command" PROVE Head(todo).type \in {"transition", "command"}
  <2>1. 2 \in DOMAIN todo /\ todo[2].type = "command" /\ 2 > 1 /\ 2 - 1 = 1
    BY <1>1, <1>3
  <2> QED
    BY <1>1, <2>1 DEF TodoShape
<1>4. ASSUME Head(todo).type = "command", NEW j \in DOMAIN todo' PROVE todo'[j].key # Head(todo).key
  <2>1. 1 \in DOMAIN todo /\ j + 1 \in DOMAIN todo /\ todo'[j] = todo[j + 1] /\ j + 1 > 1
    BY <1>1, <1>4
  <2> QED
    BY <1>1, <1>4, <2>1 DEF TodoShape
<1> QED
  BY <1>1, <1>2, <1>3, <1>4 DEF TodoShape

-----------------------------------------------------------------------------
(* Where the records are, and how many are nowhere.                        *)

LEMMA IdMoves ==
  ASSUME NEW R, NEW q \in Seq(R), NEW r
  PROVE  /\ Ids(Append(q, r)) = Ids(q) \cup {r.id}
         /\ OnceEach(q) /\ r.id \notin Ids(q) => OnceEach(Append(q, r))
         /\ q # <<>> => /\ Tail(q) \in Seq(R) /\ Ids(q) = Ids(Tail(q)) \cup {Head(q).id}
                        /\ OnceEach(q) => OnceEach(Tail(q)) /\ Head(q).id \notin Ids(Tail(q))
<1> DEFINE s == Append(q, r)
           t == Tail(q)
<1>1. /\ Len(q) \in Nat /\ DOMAIN q = 1 .. Len(q) /\ DOMAIN s = 1 .. Len(q) + 1
      /\ s[Len(q) + 1] = r /\ \A i \in 1 .. Len(q) : s[i] = q[i]
  OBVIOUS
<1>2. q # <<>> => /\ t \in Seq(R) /\ DOMAIN t = 1 .. Len(q) - 1 /\ Head(q) = q[1] /\ Len(q) >= 1
                  /\ \A i \in 1 .. Len(q) - 1 : t[i] = q[i + 1]
  OBVIOUS
<1> HIDE DEF s, t
<1>3. Ids(s) = Ids(q) \cup {r.id}
  BY <1>1 DEF Ids
<1>4. OnceEach(q) /\ r.id \notin Ids(q) => OnceEach(s)
  BY <1>1 DEF OnceEach, Ids
<1>5. ASSUME q # <<>> PROVE Ids(q) = Ids(t) \cup {Head(q).id}
  <2>1. \A i \in DOMAIN q : i = 1 \/ (i - 1 \in DOMAIN t /\ t[i - 1] = q[i])
    BY <1>1, <1>2, <1>5
  <2>2. \A i \in DOMAIN t : i + 1 \in DOMAIN q /\ t[i] = q[i + 1]
    BY <1>1, <1>2, <1>5
  <2>3. 1 \in DOMAIN q /\ Head(q) = q[1]
    BY <1>1, <1>2, <1>5
  <2> QED
    BY <2>1, <2>2, <2>3 DEF Ids
<1>6. ASSUME q # <<>>, OnceEach(q) PROVE OnceEach(t) /\ Head(q).id \notin Ids(t)
  <2>1. \A i \in DOMAIN t : i \in Nat \ {0} /\ i + 1 \in DOMAIN q /\ t[i] = q[i + 1] /\ i + 1 # 1
    BY <1>1, <1>2, <1>6
  <2>2. 1 \in DOMAIN q /\ Head(q) = q[1]
    BY <1>1, <1>2, <1>6
  <2>3. Head(q).id \notin Ids(t)
    BY <1>6, <2>1, <2>2 DEF OnceEach, Ids
  <2>4. OnceEach(t)
    BY <1>6, <2>1 DEF OnceEach
  <2> QED
    BY <2>3, <2>4
<1> QED
  BY <1>2, <1>3, <1>4, <1>5, <1>6 DEF s, t

(* A push adds its record, and a full queue gives up one.                  *)
LEMMA PushedIds ==
  ASSUME NEW R, NEW q \in Seq(R), NEW r, NEW q2, NEW d, NEW d2, OnceEach(q), r.id \notin Ids(q),
         Pushed(q, d, r, q2, d2)
  PROVE  /\ OnceEach(q2)
         /\ \/ Ids(q2) = Ids(q) \cup {r.id} /\ d2 = d
            \/ \E x \in Ids(q) : Ids(q2) = (Ids(q) \ {x}) \cup {r.id} /\ d2 = d + 1
<1>1. CASE q2 = Append(q, r) /\ d2 = d
  BY <1>1, IdMoves
<1>2. CASE q # <<>> /\ q2 = Append(Tail(q), r) /\ d2 = d + 1
  <2> DEFINE t == Tail(q)
             x == Head(q).id
  <2>1. t \in Seq(R) /\ Ids(q) = Ids(t) \cup {x} /\ OnceEach(t) /\ x \notin Ids(t)
    BY <1>2, IdMoves
  <2> HIDE DEF t, x
  <2>2. Ids(q2) = Ids(t) \cup {r.id} /\ OnceEach(q2)
    <3>1. q2 = Append(t, r) /\ r.id \notin Ids(t)
      BY <1>2, <2>1 DEF t
    <3> QED
      BY <2>1, <3>1, IdMoves
  <2>3. x \in Ids(q) /\ Ids(q2) = (Ids(q) \ {x}) \cup {r.id}
    BY <2>1, <2>2
  <2> QED
    BY <1>2, <2>2, <2>3
<1> QED
  BY <1>1, <1>2 DEF Pushed

LEMMA OneMore ==
  ASSUME NEW n \in Nat, NEW M \in SUBSET (1 .. n)
  PROVE  /\ Cardinality(M) \in Nat
         /\ \A x : x \notin M => Cardinality(M \cup {x}) = Cardinality(M) + 1
<1>1. IsFiniteSet(M)
  <2>1. IsFiniteSet(1 .. n)
    BY FS_Interval
  <2> QED
    BY <2>1, FS_Subset
<1> QED
  BY <1>1, FS_CardinalityType, FS_AddElement

LEMMA PushKeepsCount ==
  ASSUME CallbackInv, HeldOnce, EveryRecordAccounted, TypeOK', db_write
  PROVE  HeldOnce' /\ EveryRecordAccounted'
<1>1. /\ db_queue_push(Created) /\ Created \in Rec /\ Created.id = pushed + 1 /\ pushed' = pushed + 1 /\ pushed \in Nat
      /\ UNCHANGED <<use_pg, writerVars>>
  <2>1. todo # <<>>
    BY DEF db_write
  <2>2. Created.id = pushed + 1
    BY DEF Created
  <2> QED
    BY <2>1, <2>2, TodoFacts DEF db_write, Created
<1>2. Written' = Written /\ InHand' = InHand
  BY <1>1 DEF Written, InHand, db_queue_push, Woken, writerVars
<1>3. /\ Cycles \in Seq(Rec) /\ Events \in Seq(Rec)
      /\ sensor_ring.dropped \in Nat /\ event_ring.dropped \in Nat
      /\ Queued = Ids(Cycles) \cup Ids(Events) /\ Queued' = Ids(Cycles') \cup Ids(Events')
  <2>1. TypeOK
    BY TodoFacts
  <2>2. Queued' = Ids(Cycles') \cup Ids(Events')
    BY RingFactsNext
  <2> QED
    BY <2>1, <2>2, RingFacts
<1> DEFINE A == Ids(Cycles)
           B == Ids(Events)
           A2 == Ids(Cycles')
           B2 == Ids(Events')
           W == Written
           H == InHand
           n == pushed + 1
           s == sensor_ring.dropped
           e == event_ring.dropped
           s2 == sensor_ring'.dropped
           e2 == event_ring'.dropped
<1>4. /\ A \cup B \cup H \cup W \subseteq 1 .. pushed /\ n \notin A \cup B \cup H \cup W
      /\ A \cap B = {} /\ H \cap (A \cup B) = {} /\ W \cap (A \cup B \cup H) = {}
      /\ OnceEach(Cycles) /\ OnceEach(Events)
  BY <1>1, <1>3 DEF HeldOnce, Held
<1>5. \/ B2 = B /\ e2 = e /\ OnceEach(Cycles') /\ OnceEach(Events') /\
           (\/ A2 = A \cup {n} /\ s2 = s
            \/ \E x \in A : A2 = (A \ {x}) \cup {n} /\ s2 = s + 1)
      \/ A2 = A /\ s2 = s /\ OnceEach(Cycles') /\ OnceEach(Events') /\
           (\/ B2 = B \cup {n} /\ e2 = e
            \/ \E x \in B : B2 = (B \ {x}) \cup {n} /\ e2 = e + 1)
  <2>1. TypeOK
    BY TodoFacts
  <2>2. CASE /\ Events' = Events /\ e2 = e
             /\ Pushed(Cycles, s, Created, Cycles', s2)
    <3>1. Created.id \notin A
      BY <1>1, <1>4
    <3>2. OnceEach(Cycles') /\ (\/ A2 = A \cup {n} /\ s2 = s
                               \/ \E x \in A : A2 = (A \ {x}) \cup {n} /\ s2 = s + 1)
      BY <1>1, <1>3, <1>4, <2>2, <3>1, PushedIds
    <3> QED
      BY <1>4, <2>2, <3>2
  <2>3. CASE /\ Cycles' = Cycles /\ s2 = s
             /\ Pushed(Events, e, Created, Events', e2)
    <3>1. Created.id \notin B
      BY <1>1, <1>4
    <3>2. OnceEach(Events') /\ (\/ B2 = B \cup {n} /\ e2 = e
                               \/ \E x \in B : B2 = (B \ {x}) \cup {n} /\ e2 = e + 1)
      BY <1>1, <1>3, <1>4, <2>3, <3>1, PushedIds
    <3> QED
      BY <1>4, <2>3, <3>2
  <2> QED
    BY <1>1, <2>1, <2>2, <2>3, PushMoves
<1>6. /\ Missing = (1 .. pushed) \ (A \cup B \cup H \cup W)
      /\ Missing' = (1 .. n) \ (A2 \cup B2 \cup H \cup W)
      /\ Held' = A2 \cup B2 \cup H \cup W
  BY <1>1, <1>2, <1>3 DEF Missing, Held
<1>7. /\ \A y : y \in 1 .. n <=> y \in 1 .. pushed \/ y = n
      /\ n \notin 1 .. pushed /\ n \in Nat
  BY <1>1
<1>8. HeldOnce'
  <2>1. /\ A2 \cup B2 \cup H \cup W \subseteq 1 .. n
        /\ A2 \cap B2 = {} /\ H \cap (A2 \cup B2) = {} /\ W \cap (A2 \cup B2 \cup H) = {}
        /\ OnceEach(Cycles') /\ OnceEach(Events')
    <3> HIDE DEF A, B, A2, B2, W, H, n, s, e, s2, e2
    <3> QED
      BY <1>4, <1>5, <1>7
  <2> QED
    BY <1>1, <1>2, <1>3, <1>6, <2>1 DEF HeldOnce
<1>9. \/ Missing' = Missing /\ s2 = s /\ e2 = e
      \/ \E x : x \notin Missing /\ Missing' = Missing \cup {x}
                /\ ((s2 = s + 1 /\ e2 = e) \/ (s2 = s /\ e2 = e + 1))
  <2>1. Missing \subseteq 1 .. pushed
    BY <1>6
  <2> DEFINE M == Missing
             M2 == Missing'
  <2>2. M = (1 .. pushed) \ (A \cup B \cup H \cup W) /\ M2 = (1 .. n) \ (A2 \cup B2 \cup H \cup W)
    BY <1>6
  <2> HIDE DEF A, B, A2, B2, W, H, n, s, e, s2, e2, M, M2
  <2>3. CASE ((A2 = A \cup {n} /\ B2 = B) \/ (A2 = A /\ B2 = B \cup {n})) /\ s2 = s /\ e2 = e
    <3>1. M2 = M
      BY <1>4, <1>7, <2>2, <2>3
    <3> QED
      BY <2>3, <3>1 DEF M, M2
  <2>4. ASSUME NEW x \in A, A2 = (A \ {x}) \cup {n}, B2 = B, s2 = s + 1, e2 = e
        PROVE  x \notin M /\ M2 = M \cup {x}
    BY <1>4, <1>7, <2>2, <2>4
  <2>5. ASSUME NEW x \in B, B2 = (B \ {x}) \cup {n}, A2 = A, s2 = s, e2 = e + 1
        PROVE  x \notin M /\ M2 = M \cup {x}
    BY <1>4, <1>7, <2>2, <2>5
  <2> QED
    BY <1>5, <2>3, <2>4, <2>5 DEF M, M2
<1>10. EveryRecordAccounted'
  <2> DEFINE m == Cardinality(Missing)
             m2 == Cardinality(Missing')
  <2>1. Missing \in SUBSET (1 .. pushed)
    BY <1>6
  <2>2. /\ m \in Nat
        /\ \/ m2 = m /\ s2 = s /\ e2 = e
           \/ m2 = m + 1 /\ ((s2 = s + 1 /\ e2 = e) \/ (s2 = s /\ e2 = e + 1))
    <3>1. m \in Nat /\ \A x : x \notin Missing => Cardinality(Missing \cup {x}) = m + 1
      BY <1>1, <2>1, OneMore
    <3> QED
      BY <1>9, <3>1
  <2>3. s \in Nat /\ e \in Nat /\ m >= s + e /\ (e = 0 => m + AtStake <= s + 2 * failures)
    BY <1>3 DEF EveryRecordAccounted
  <2>4. AtStake' = AtStake /\ AtStake \in Nat /\ failures' = failures /\ failures \in Nat
    BY <1>1, TodoFacts DEF AtStake, writerVars
  <2> HIDE DEF m, m2, s, e, s2, e2
  <2>5. m2 >= s2 + e2 /\ (e2 = 0 => m2 + AtStake <= s2 + 2 * failures)
    BY <2>2, <2>3, <2>4
  <2> QED
    BY <2>4, <2>5 DEF EveryRecordAccounted, m, m2, s2, e2
<1> QED
  BY <1>8, <1>10

LEMMA QuietSteps ==
  ASSUME UNCHANGED <<rings, rec, pushed, scene, use_pg, writerVars>>, Busy' = Busy
  PROVE  /\ HeldOnce => HeldOnce'
         /\ EveryRecordAccounted => EveryRecordAccounted'
         /\ OrderInv => OrderInv'
         /\ LinesInv => LinesInv'
         /\ LiveCommands' = LiveCommands /\ Cycles' = Cycles /\ Events' = Events
<1>1. /\ sensor_ring' = sensor_ring /\ event_ring' = event_ring /\ rec' = rec /\ pushed' = pushed /\ scene' = scene
      /\ use_pg' = use_pg /\ pg' = pg /\ jsonl' = jsonl /\ last_event_id' = last_event_id /\ conn' = conn
      /\ torn' = torn /\ failures' = failures
      /\ (workerAt' = "writing" <=> workerAt = "writing")
  BY DEF rings, writerVars, Busy
<1>2. /\ Queued' = Queued /\ InHand' = InHand /\ Written' = Written /\ Cycles' = Cycles /\ Events' = Events
      /\ Attached' = Attached /\ CommandRows' = CommandRows /\ CommandLines' = CommandLines
  BY <1>1 DEF Queued, InHand, Written, Cycles, Events, Attached, CommandRows, CommandLines
<1>3. HeldOnce => HeldOnce'
  BY <1>1, <1>2 DEF HeldOnce, Held
<1>4. EveryRecordAccounted => EveryRecordAccounted'
  <2>1. Missing' = Missing /\ AtStake' = AtStake
    BY <1>1, <1>2 DEF Missing, AtStake
  <2> QED
    BY <1>1, <2>1 DEF EveryRecordAccounted
<1>5. OrderInv => OrderInv'
  <2>1. Order => Order'
    BY <1>1, <1>2 DEF Order, Busy
  <2> QED
    BY <1>1, <1>2, <2>1 DEF OrderInv
<1>6. LiveCommands' = LiveCommands
  BY <1>1, <1>2 DEF LiveCommands, Busy
<1>7. LinesInv => LinesInv'
  <2>1. Seen' = Seen
    BY <1>1, <1>2 DEF Seen, Busy
  <2>2. Between => Between'
    BY <2>1 DEF Between
  <2>3. Rising => Rising'
    BY <1>1, <1>2 DEF Rising, Busy
  <2> QED
    BY <1>1, <2>1, <2>2, <2>3 DEF LinesInv
<1> QED
  BY <1>2, <1>3, <1>4, <1>5, <1>6, <1>7

LEMMA PopKeepsCount ==
  ASSUME CallbackInv, HeldOnce, EveryRecordAccounted, TypeOK', Pop
  PROVE  HeldOnce' /\ EveryRecordAccounted'
<1>1. TypeOK /\ db_queue_pop /\ UNCHANGED <<callback, use_pg, writerVars>>
  BY TodoFacts DEF Pop
<1>2. /\ Written' = Written /\ pushed' = pushed /\ ~ Busy
      /\ sensor_ring'.dropped = sensor_ring.dropped /\ event_ring'.dropped = event_ring.dropped
  BY <1>1, PopMoves DEF Written, writerVars, callback
<1>3. /\ Cycles \in Seq(Rec) /\ Events \in Seq(Rec)
      /\ Queued = Ids(Cycles) \cup Ids(Events) /\ Queued' = Ids(Cycles') \cup Ids(Events')
  BY <1>1, RingFacts, RingFactsNext
<1>4. InHand = {}
  BY <1>2 DEF InHand, Busy
<1>5. CASE Cycles' = Cycles /\ Events' = Events /\ ~ Busy' /\ UNCHANGED <<rings, rec>>
  <2>1. Busy' = Busy
    BY <1>2, <1>5 DEF Busy
  <2> QED
    BY <1>1, <1>5, <2>1, QuietSteps DEF callback
<1>6. ASSUME Busy', Held' = Held, HeldOnce' PROVE EveryRecordAccounted'
  <2>1. Missing' = Missing
    BY <1>2, <1>6 DEF Missing, Held
  <2>2. AtStake' = AtStake /\ failures' = failures
    BY <1>1 DEF AtStake, writerVars
  <2> QED
    BY <1>2, <2>1, <2>2 DEF EveryRecordAccounted
<1>7. Busy' => InHand' = {rec'.id}
  BY DEF Busy, InHand
<1>8. CASE PoppedEvent /\ Busy'
  <2>1. /\ Ids(Events) = Ids(Events') \cup {rec'.id} /\ rec'.id \notin Ids(Events') /\ OnceEach(Events')
        /\ Cycles' = Cycles
    BY <1>3, <1>8, IdMoves DEF PoppedEvent, HeldOnce
  <2>2. Held' = Held /\ HeldOnce'
    BY <1>2, <1>3, <1>4, <1>7, <1>8, <2>1 DEF HeldOnce, Held
  <2> QED
    BY <1>6, <1>8, <2>2
<1>9. CASE PoppedCycle /\ Busy'
  <2>1. /\ Ids(Cycles) = Ids(Cycles') \cup {rec'.id} /\ rec'.id \notin Ids(Cycles') /\ OnceEach(Cycles')
        /\ Events' = Events
    BY <1>3, <1>9, IdMoves DEF PoppedCycle, HeldOnce
  <2>2. Held' = Held /\ HeldOnce'
    BY <1>2, <1>3, <1>4, <1>7, <1>9, <2>1 DEF HeldOnce, Held
  <2> QED
    BY <1>6, <1>9, <2>2
<1> QED
  BY <1>1, <1>5, <1>8, <1>9, PopMoves

(* The only record a write lets vanish is a command whose event has a row  *)
(* for its key, and there is none while the event ring drops nothing.      *)
LEMMA NoConflict ==
  ASSUME HeldOnce, KeysOnce, OrderInv, event_ring.dropped = 0, Busy, rec.type = "command", Attached # 0
  PROVE  ~ Conflict(Attached)
<1> SUFFICES ASSUME NEW r \in pg, r.rec.type = "command", r.event = Attached, r.rec.key = rec.key
             PROVE  FALSE
  BY DEF Conflict
<1>1. r.rec.own = Attached
  BY DEF OrderInv, CommandRows
<1>2. rec.own = Attached
  BY DEF OrderInv, Order
<1>3. r.rec \in LiveCommands /\ rec \in LiveCommands
  BY DEF LiveCommands
<1>4. r.rec.id = rec.id
  BY <1>1, <1>2, <1>3 DEF KeysOnce
<1>5. r.rec.id \in Written /\ rec.id \in InHand
  BY DEF Written, InHand, Busy
<1> QED
  BY <1>4, <1>5 DEF HeldOnce

(* What an append may cost is what the failures allow.                     *)
LEMMA AppendCost ==
  ASSUME NEW m \in Nat, NEW m2, NEW s \in Nat, NEW e \in Nat, NEW f \in Nat, NEW f2,
         NEW a \in 0 .. 1, NEW a2 \in 0 .. 1,
         m >= s + e, e = 0 => m + a <= s + 2 * f, m2 = m \/ m2 = m + 1,
         \/ m2 = m /\ f2 = f /\ a2 = a
         \/ f2 = f /\ a = a2 + 1
         \/ f2 = f + 1
  PROVE  m2 >= s + e /\ (e = 0 => m2 + a2 <= s + 2 * f2)
OBVIOUS

LEMMA WriteKeepsCount ==
  ASSUME CallbackInv, HeldOnce, KeysOnce, OrderInv, EveryRecordAccounted, Write
  PROVE  HeldOnce' /\ EveryRecordAccounted'
<1>1. /\ Busy /\ workerAt' = "popping" /\ UNCHANGED <<rings, shutting_down, rec, callback, use_pg>>
      /\ \/ pg' = pg
         \/ pg' = pg \cup {Row(RowEvent)}
      /\ jsonl' \in {jsonl, Append(jsonl, rec)}
      /\ \/ Appended
         \/ UNCHANGED file /\ pg' = pg \cup {Row(RowEvent)}
         \/ UNCHANGED file /\ rec.type = "command" /\ Attached # 0 /\ Conflict(Attached)
      /\ torn' \in BOOLEAN /\ failures' \in 0 .. MaxFailures
  <2>1. /\ conn \in {"none", "ok", "bad"} /\ (conn = "none" => last_event_id = 0)
        /\ (~ use_pg => conn = "none") /\ torn \in BOOLEAN /\ failures \in 0 .. MaxFailures
    BY TodoFacts DEF CallbackInv
  <2> QED
    BY <2>1, WriteMoves
<1>2. jsonl \in Seq(Rec) /\ pushed \in Nat
  BY TodoFacts
<1>3. /\ Queued' = Queued /\ InHand = {rec.id} /\ InHand' = {} /\ pushed' = pushed
      /\ Cycles' = Cycles /\ Events' = Events
      /\ sensor_ring' = sensor_ring /\ event_ring' = event_ring
  BY <1>1 DEF Queued, InHand, Busy, rings, callback, Cycles, Events
<1>4. /\ Row(RowEvent).rec = rec
      /\ Ids(Append(jsonl, rec)) = Ids(jsonl) \cup {rec.id}
      /\ Written = {r.rec.id : r \in pg} \cup Ids(jsonl)
      /\ Written' = {r.rec.id : r \in pg'} \cup Ids(jsonl')
  BY <1>2, IdMoves DEF Row, Written, Ids
<1>5. {r.rec.id : r \in pg \cup {Row(RowEvent)}} = {r.rec.id : r \in pg} \cup {rec.id}
  BY <1>4
<1>6. Written' \in {Written, Written \cup {rec.id}}
  BY <1>1, <1>4, <1>5
<1>7. HeldOnce'
  BY <1>3, <1>6 DEF HeldOnce, Held
<1> DEFINE m == Cardinality(Missing)
           m2 == Cardinality(Missing')
           s == sensor_ring.dropped
           e == event_ring.dropped
<1>8. /\ m \in Nat /\ s \in Nat /\ e \in Nat /\ failures \in Nat /\ AtStake \in 0 .. 1 /\ AtStake' \in 0 .. 1
      /\ m >= s + e /\ (e = 0 => m + AtStake <= s + 2 * failures)
  <2>1. Missing \in SUBSET (1 .. pushed)
    BY DEF Missing
  <2>2. m \in Nat
    BY <1>2, <2>1, OneMore
  <2> QED
    <3>1. AtStake \in 0 .. 1 /\ AtStake' \in 0 .. 1
      BY DEF AtStake
    <3> QED
      BY <2>2, <3>1, TodoFacts, RingFacts DEF EveryRecordAccounted
<1>9. /\ Written' = Written \cup {rec.id} => m2 = m
      /\ Written' = Written => m2 = m + 1 \/ m2 = m
  <2>1. rec.id \in 1 .. pushed /\ rec.id \notin Queued /\ rec.id \notin Written
    BY <1>3 DEF HeldOnce, Held
  <2>2. Written' = Written \cup {rec.id} => Missing' = Missing
    BY <1>3 DEF Missing
  <2>3. Written' = Written => rec.id \notin Missing /\ Missing' = Missing \cup {rec.id}
    BY <1>3, <2>1 DEF Missing
  <2>4. Missing \in SUBSET (1 .. pushed)
    BY DEF Missing
  <2> QED
    BY <1>2, <2>2, <2>3, <2>4, OneMore
<1>10. EveryRecordAccounted' <=> m2 >= s + e /\ (e = 0 => m2 + AtStake' <= s + 2 * failures')
  BY <1>3 DEF EveryRecordAccounted
<1>11. CASE Appended
  <2>1. jsonl' = Append(jsonl, rec) => Written' = Written \cup {rec.id}
    BY <1>1, <1>4, <1>5
  <2>2. m2 = m \/ m2 = m + 1
    BY <1>6, <1>9
  <2>3. \/ m2 = m /\ failures' = failures /\ AtStake' = AtStake
        \/ failures' = failures /\ AtStake = AtStake' + 1
        \/ failures' = failures + 1
    BY <1>9, <1>11, <2>1 DEF Appended
  <2> HIDE DEF m, m2, s, e
  <2>4. m2 >= s + e /\ (e = 0 => m2 + AtStake' <= s + 2 * failures')
    BY <1>8, <2>2, <2>3, AppendCost
  <2> QED
    BY <1>7, <1>10, <2>4
<1>12. CASE UNCHANGED file /\ pg' = pg \cup {Row(RowEvent)}
  <2>1. Written' = Written \cup {rec.id}
    BY <1>4, <1>5, <1>12 DEF file
  <2>2. AtStake' = AtStake /\ failures' = failures
    BY <1>12 DEF file, AtStake
  <2> QED
    BY <1>7, <1>8, <1>9, <1>10, <2>1, <2>2
<1>13. CASE UNCHANGED file /\ rec.type = "command" /\ Attached # 0 /\ Conflict(Attached)
  <2>1. e # 0
    BY <1>1, <1>13, NoConflict
  <2>2. m2 = m \/ m2 = m + 1
    BY <1>6, <1>9
  <2> HIDE DEF m, m2, s, e
  <2> QED
    BY <1>7, <1>8, <1>10, <2>1, <2>2
<1> QED
  BY <1>1, <1>11, <1>12, <1>13

-----------------------------------------------------------------------------
(* Commands behind their transition.                                       *)

LEMMA PushKeepsOrder ==
  ASSUME CallbackInv, OrderInv, db_write
  PROVE  OrderInv'
<1>1. /\ db_queue_push(Created) /\ Created \in Rec /\ pushed' = pushed + 1 /\ pushed \in Nat
      /\ scene' = (IF Created.type = "transition" THEN Created.id ELSE scene)
      /\ (Created.type = "command" => Created.own = scene)
      /\ UNCHANGED <<use_pg, writerVars>>
  <2>1. todo # <<>>
    BY DEF db_write
  <2>2. Created.type = Head(todo).type /\ Created.id = pushed + 1
        /\ (Created.type = "command" => Created.own = scene)
    BY DEF Created
  <2> QED
    BY <2>1, <2>2, TodoFacts DEF db_write, Created
<1>2. /\ use_pg' = use_pg /\ pg' = pg /\ jsonl' = jsonl /\ last_event_id' = last_event_id /\ conn' = conn
      /\ rec' = rec /\ (Busy' <=> Busy) /\ Attached' = Attached
      /\ CommandRows' = CommandRows /\ CommandLines' = CommandLines
  BY <1>1 DEF writerVars, db_queue_push, Woken, Busy, Attached, CommandRows, CommandLines
<1>3. TypeOK /\ Events \in Seq(Rec) /\ event_ring.dropped \in Nat
  BY TodoFacts, RingFacts
<1> SUFFICES ASSUME event_ring'.dropped = 0 PROVE OrderInv'
  BY DEF OrderInv
<1>4. /\ event_ring.dropped = 0
      /\ \/ Events' = Events /\ Created.type = "sensor"
         \/ Events' = Append(Events, Created)
  <2>1. CASE /\ Created.type = "sensor" /\ Events' = Events /\ event_ring'.dropped = event_ring.dropped
    BY <2>1
  <2>2. CASE Pushed(Events, event_ring.dropped, Created, Events', event_ring'.dropped)
    BY <1>3, <2>2 DEF Pushed
  <2> QED
    BY <1>1, <1>3, <2>1, <2>2, PushMoves
<1>5. PICK w \in 0 .. pushed :
        /\ Chained(w, Events, scene)
        /\ Busy /\ rec.type = "transition" => w = rec.id
        /\ Busy /\ rec.type = "command" => w = rec.own
        /\ ~ (Busy /\ rec.type = "transition") => (Attached # 0 => w = Attached)
  BY <1>4 DEF OrderInv, Order
<1>6. Chained(w, Events', scene')
  <2>1. CASE Events' = Events /\ Created.type = "sensor"
    BY <1>1, <1>5, <2>1
  <2>2. CASE Events' = Append(Events, Created)
    BY <1>1, <1>3, <1>5, <2>2, ChainAppend
  <2> QED
    BY <1>4, <2>1, <2>2
<1>7. w \in 0 .. pushed'
  BY <1>1
<1>8. Order'
  BY <1>2, <1>5, <1>6, <1>7 DEF Order
<1> QED
  BY <1>2, <1>4, <1>8 DEF OrderInv

LEMMA PopKeepsOrder ==
  ASSUME CallbackInv, HeldOnce, OrderInv, Pop
  PROVE  OrderInv'
<1>1. TypeOK /\ db_queue_pop /\ UNCHANGED <<callback, use_pg, writerVars>>
      /\ Events \in Seq(Rec) /\ Cycles \in Seq(Rec) /\ pushed \in Nat
  BY TodoFacts, RingFacts DEF Pop
<1>2. /\ ~ Busy /\ event_ring'.dropped = event_ring.dropped
      /\ pushed' = pushed /\ scene' = scene /\ use_pg' = use_pg /\ pg' = pg /\ jsonl' = jsonl
      /\ Attached' = Attached /\ CommandRows' = CommandRows /\ CommandLines' = CommandLines
  BY <1>1, PopMoves DEF writerVars, callback, Attached, CommandRows, CommandLines
<1>3. CASE Cycles' = Cycles /\ Events' = Events /\ ~ Busy' /\ UNCHANGED <<rings, rec>>
  <2>1. Busy' = Busy
    BY <1>2, <1>3 DEF Busy
  <2> QED
    BY <1>1, <1>3, <2>1, QuietSteps DEF callback
<1> SUFFICES ASSUME event_ring.dropped = 0, Busy', PoppedEvent \/ PoppedCycle PROVE OrderInv'
  BY <1>1, <1>2, <1>3, PopMoves DEF OrderInv
<1>4. PICK w \in 0 .. pushed :
        /\ Chained(w, Events, scene)
        /\ Attached # 0 => w = Attached
  BY <1>2 DEF OrderInv, Order
<1>5. CASE PoppedEvent
  <2> DEFINE x == IF rec'.type = "transition" THEN rec'.id ELSE w
  <2>1. Chained(x, Events', scene) /\ (rec'.type = "command" => rec'.own = w)
    BY <1>1, <1>4, <1>5, ChainTail DEF PoppedEvent
  <2>2. rec'.id \in Ids(Events)
    BY <1>1, <1>5, IdMoves DEF PoppedEvent
  <2>3. rec'.id \in 1 .. pushed
    BY <1>1, <2>2, RingFacts DEF HeldOnce, Held
  <2>4. x \in 0 .. pushed'
    BY <1>1, <1>2, <2>3
  <2>5. /\ rec'.type = "transition" => x = rec'.id
        /\ rec'.type = "command" => x = rec'.own
        /\ rec'.type # "transition" => x = w
    BY <2>1
  <2> HIDE DEF x
  <2>6. Order'
    BY <1>2, <1>4, <2>1, <2>4, <2>5 DEF Order
  <2> QED
    BY <1>2, <2>6 DEF OrderInv
<1>6. CASE PoppedCycle
  <2>1. rec'.type = "sensor"
    <3>1. 1 \in DOMAIN Cycles /\ Head(Cycles) = Cycles[1]
      BY <1>1, <1>6 DEF PoppedCycle
    <3> QED
      BY <1>6, <3>1 DEF PoppedCycle, CallbackInv
  <2>2. Events' = Events
    BY <1>6 DEF PoppedCycle
  <2>3. Order'
    BY <1>2, <1>4, <2>1, <2>2 DEF Order
  <2> QED
    BY <1>2, <2>3 DEF OrderInv
<1> QED
  BY <1>5, <1>6

LEMMA WriteKeepsOrder ==
  ASSUME CallbackInv, OrderInv, Write
  PROVE  OrderInv'
<1>1. /\ Busy /\ workerAt' = "popping" /\ UNCHANGED <<rings, shutting_down, rec, callback, use_pg>>
      /\ \/ pg' = pg
         \/ pg' = pg \cup {Row(RowEvent)} /\ (rec.type = "command" => Attached # 0)
      /\ Attached' \in {0, IF rec.type = "transition" THEN rec.id ELSE Attached}
  <2>1. /\ conn \in {"none", "ok", "bad"} /\ (conn = "none" => last_event_id = 0)
        /\ (~ use_pg => conn = "none") /\ torn \in BOOLEAN /\ failures \in 0 .. MaxFailures
    BY TodoFacts DEF CallbackInv
  <2> QED
    BY <2>1, WriteMoves
<1>2. jsonl \in Seq(Rec) /\ rec \in Rec
  BY TodoFacts
<1>3. /\ event_ring' = event_ring /\ Events' = Events /\ scene' = scene /\ pushed' = pushed
      /\ use_pg' = use_pg /\ rec' = rec /\ ~ Busy'
  BY <1>1 DEF rings, callback, Events, Busy
<1> SUFFICES ASSUME event_ring.dropped = 0 PROVE OrderInv'
  BY <1>3 DEF OrderInv
<1>4. PICK w \in 0 .. pushed :
        /\ Chained(w, Events, scene)
        /\ rec.type = "transition" => w = rec.id
        /\ rec.type = "command" => w = rec.own
        /\ rec.type # "transition" => (Attached # 0 => w = Attached)
  BY <1>1 DEF OrderInv, Order
<1>5. Attached' # 0 => w = Attached'
  BY <1>1, <1>4
<1>7. Order'
  BY <1>3, <1>4, <1>5 DEF Order
<1>8. ASSUME NEW r \in CommandRows' PROVE r.event = r.rec.own
  <2>1. CASE r \in pg
    BY <1>8, <2>1 DEF OrderInv, CommandRows
  <2>2. CASE r \notin pg
    <3>1. r = Row(RowEvent) /\ (rec.type = "command" => Attached # 0)
      BY <1>1, <1>8, <2>2 DEF CommandRows
    <3>2. r.rec = rec /\ rec.type = "command" /\ r.event = RowEvent
      BY <1>8, <3>1 DEF CommandRows, Row
    <3> QED
      BY <1>4, <3>1, <3>2 DEF RowEvent
  <2> QED
    BY <2>1, <2>2
<1> QED
  BY <1>3, <1>7, <1>8 DEF OrderInv

-----------------------------------------------------------------------------
(* The lines of the file, and what may still become one.                   *)

(* The comparable events lose some, or gain the one just pushed.           *)
LEMMA SeenKept ==
  ASSUME LinesInv, pushed \in Nat, scene \in 0 .. pushed, NEW C,
         \/ Seen' \subseteq Seen /\ pushed' \in {pushed, pushed + 1} /\ scene' = scene
         \/ /\ Seen' \subseteq Seen \cup {C} /\ pushed' = pushed + 1 /\ C.id = pushed + 1
            /\ scene' = (IF C.type = "transition" THEN C.id ELSE scene)
            /\ C.type = "command" => C.own = scene
  PROVE  /\ \A a \in Seen' : a.id \in 1 .. pushed'
         /\ \A t \in Seen' : t.type = "transition" => t.id <= scene'
         /\ Between'
<1>1. /\ \A a \in Seen : a.id \in 1 .. pushed
      /\ \A t \in Seen : t.type = "transition" => t.id <= scene
      /\ Between
  BY DEF LinesInv
<1>2. CASE Seen' \subseteq Seen /\ pushed' \in {pushed, pushed + 1} /\ scene' = scene
  <2>1. Between'
    BY <1>1, <1>2 DEF Between
  <2> QED
    BY <1>1, <1>2, <2>1
<1>3. CASE /\ Seen' \subseteq Seen \cup {C} /\ pushed' = pushed + 1 /\ C.id = pushed + 1
           /\ scene' = (IF C.type = "transition" THEN C.id ELSE scene)
           /\ C.type = "command" => C.own = scene
  <2>1. \A a \in Seen' : a.id \in 1 .. pushed'
    BY <1>1, <1>3
  <2>2. ASSUME NEW t \in Seen', t.type = "transition" PROVE t.id <= scene'
    <3>1. CASE t = C
      BY <1>3, <2>2, <3>1
    <3>2. CASE t \in Seen
      <4>1. t.id <= scene /\ t.id \in 1 .. pushed
        BY <1>1, <2>2, <3>2
      <4> QED
        BY <1>3, <4>1
    <3> QED
      BY <1>3, <3>1, <3>2
  <2>3. ASSUME NEW c \in Seen', c.type = "command"
        PROVE  /\ c.own \in Nat /\ c.own < c.id
               /\ \A t \in Seen' : t.type = "transition" => ~ (c.own < t.id /\ t.id < c.id)
    <3>1. CASE c = C
      <4>1. c.own = scene /\ c.id = pushed + 1 /\ scene' = scene
        BY <1>3, <2>3, <3>1
      <4>2. \A t \in Seen' : t.type = "transition" => t.id <= scene /\ t.id \in 1 .. pushed + 1
        BY <1>3, <2>1, <2>2, <4>1
      <4> QED
        BY <4>1, <4>2
    <3>2. CASE c \in Seen
      <4>1. /\ c.own \in Nat /\ c.own < c.id /\ c.id \in 1 .. pushed
            /\ \A t \in Seen : t.type = "transition" => ~ (c.own < t.id /\ t.id < c.id)
        BY <1>1, <2>3, <3>2 DEF Between
      <4>2. ~ (C.id < c.id)
        BY <1>3, <4>1
      <4> QED
        BY <1>3, <4>1, <4>2
    <3> QED
      BY <1>3, <3>1, <3>2
  <2> QED
    BY <2>1, <2>2, <2>3 DEF Between
<1> QED
  BY <1>2, <1>3

LEMMA PushKeepsLines ==
  ASSUME CallbackInv, LinesInv, db_write
  PROVE  LinesInv'
<1>1. /\ db_queue_push(Created) /\ Created \in Rec /\ pushed' = pushed + 1 /\ pushed \in Nat
      /\ scene \in 0 .. pushed /\ Created.id = pushed + 1
      /\ scene' = (IF Created.type = "transition" THEN Created.id ELSE scene)
      /\ (Created.type = "command" => Created.own = scene)
      /\ UNCHANGED <<use_pg, writerVars>>
  <2>1. todo # <<>>
    BY DEF db_write
  <2>2. Created.type = Head(todo).type /\ Created.id = pushed + 1
        /\ (Created.type = "command" => Created.own = scene)
    BY DEF Created
  <2> QED
    BY <2>1, <2>2, TodoFacts DEF db_write, Created
<1>2. jsonl' = jsonl /\ rec' = rec /\ (Busy' <=> Busy)
  BY <1>1 DEF writerVars, db_queue_push, Woken, Busy
<1>3. TypeOK /\ Events \in Seq(Rec)
  BY TodoFacts, RingFacts
<1>4. Events' = Events \/ Events' = Append(Events, Created)
        \/ (Events # <<>> /\ Events' = Append(Tail(Events), Created))
  BY <1>1, <1>3, PushMoves DEF Pushed
<1>5. CASE Events' = Events
  <2>1. Seen' = Seen
    BY <1>2, <1>5 DEF Seen
  <2>2. Rising'
    BY <1>2, <1>5 DEF LinesInv, Rising
  <2>3. /\ \A a \in Seen' : a.id \in 1 .. pushed'
        /\ \A t \in Seen' : t.type = "transition" => t.id <= scene'
        /\ Between'
    <3>1. \A a \in Seen : a.id \in 1 .. pushed
      BY DEF LinesInv
    <3>2. \A t \in Seen : t.type = "transition" => t.id <= scene'
      BY <1>1, <3>1 DEF LinesInv
    <3>3. Between'
      BY <2>1 DEF LinesInv, Between
    <3> QED
      BY <1>1, <2>1, <3>1, <3>2, <3>3
  <2> QED
    BY <1>2, <2>2, <2>3 DEF LinesInv
<1>6. CASE Events' # Events
  <2>1. PICK d \in {0, 1} :
          /\ DOMAIN Events' = 1 .. Len(Events') /\ Len(Events') \in Nat
          /\ \A k \in DOMAIN Events' :
               \/ k = Len(Events') /\ Events'[k] = Created
               \/ k < Len(Events') /\ k + d \in DOMAIN Events /\ Events'[k] = Events[k + d]
    <3>1. /\ Len(Events) \in Nat /\ DOMAIN Events = 1 .. Len(Events)
          /\ Append(Events, Created) \in Seq(Rec)
      BY <1>1, <1>3
    <3>2. CASE Events' = Append(Events, Created)
      <4>1. /\ DOMAIN Events' = 1 .. Len(Events') /\ Len(Events') = Len(Events) + 1
            /\ Events'[Len(Events')] = Created
            /\ \A k \in 1 .. Len(Events) : Events'[k] = Events[k]
        BY <1>3, <3>1, <3>2
      <4> QED
        BY <3>1, <4>1
    <3>3. CASE Events # <<>> /\ Events' = Append(Tail(Events), Created)
      <4>1. /\ Tail(Events) \in Seq(Rec) /\ Len(Tail(Events)) = Len(Events) - 1 /\ Len(Events) >= 1
            /\ \A k \in 1 .. Len(Events) - 1 : Tail(Events)[k] = Events[k + 1]
        BY <1>3, <3>1, <3>3
      <4>2. /\ DOMAIN Events' = 1 .. Len(Events') /\ Len(Events') = Len(Events)
            /\ Events'[Len(Events')] = Created
            /\ \A k \in 1 .. Len(Events) - 1 : Events'[k] = Events[k + 1]
        BY <1>3, <3>1, <3>3, <4>1
      <4> QED
        BY <3>1, <4>2
    <3> QED
      BY <1>4, <1>6, <3>2, <3>3
  <2>2. Seen' \subseteq Seen \cup {Created}
    BY <1>2, <2>1 DEF Seen
  <2>3. /\ \A a \in Seen' : a.id \in 1 .. pushed'
        /\ \A t \in Seen' : t.type = "transition" => t.id <= scene'
        /\ Between'
    BY <1>1, <2>2, SeenKept
  <2>4. Rising'
    <3>1. /\ \A i \in DOMAIN Events : Events[i].id \in 1 .. pushed
          /\ \A i \in DOMAIN jsonl : jsonl[i].id \in 1 .. pushed
          /\ Busy => rec.id \in 1 .. pushed
      BY DEF LinesInv, Seen
    <3>2. Rising
      BY DEF LinesInv
    <3>3. ASSUME NEW i \in DOMAIN Events', NEW j \in DOMAIN Events', i < j
          PROVE  Events'[i].id < Events'[j].id
      <4>1. i < Len(Events') /\ i + d \in DOMAIN Events /\ Events'[i] = Events[i + d]
        BY <2>1, <3>3
      <4>2. CASE Events'[j] = Created
        BY <1>1, <3>1, <4>1, <4>2
      <4>3. CASE j + d \in DOMAIN Events /\ Events'[j] = Events[j + d]
        <5>1. i + d < j + d
          BY <2>1, <3>3
        <5> QED
          BY <3>2, <4>1, <4>3, <5>1 DEF Rising
      <4> QED
        BY <2>1, <4>2, <4>3
    <3>4. ASSUME NEW i \in DOMAIN jsonl, NEW k \in DOMAIN Events', jsonl[i].type # "sensor"
          PROVE  jsonl[i].id < Events'[k].id
      <4>1. CASE Events'[k] = Created
        BY <1>1, <3>1, <4>1
      <4>2. CASE k + d \in DOMAIN Events /\ Events'[k] = Events[k + d]
        BY <3>2, <3>4, <4>2 DEF Rising
      <4> QED
        BY <2>1, <4>1, <4>2
    <3>5. ASSUME Busy, rec.type # "sensor", NEW k \in DOMAIN Events'
          PROVE  rec.id < Events'[k].id
      <4>1. CASE Events'[k] = Created
        BY <1>1, <3>1, <3>5, <4>1
      <4>2. CASE k + d \in DOMAIN Events /\ Events'[k] = Events[k + d]
        BY <3>2, <3>5, <4>2 DEF Rising
      <4> QED
        BY <2>1, <4>1, <4>2
    <3> QED
      BY <1>2, <3>2, <3>3, <3>4, <3>5 DEF Rising
  <2> QED
    BY <1>2, <2>3, <2>4 DEF LinesInv
<1> QED
  BY <1>5, <1>6

LEMMA PopKeepsLines ==
  ASSUME CallbackInv, HeldOnce, LinesInv, Pop
  PROVE  LinesInv'
<1>1. TypeOK /\ db_queue_pop /\ UNCHANGED <<callback, use_pg, writerVars>>
      /\ Events \in Seq(Rec) /\ Cycles \in Seq(Rec) /\ pushed \in Nat /\ scene \in 0 .. pushed
  BY TodoFacts, RingFacts DEF Pop
<1>2. ~ Busy /\ pushed' = pushed /\ scene' = scene /\ jsonl' = jsonl
  BY <1>1, PopMoves DEF writerVars, callback
<1>3. CASE Cycles' = Cycles /\ Events' = Events /\ ~ Busy' /\ UNCHANGED <<rings, rec>>
  <2>1. Busy' = Busy
    BY <1>2, <1>3 DEF Busy
  <2> QED
    BY <1>1, <1>3, <2>1, QuietSteps DEF callback
<1>4. CASE PoppedEvent /\ Busy'
  <2>1. /\ DOMAIN Events' \subseteq Nat /\ 1 \in DOMAIN Events /\ rec' = Events[1]
        /\ \A k \in DOMAIN Events' : k + 1 \in DOMAIN Events /\ Events'[k] = Events[k + 1] /\ 1 < k + 1
    BY <1>1, <1>4 DEF PoppedEvent
  <2>2. Seen' \subseteq Seen
    BY <1>2, <2>1 DEF Seen
  <2>3. /\ \A a \in Seen' : a.id \in 1 .. pushed'
        /\ \A t \in Seen' : t.type = "transition" => t.id <= scene'
        /\ Between'
    BY <1>1, <1>2, <2>2, SeenKept
  <2>4. Rising
    BY DEF LinesInv
  <2>5. \A i, j \in DOMAIN Events' : i < j => Events'[i].id < Events'[j].id
    <3>1. \A i, j \in DOMAIN Events' : i < j => i + 1 < j + 1
      BY <2>1
    <3> QED
      BY <2>1, <2>4, <3>1 DEF Rising
  <2>6. \A k \in DOMAIN Events' : rec'.id < Events'[k].id
    BY <2>1, <2>4 DEF Rising
  <2>7. \A i \in DOMAIN jsonl' : jsonl'[i].type # "sensor" => jsonl'[i].id < rec'.id
    BY <1>2, <2>1, <2>4 DEF Rising
  <2>8. Rising'
    BY <1>2, <2>1, <2>4, <2>5, <2>6, <2>7 DEF Rising
  <2> QED
    BY <1>2, <2>3, <2>8 DEF LinesInv
<1>5. CASE PoppedCycle /\ Busy'
  <2>1. Events' = Events /\ rec' \in Rec /\ rec'.type = "sensor" /\ rec'.id \in 1 .. pushed
    <3>1. 1 \in DOMAIN Cycles /\ Head(Cycles) = Cycles[1] /\ Cycles[1] \in Rec
      BY <1>1, <1>5 DEF PoppedCycle
    <3>2. rec'.id \in Queued
      BY <1>1, <1>5, <3>1, RingFacts DEF PoppedCycle, Ids
    <3> QED
      BY <1>5, <3>1, <3>2 DEF PoppedCycle, CallbackInv, HeldOnce, Held
  <2>2. Seen' \subseteq Seen \cup {rec'}
    BY <1>2, <2>1 DEF Seen
  <2>3. /\ \A a \in Seen' : a.id \in 1 .. pushed'
        /\ \A t \in Seen' : t.type = "transition" => t.id <= scene'
    BY <1>2, <2>1, <2>2 DEF LinesInv
  <2>4. Between'
    BY <2>1, <2>2 DEF LinesInv, Between
  <2>5. Rising'
    BY <1>2, <2>1 DEF LinesInv, Rising
  <2> QED
    BY <1>2, <2>3, <2>4, <2>5 DEF LinesInv
<1> QED
  BY <1>1, <1>3, <1>4, <1>5, PopMoves

LEMMA WriteKeepsLines ==
  ASSUME CallbackInv, LinesInv, Write
  PROVE  LinesInv'
<1>1. /\ Busy /\ workerAt' = "popping" /\ UNCHANGED <<rings, rec, callback>>
      /\ jsonl' \in {jsonl, Append(jsonl, rec)}
  <2>1. /\ conn \in {"none", "ok", "bad"} /\ (conn = "none" => last_event_id = 0)
        /\ (~ use_pg => conn = "none") /\ torn \in BOOLEAN /\ failures \in 0 .. MaxFailures
    BY TodoFacts DEF CallbackInv
  <2> QED
    BY <2>1, WriteMoves
<1>2. jsonl \in Seq(Rec) /\ rec \in Rec /\ pushed \in Nat /\ scene \in 0 .. pushed
  BY TodoFacts
<1>3. Events' = Events /\ scene' = scene /\ pushed' = pushed /\ rec' = rec /\ ~ Busy'
  BY <1>1 DEF rings, callback, Events, Busy
<1>4. /\ Len(jsonl) \in Nat /\ DOMAIN jsonl = 1 .. Len(jsonl)
      /\ DOMAIN Append(jsonl, rec) = 1 .. Len(jsonl) + 1 /\ Len(Append(jsonl, rec)) = Len(jsonl) + 1
      /\ Append(jsonl, rec)[Len(jsonl) + 1] = rec
      /\ \A j \in DOMAIN jsonl : Append(jsonl, rec)[j] = jsonl[j]
  BY <1>2
<1>5. \A j \in DOMAIN jsonl' : \/ j \in DOMAIN jsonl /\ jsonl'[j] = jsonl[j]
                               \/ j = Len(jsonl) + 1 /\ jsonl'[j] = rec
  BY <1>1, <1>4
<1>6. Seen' \subseteq Seen
  BY <1>1, <1>3, <1>5 DEF Seen
<1>7. /\ \A a \in Seen' : a.id \in 1 .. pushed'
      /\ \A t \in Seen' : t.type = "transition" => t.id <= scene'
      /\ Between'
  BY <1>2, <1>3, <1>6, SeenKept
<1>8. Rising
  BY DEF LinesInv
<1>9. ASSUME NEW i \in DOMAIN jsonl', NEW j \in DOMAIN jsonl', i < j,
             jsonl'[i].type # "sensor", jsonl'[j].type # "sensor"
      PROVE  jsonl'[i].id < jsonl'[j].id
  <2>1. i \in DOMAIN jsonl /\ jsonl'[i] = jsonl[i]
    BY <1>4, <1>5, <1>9
  <2> QED
    BY <1>1, <1>5, <1>8, <1>9, <2>1 DEF Rising
<1>10. ASSUME NEW i \in DOMAIN jsonl', NEW k \in DOMAIN Events, jsonl'[i].type # "sensor"
       PROVE  jsonl'[i].id < Events[k].id
  BY <1>1, <1>5, <1>8, <1>10 DEF Rising
<1>11. Rising'
  BY <1>3, <1>8, <1>9, <1>10 DEF Rising
<1>12. ASSUME NEW i \in 1 .. Len(jsonl') + 1
       PROVE  \E v : Nearest(0, jsonl', i, v)
  <2>1. \A k \in 1 .. Len(jsonl) + 1 : \E v : Nearest(0, jsonl, k, v)
    BY DEF LinesInv
  <2>2. CASE jsonl' = jsonl
    BY <1>12, <2>1, <2>2
  <2>3. CASE jsonl' = Append(jsonl, rec) /\ i \in 1 .. Len(jsonl) + 1
    <3>1. PICK v : Nearest(0, jsonl, i, v)
      BY <2>1, <2>3
    <3> QED
      BY <1>2, <2>3, <3>1, NearestAppend
  <2>4. CASE jsonl' = Append(jsonl, rec) /\ i = Len(jsonl) + 2
    <3>1. PICK v : Nearest(0, jsonl, Len(jsonl) + 1, v)
      BY <1>4, <2>1
    <3>2. CASE rec.type = "transition"
      BY <1>2, <2>4, <3>2, NearestAppend
    <3>3. CASE rec.type # "transition"
      BY <1>2, <2>4, <3>1, <3>3, NearestAppend
    <3> QED
      BY <3>2, <3>3
  <2>5. jsonl' = Append(jsonl, rec) => i \in 1 .. Len(jsonl) + 1 \/ i = Len(jsonl) + 2
    BY <1>4, <1>12
  <2> QED
    BY <1>1, <2>2, <2>3, <2>4, <2>5
<1> QED
  BY <1>7, <1>11, <1>12 DEF LinesInv

-----------------------------------------------------------------------------
(* No key twice under one transition.                                      *)

LEMMA FewerCommands ==
  ASSUME KeysOnce, LiveCommands' \subseteq LiveCommands, UNCHANGED <<pushed, scene, todo>>
  PROVE  KeysOnce'
<1>1. \A a \in LiveCommands' : a \in LiveCommands
  OBVIOUS
<1> QED
  BY <1>1 DEF KeysOnce

LEMMA PushKeepsKeys ==
  ASSUME CallbackInv, KeysOnce, db_write
  PROVE  KeysOnce'
<1>1. /\ todo # <<>> /\ todo' = Tail(todo) /\ db_queue_push(Created) /\ Created \in Rec
      /\ pushed' = pushed + 1 /\ pushed \in Nat /\ scene \in 0 .. pushed
      /\ scene' = (IF Created.type = "transition" THEN pushed + 1 ELSE scene)
      /\ UNCHANGED <<use_pg, writerVars>> /\ todo \in Seq(Task)
      /\ Created.type = Head(todo).type /\ Created.key = Head(todo).key
      /\ (Created.type = "command" => Created.own = scene)
  <2>1. todo # <<>>
    BY DEF db_write
  <2>2. /\ Created.type = Head(todo).type /\ Created.key = Head(todo).key
        /\ (Created.type = "command" => Created.own = scene)
    BY DEF Created
  <2> QED
    BY <2>1, <2>2, TodoFacts DEF db_write, Created
<1>2. /\ TodoShape'
      /\ todo' # <<>> /\ Head(todo').type = "command" => Head(todo).type \in {"transition", "command"}
      /\ Head(todo).type = "command" => \A j \in DOMAIN todo' : todo'[j].key # Head(todo).key
      /\ \A j \in DOMAIN todo' : j + 1 \in DOMAIN todo /\ todo'[j] = todo[j + 1]
  BY <1>1, ShapeOfTail DEF CallbackInv
<1>3. ASSUME NEW a \in LiveCommands' PROVE a \in LiveCommands \/ (a = Created /\ Created.type = "command")
  <2>1. rec' = rec /\ pg' = pg /\ (Busy' <=> Busy)
    BY <1>1 DEF writerVars, db_queue_push, Woken, Busy
  <2>2. \A i \in DOMAIN Events' : Events'[i] = Created \/ \E j \in DOMAIN Events : Events'[i] = Events[j]
    <3>1. TypeOK /\ Events \in Seq(Rec)
      BY TodoFacts, RingFacts
    <3>2. CASE Events' = Events
      BY <3>2
    <3>3. CASE Events' = Append(Events, Created)
      BY <3>1, <3>3
    <3>4. CASE Events # <<>> /\ Events' = Append(Tail(Events), Created)
      <4>1. \A i \in 1 .. Len(Events) - 1 : i + 1 \in DOMAIN Events /\ Tail(Events)[i] = Events[i + 1]
        BY <3>1, <3>4
      <4>2. /\ Tail(Events) \in Seq(Rec) /\ Len(Tail(Events)) = Len(Events) - 1 /\ Len(Events) \in Nat \ {0}
        BY <3>1, <3>4
      <4>3. \A i \in DOMAIN Events' : i = Len(Events) \/ (i \in 1 .. Len(Events) - 1 /\ Events'[i] = Tail(Events)[i])
        BY <3>4, <4>2
      <4>4. Events'[Len(Events)] = Created
        BY <3>4, <4>2
      <4> QED
        BY <4>1, <4>3, <4>4
    <3> QED
      BY <1>1, <3>1, <3>2, <3>3, <3>4, PushMoves DEF Pushed
  <2>3. CASE \E i \in DOMAIN Events' : a = Events'[i]
    <3>1. a = Created \/ \E j \in DOMAIN Events : a = Events[j]
      BY <2>2, <2>3
    <3> QED
      BY <1>3, <3>1 DEF LiveCommands
  <2>4. CASE (Busy /\ a = rec) \/ \E r \in pg : a = r.rec
    BY <1>3, <2>4 DEF LiveCommands
  <2> QED
    BY <1>3, <2>1, <2>3, <2>4 DEF LiveCommands
<1>4. Created.type = "command" => \A a \in LiveCommands : a.own = scene => a.key # Created.key
  <2>1. 1 \in DOMAIN todo /\ Head(todo) = todo[1]
    BY <1>1
  <2> QED
    BY <1>1, <2>1 DEF KeysOnce
<1>5. \A a \in LiveCommands' : a.own \in 0 .. pushed'
  BY <1>1, <1>3 DEF KeysOnce
<1>6. \A a, b \in LiveCommands' : a.own = b.own /\ a.key = b.key => a.id = b.id
  BY <1>1, <1>3, <1>4 DEF KeysOnce
<1>7. ASSUME todo' # <<>>, Head(todo').type = "command", NEW a \in LiveCommands', NEW j \in DOMAIN todo', a.own = scene'
      PROVE  a.key # todo'[j].key
  <2>1. CASE Head(todo).type = "transition"
    <3>1. scene' = pushed + 1
      BY <1>1, <2>1
    <3>2. a \in LiveCommands
      BY <1>1, <1>3, <2>1
    <3> QED
      BY <1>1, <1>7, <3>1, <3>2 DEF KeysOnce
  <2>2. CASE Head(todo).type = "command"
    <3>1. scene' = scene
      BY <1>1, <2>2
    <3>2. CASE a = Created
      BY <1>1, <1>2, <2>2, <3>2
    <3>3. CASE a \in LiveCommands
      BY <1>1, <1>2, <1>7, <2>2, <3>1, <3>3 DEF KeysOnce
    <3> QED
      BY <1>3, <3>2, <3>3
  <2> QED
    BY <1>2, <1>7, <2>1, <2>2
<1> QED
  BY <1>5, <1>6, <1>7 DEF KeysOnce

LEMMA PopKeepsKeys ==
  ASSUME CallbackInv, KeysOnce, Pop
  PROVE  KeysOnce'
<1>1. TypeOK /\ db_queue_pop /\ UNCHANGED <<callback, use_pg, writerVars>>
      /\ Events \in Seq(Rec) /\ Cycles \in Seq(Rec)
  BY TodoFacts, RingFacts DEF Pop
<1>2. pg' = pg /\ UNCHANGED <<pushed, scene, todo>> /\ ~ Busy
  BY <1>1, PopMoves DEF writerVars, callback
<1>3. LiveCommands' \subseteq LiveCommands
  <2>1. CASE Events' = Events /\ ~ Busy'
    BY <1>2, <2>1 DEF LiveCommands
  <2>2. CASE PoppedEvent /\ Busy'
    <3>1. \A i \in DOMAIN Tail(Events) : i + 1 \in DOMAIN Events /\ Tail(Events)[i] = Events[i + 1]
      BY <1>1, <2>2 DEF PoppedEvent
    <3>2. 1 \in DOMAIN Events /\ Head(Events) = Events[1]
      BY <1>1, <2>2 DEF PoppedEvent
    <3> QED
      BY <1>2, <2>2, <3>1, <3>2 DEF LiveCommands, PoppedEvent
  <2>3. CASE PoppedCycle /\ Busy'
    <3>1. 1 \in DOMAIN Cycles /\ Head(Cycles) = Cycles[1]
      BY <1>1, <2>3 DEF PoppedCycle
    <3>2. rec'.type = "sensor"
      BY <2>3, <3>1 DEF PoppedCycle, CallbackInv
    <3> QED
      BY <1>2, <2>3, <3>2 DEF LiveCommands, PoppedCycle
  <2> QED
    BY <1>1, <2>1, <2>2, <2>3, PopMoves
<1> QED
  BY <1>2, <1>3, FewerCommands

LEMMA WriteKeepsKeys ==
  ASSUME CallbackInv, KeysOnce, Write
  PROVE  KeysOnce'
<1>1. /\ Busy /\ ~ Busy' /\ UNCHANGED <<rings, rec, callback>>
      /\ \/ pg' = pg
         \/ pg' = pg \cup {Row(RowEvent)}
  <2>1. /\ conn \in {"none", "ok", "bad"} /\ (conn = "none" => last_event_id = 0)
        /\ (~ use_pg => conn = "none") /\ torn \in BOOLEAN /\ failures \in 0 .. MaxFailures
    BY TodoFacts DEF CallbackInv
  <2> QED
    BY <2>1, WriteMoves DEF Busy
<1>2. Events' = Events /\ rec' = rec /\ UNCHANGED <<pushed, scene, todo>>
  BY <1>1 DEF rings, callback, Events
<1>3. \A r \in pg' : r \in pg \/ r.rec = rec
  BY <1>1 DEF Row
<1>4. LiveCommands' \subseteq LiveCommands
  BY <1>1, <1>2, <1>3 DEF LiveCommands
<1> QED
  BY <1>2, <1>4, FewerCommands

-----------------------------------------------------------------------------
(* The invariant holds.                                                    *)

(* Seen from the queue, every step of the program is one of its own: the   *)
(* callback thread has nothing left to push once the worker is gone.       *)
LEMMA QueueSteps ==
  ASSUME CallbackInv, LeavesNothingBehind, [NextWriter]_vars
  PROVE  QueueStep
<1>1. CASE db_write
  <2>1. todo # <<>> /\ db_queue_push(Created)
    BY <1>1 DEF db_write, Created
  <2>2. Created \in Rec
    BY <2>1, TodoFacts
  <2>3. workerAt # "exited"
    BY <2>1 DEF CallbackInv, LeavesNothingBehind
  <2> QED
    BY <2>1, <2>2, <2>3 DEF QueueStep
<1>2. CASE Receive \/ PublishFails \/ UNCHANGED vars
  BY <1>2 DEF Receive, PublishFails, vars, QueueStep
<1>3. CASE Close \/ Pop \/ Wake
  BY <1>3 DEF Close, Pop, Wake, QueueStep
<1>4. CASE Write
  <2>1. WriteDone
    BY <1>4 DEF Write, WriteToPg, WriteAround, WriteLine
  <2> QED
    BY <2>1 DEF QueueStep
<1> QED
  BY <1>1, <1>2, <1>3, <1>4 DEF NextWriter

LEMMA StartHolds == InitWriter => WriterInv
<1> SUFFICES ASSUME InitWriter PROVE WriterInv
  OBVIOUS
<1>1. /\ todo = <<>> /\ pushed = 0 /\ scene = 0 /\ use_pg \in BOOLEAN /\ last_event_id = 0 /\ pg = {} /\ jsonl = <<>>
      /\ conn \in {"none", "ok", "bad"} /\ (~ use_pg => conn = "none")
      /\ shutting_down = FALSE /\ workerAt = "popping"
  BY DEF InitWriter, Init
<1>2. TypeOK
  BY InitTypes DEF InitWriter
<1>3. Cycles = <<>> /\ Events = <<>> /\ sensor_ring.dropped = 0 /\ event_ring.dropped = 0
  BY CapAssumption, RecAssumption, NewRingTyped DEF InitWriter, Init, Cycles, Events
<1>4. Ids(<<>>) = {} /\ OnceEach(<<>>)
  BY DEF Ids, OnceEach
<1>5. Queued = {} /\ InHand = {} /\ Written = {} /\ ~ Busy
  BY <1>1, <1>2, <1>3, <1>4, RingFacts DEF InHand, Written, Busy
<1>6. TypeOKWriter
  <2>1. torn \in BOOLEAN /\ failures \in 0 .. MaxFailures
    BY FailuresAssumption DEF InitWriter
  <2> QED
    BY <1>1, <1>2, <2>1, RecordsAssumption DEF TypeOKWriter
<1>7. CallbackInv
  BY <1>1, <1>3, <1>6, RecordsAssumption DEF CallbackInv, TodoShape
<1>8. HeldOnce
  BY <1>3, <1>4, <1>5 DEF HeldOnce, Held
<1>9. LiveCommands = {}
  BY <1>1, <1>3, <1>5 DEF LiveCommands
<1>10. KeysOnce
  BY <1>1, <1>9 DEF KeysOnce
<1>11. OrderInv
  <2>1. \A v : Len(<<>>) = 0 /\ DOMAIN <<>> = {} /\ Nearest(v, <<>>, 0 + 1, v)
    BY DEF Nearest
  <2>2. Chained(0, <<>>, 0) /\ Nearest(0, <<>>, Len(<<>>) + 1, 0)
    BY <2>1 DEF Chained
  <2>3. Attached = 0
    BY <1>1 DEF Attached
  <2>4. 0 \in 0 .. pushed
    BY <1>1
  <2>5. Order
    BY <1>1, <1>3, <1>5, <2>2, <2>3, <2>4 DEF Order
  <2> QED
    BY <1>1, <2>5 DEF OrderInv, CommandRows
<1>12. EveryRecordAccounted
  <2>1. Missing = {}
    BY <1>1 DEF Missing
  <2>2. AtStake \in Nat /\ failures \in Nat /\ AtStake <= 2 * failures
    BY DEF InitWriter, AtStake
  <2> QED
    BY <1>3, <2>1, <2>2, FS_EmptySet DEF EveryRecordAccounted
<1>13. LinesInv
  <2>1. Seen = {}
    BY <1>1, <1>3, <1>5 DEF Seen
  <2>2. \A i \in 1 .. Len(<<>>) + 1 : Nearest(0, <<>>, i, 0)
    BY DEF Nearest
  <2> QED
    BY <1>1, <1>3, <1>5, <2>1, <2>2 DEF LinesInv, Between, Rising
<1> QED
  BY <1>1, <1>7, <1>8, <1>10, <1>11, <1>12, <1>13 DEF WriterInv, NeverAsleepOnWork, LeavesNothingBehind

LEMMA CallbackPush ==
  ASSUME CallbackInv, TypeOK', LeavesNothingBehind, db_write
  PROVE  CallbackInv'
<1>1. /\ todo # <<>> /\ todo' = Tail(todo) /\ db_queue_push(Created) /\ pushed' = pushed + 1
      /\ scene' = (IF Head(todo).type = "transition" THEN pushed + 1 ELSE scene)
      /\ UNCHANGED <<use_pg, writerVars>> /\ shutting_down' = shutting_down
  BY DEF db_write, Created, db_queue_push
<1>2. /\ todo \in Seq(Task) /\ Len(todo) \in Nat /\ pushed \in 0 .. MaxRecords /\ MaxRecords \in Nat /\ scene \in 0 .. pushed
      /\ pushed + 1 \in 1 .. MaxRecords /\ Created \in Rec /\ TypeOK
      /\ Tail(todo) \in Seq(Task) /\ Len(Tail(todo)) = Len(todo) - 1
      /\ Cycles \in Seq(Rec) /\ Events \in Seq(Rec)
  BY <1>1, TodoFacts, RingFacts
<1>3. pushed' \in 0 .. MaxRecords /\ scene' \in 0 .. pushed' /\ last_event_id' \in 0 .. pushed'
  <2>1. last_event_id \in 0 .. pushed /\ last_event_id' = last_event_id
    BY <1>1, TodoFacts DEF writerVars
  <2> QED
    BY <1>1, <1>2, <2>1
<1>4. TypeOKWriter'
  <2>1. todo' \in Seq(Task) /\ use_pg' = use_pg /\ conn' = conn /\ pg' = pg /\ jsonl' = jsonl
        /\ torn' = torn /\ failures' = failures
    BY <1>1, <1>2 DEF writerVars
  <2> QED
    BY <1>3, <2>1, TodoFacts DEF TypeOKWriter
<1>5. TodoShape' /\ pushed' + Len(todo') <= MaxRecords
  <2>1. pushed + Len(todo) <= MaxRecords
    BY DEF CallbackInv
  <2>2. TodoShape'
    BY <1>1, <1>2, ShapeOfTail DEF CallbackInv
  <2> QED
    BY <1>1, <1>2, <2>1, <2>2
<1>6. ASSUME NEW q \in Seq(Rec), NEW q2, NEW d, NEW d2, Pushed(q, d, Created, q2, d2), NEW i \in DOMAIN q2
      PROVE  q2[i] = Created \/ \E j \in DOMAIN q : q2[i] = q[j]
  <2>1. CASE q2 = Append(q, Created)
    BY <1>6, <2>1
  <2>2. CASE q # <<>> /\ q2 = Append(Tail(q), Created)
    <3>1. /\ Tail(q) \in Seq(Rec) /\ Len(Tail(q)) = Len(q) - 1 /\ Len(q) \in Nat \ {0}
          /\ \A k \in 1 .. Len(q) - 1 : k + 1 \in DOMAIN q /\ Tail(q)[k] = q[k + 1]
      BY <2>2
    <3>2. i = Len(q) \/ (i \in 1 .. Len(q) - 1 /\ q2[i] = Tail(q)[i])
      BY <1>6, <2>2, <3>1
    <3>3. q2[Len(q)] = Created
      BY <2>2, <3>1
    <3> QED
      BY <3>1, <3>2, <3>3
  <2> QED
    BY <1>6, <2>1, <2>2 DEF Pushed
<1>7. /\ \A i \in DOMAIN Cycles' : Cycles'[i].type = "sensor"
      /\ \A i \in DOMAIN Events' : Events'[i].type # "sensor"
  <2>1. CASE /\ Created.type = "sensor" /\ Events' = Events
             /\ Pushed(Cycles, sensor_ring.dropped, Created, Cycles', sensor_ring'.dropped)
    <3>1. \A i \in DOMAIN Cycles' : Cycles'[i] = Created \/ \E j \in DOMAIN Cycles : Cycles'[i] = Cycles[j]
      BY <1>2, <1>6, <2>1
    <3> QED
      BY <2>1, <3>1 DEF CallbackInv
  <2>2. CASE /\ Created.type # "sensor" /\ Cycles' = Cycles
             /\ Pushed(Events, event_ring.dropped, Created, Events', event_ring'.dropped)
    <3>1. \A i \in DOMAIN Events' : Events'[i] = Created \/ \E j \in DOMAIN Events : Events'[i] = Events[j]
      BY <1>2, <1>6, <2>2
    <3> QED
      BY <2>2, <3>1 DEF CallbackInv
  <2> QED
    BY <1>1, <1>2, <2>1, <2>2, PushMoves
<1> QED
  BY <1>1, <1>4, <1>5, <1>7 DEF CallbackInv, writerVars

LEMMA CallbackPop ==
  ASSUME CallbackInv, TypeOK', Pop
  PROVE  CallbackInv'
<1>1. TypeOK /\ db_queue_pop /\ UNCHANGED <<callback, use_pg, writerVars>>
      /\ Events \in Seq(Rec) /\ Cycles \in Seq(Rec)
  BY TodoFacts, RingFacts DEF Pop
<1>2. /\ todo' = todo /\ pushed' = pushed /\ scene' = scene /\ use_pg' = use_pg /\ conn' = conn
      /\ last_event_id' = last_event_id /\ pg' = pg /\ jsonl' = jsonl /\ shutting_down' = shutting_down
      /\ torn' = torn /\ failures' = failures
  BY <1>1, PopMoves DEF callback, writerVars
<1>3. TypeOKWriter'
  BY <1>2 DEF CallbackInv, TypeOKWriter
<1>4. /\ \A i \in DOMAIN Cycles' : Cycles'[i].type = "sensor"
      /\ \A i \in DOMAIN Events' : Events'[i].type # "sensor"
  <2>1. ASSUME NEW q \in Seq(Rec), q # <<>>, NEW i \in DOMAIN Tail(q) PROVE \E j \in DOMAIN q : Tail(q)[i] = q[j]
    <3>1. i + 1 \in DOMAIN q /\ Tail(q)[i] = q[i + 1]
      BY <2>1
    <3> QED
      BY <3>1
  <2>2. Cycles' = Cycles \/ (Cycles # <<>> /\ Cycles' = Tail(Cycles))
    BY <1>1, PopMoves DEF PoppedCycle, PoppedEvent
  <2>3. Events' = Events \/ (Events # <<>> /\ Events' = Tail(Events))
    BY <1>1, PopMoves DEF PoppedCycle, PoppedEvent
  <2>4. \A i \in DOMAIN Cycles' : \E j \in DOMAIN Cycles : Cycles'[i] = Cycles[j]
    BY <1>1, <2>1, <2>2
  <2>5. \A i \in DOMAIN Events' : \E j \in DOMAIN Events : Events'[i] = Events[j]
    BY <1>1, <2>1, <2>3
  <2> QED
    BY <2>4, <2>5 DEF CallbackInv
<1> QED
  BY <1>2, <1>3, <1>4 DEF CallbackInv, TodoShape

LEMMA CallbackWrite ==
  ASSUME CallbackInv, HeldOnce, TypeOK', Write
  PROVE  CallbackInv'
<1>1. /\ Busy /\ workerAt' = "popping" /\ UNCHANGED <<rings, shutting_down, rec, callback, use_pg>>
      /\ \/ pg' = pg
         \/ pg' = pg \cup {Row(RowEvent)}
      /\ jsonl' \in {jsonl, Append(jsonl, rec)}
      /\ conn' \in {"none", "ok", "bad"} /\ last_event_id' \in {0, last_event_id, rec.id}
      /\ conn' = "none" => last_event_id' = 0
      /\ ~ use_pg => conn' = "none"
      /\ torn' \in BOOLEAN /\ failures' \in 0 .. MaxFailures
  <2>1. /\ conn \in {"none", "ok", "bad"} /\ (conn = "none" => last_event_id = 0)
        /\ (~ use_pg => conn = "none") /\ torn \in BOOLEAN /\ failures \in 0 .. MaxFailures
    BY TodoFacts DEF CallbackInv
  <2> QED
    BY <2>1, WriteMoves
<1>2. /\ todo' = todo /\ pushed' = pushed /\ scene' = scene /\ use_pg' = use_pg /\ shutting_down' = shutting_down
      /\ Cycles' = Cycles /\ Events' = Events
  BY <1>1 DEF callback, rings, Cycles, Events
<1>3. rec \in Rec /\ jsonl \in Seq(Rec) /\ last_event_id \in 0 .. pushed /\ pushed \in 0 .. MaxRecords /\ MaxRecords \in Nat
      /\ pg \subseteq [rec : Rec, event : 0 .. MaxRecords]
  BY TodoFacts
<1>4. rec.id \in 1 .. pushed
  BY <1>1 DEF HeldOnce, Held, InHand, Busy
<1>5. last_event_id' \in 0 .. pushed'
  BY <1>1, <1>2, <1>3, <1>4
<1>6. RowEvent \in 0 .. MaxRecords
  BY <1>3, <1>4 DEF RowEvent, Attached
<1>7. pg' \subseteq [rec : Rec, event : 0 .. MaxRecords]
  BY <1>1, <1>3, <1>6 DEF Row
<1>8. jsonl' \in Seq(Rec)
  BY <1>1, <1>3
<1>9. TypeOKWriter'
  BY <1>1, <1>2, <1>5, <1>7, <1>8 DEF CallbackInv, TypeOKWriter
<1> QED
  BY <1>1, <1>2, <1>9 DEF CallbackInv, TodoShape

(* The steps that touch neither the rings nor the stores.                  *)
LEMMA CallbackQuiet ==
  ASSUME CallbackInv, TypeOK', Receive \/ PublishFails \/ Close \/ Wake \/ UNCHANGED vars
  PROVE  CallbackInv'
<1>1. /\ Cycles' = Cycles /\ Events' = Events /\ pushed' = pushed /\ scene' = scene /\ use_pg' = use_pg
      /\ conn' = conn /\ last_event_id' = last_event_id /\ pg' = pg /\ jsonl' = jsonl
      /\ torn' = torn /\ failures' = failures
  BY DEF Receive, PublishFails, Close, Wake, vars, queueVars, rings, callback, writerVars, db_queue_shutdown,
         SpuriousWakeup, Cycles, Events
<1>2. todo \in Seq(Task) /\ Len(todo) \in Nat /\ pushed \in Nat /\ MaxRecords \in Nat
  BY TodoFacts
<1>3. ASSUME todo' \in Seq(Task), TodoShape', pushed' + Len(todo') <= MaxRecords, shutting_down' => todo' = <<>>
      PROVE  CallbackInv'
  <2>1. TypeOKWriter'
    BY <1>1, <1>3 DEF CallbackInv, TypeOKWriter
  <2> QED
    BY <1>1, <1>3, <2>1 DEF CallbackInv
<1>4. CASE Receive
  <2>1. /\ ~ shutting_down /\ shutting_down' = shutting_down
        /\ \E work \in on_sensor \cup on_clear_fire \cup on_button :
             pushed + Len(work) <= MaxRecords /\ todo' = work
    BY <1>4 DEF Receive, queueVars
  <2>2. PICK work \in on_sensor \cup on_clear_fire \cup on_button : pushed + Len(work) <= MaxRecords /\ todo' = work
    BY <2>1
  <2>3. todo' \in Seq(Task) /\ TodoShape'
    BY <2>2, ShapeOfWork DEF TodoShape
  <2> QED
    BY <1>1, <1>3, <2>1, <2>2, <2>3
<1>5. CASE PublishFails
  <2>1. todo # <<>> /\ todo' = Tail(todo) /\ shutting_down' = shutting_down
    BY <1>5 DEF PublishFails, queueVars
  <2>2. todo' \in Seq(Task) /\ Len(todo') = Len(todo) - 1
    BY <1>2, <2>1
  <2>3. TodoShape'
    BY <1>2, <2>1, ShapeOfTail DEF CallbackInv
  <2>4. pushed' + Len(todo') <= MaxRecords /\ ~ shutting_down
    BY <1>1, <1>2, <2>1, <2>2 DEF CallbackInv
  <2> QED
    BY <1>3, <2>1, <2>2, <2>3, <2>4
<1>6. CASE Close \/ Wake \/ UNCHANGED vars
  <2>1. todo' = todo /\ (shutting_down' => todo = <<>>)
    BY <1>6 DEF Close, Wake, vars, queueVars, callback, SpuriousWakeup, CallbackInv
  <2>2. TodoShape'
    BY <2>1 DEF CallbackInv, TodoShape
  <2> QED
    BY <1>1, <1>2, <1>3, <2>1, <2>2 DEF CallbackInv
<1> QED
  BY <1>4, <1>5, <1>6

LEMMA KeysQuiet ==
  ASSUME CallbackInv, KeysOnce, LiveCommands' = LiveCommands,
         Receive \/ PublishFails \/ Close \/ Wake \/ UNCHANGED vars
  PROVE  KeysOnce'
<1>1. pushed' = pushed /\ scene' = scene
  BY DEF Receive, PublishFails, Close, Wake, vars, callback
<1>2. CASE Receive
  <2>1. PICK work \in on_sensor \cup on_clear_fire \cup on_button : todo' = work
    BY <1>2 DEF Receive
  <2>2. Head(todo').type # "command"
    BY <2>1, ShapeOfWork
  <2> QED
    BY <1>1, <2>2 DEF KeysOnce
<1>3. CASE PublishFails
  <2>1. todo # <<>> /\ todo' = Tail(todo) /\ Head(todo).type = "command" /\ todo \in Seq(Task)
    BY <1>3, TodoFacts DEF PublishFails
  <2>2. \A j \in DOMAIN todo' : j + 1 \in DOMAIN todo /\ todo'[j] = todo[j + 1]
    BY <2>1
  <2> QED
    BY <1>1, <2>1, <2>2 DEF KeysOnce
<1>4. CASE Close \/ Wake \/ UNCHANGED vars
  <2>1. todo' = todo
    BY <1>4 DEF Close, Wake, vars, callback
  <2> QED
    BY <1>1, <2>1 DEF KeysOnce
<1> QED
  BY <1>2, <1>3, <1>4

LEMMA WriterStep == WriterInv /\ [NextWriter]_vars => WriterInv'
<1> SUFFICES ASSUME WriterInv, [NextWriter]_vars PROVE WriterInv'
  OBVIOUS
<1>1. /\ CallbackInv /\ HeldOnce /\ KeysOnce /\ OrderInv /\ LinesInv /\ EveryRecordAccounted
      /\ NeverAsleepOnWork /\ LeavesNothingBehind /\ TypeOK
  BY TodoFacts DEF WriterInv
<1>2. TypeOK' /\ NeverAsleepOnWork' /\ LeavesNothingBehind'
  BY <1>1, QueueSteps, StepTypes, StepAsleep, StepLeaves
<1>3. CASE db_write
  BY <1>1, <1>2, <1>3, CallbackPush, PushKeepsCount, PushKeepsOrder, PushKeepsLines, PushKeepsKeys DEF WriterInv
<1>4. CASE Pop
  BY <1>1, <1>2, <1>4, CallbackPop, PopKeepsCount, PopKeepsOrder, PopKeepsLines, PopKeepsKeys DEF WriterInv
<1>5. CASE Write
  BY <1>1, <1>2, <1>5, CallbackWrite, WriteKeepsCount, WriteKeepsOrder, WriteKeepsLines, WriteKeepsKeys DEF WriterInv
<1>6. CASE Receive \/ PublishFails \/ Close \/ Wake \/ UNCHANGED vars
  <2>1. UNCHANGED <<rings, rec, pushed, scene, use_pg, writerVars>> /\ Busy' = Busy
    BY <1>6 DEF Receive, PublishFails, Close, Wake, vars, queueVars, callback, db_queue_shutdown, SpuriousWakeup,
                Woken, Busy
  <2> QED
    BY <1>1, <1>2, <1>6, <2>1, QuietSteps, CallbackQuiet, KeysQuiet DEF WriterInv
<1> QED
  BY <1>3, <1>4, <1>5, <1>6 DEF NextWriter

LEMMA WriterInvariant == SpecWriter => []WriterInv
  BY StartHolds, WriterStep, PTL DEF SpecWriter

-----------------------------------------------------------------------------
(* Theorems.                                                               *)

(* The rings, the callback's work, the database rows and the lines of the  *)
(* file stay typed for every capacity and scenario.                        *)
THEOREM WriterTypes == SpecWriter => []TypeOKWriter
<1>1. WriterInv => TypeOKWriter
  BY DEF WriterInv, CallbackInv
<1> QED BY <1>1, WriterInvariant, PTL

(* No wakeup is lost, whatever is pushed and whenever the shutdown comes,  *)
(* by the writer's callbacks or by any other producer.                     *)
THEOREM NoLostWakeup == (SpecWriter => []NeverAsleepOnWork) /\ (Spec => []NeverAsleepOnWork)
<1>1. SpecWriter => []NeverAsleepOnWork
  <2>1. WriterInv => NeverAsleepOnWork
    BY DEF WriterInv
  <2> QED BY <2>1, WriterInvariant, PTL
<1>2. Spec => []NeverAsleepOnWork
  <2>1. Init => NeverAsleepOnWork
    BY DEF Init, NeverAsleepOnWork
  <2> QED BY <2>1, StepAsleep, AloneSteps, PTL DEF Spec
<1> QED BY <1>1, <1>2

(* The worker leaves only when both rings are empty and the writer closes. *)
THEOREM FlushBeforeExit == (SpecWriter => []LeavesNothingBehind) /\ (Spec => []LeavesNothingBehind)
<1>1. SpecWriter => []LeavesNothingBehind
  <2>1. WriterInv => LeavesNothingBehind
    BY DEF WriterInv
  <2> QED BY <2>1, WriterInvariant, PTL
<1>2. Spec => []LeavesNothingBehind
  <2>1. Init => LeavesNothingBehind
    BY DEF Init, LeavesNothingBehind
  <2> QED BY <2>1, StepLeaves, AloneSteps, PTL DEF Spec
<1> QED BY <1>1, <1>2

(* For every pair of capacities the rings are the two lossy queues.        *)
THEOREM QueueRefinement == (SpecWriter => IsRecordQueue) /\ (Spec => IsRecordQueue)
<1>1. Init => Queue!Init
  BY CapAssumption, RecAssumption, NewRingTyped DEF Init, Queue!Init
<1>2. SpecWriter => IsRecordQueue
  <2>1. InitWriter => Queue!Init
    BY <1>1 DEF InitWriter
  <2>2. WriterInv /\ [NextWriter]_vars => [Queue!Next]_(Queue!queueVars)
    BY QueueSteps, StepRefines, TodoFacts DEF WriterInv
  <2> QED BY <2>1, <2>2, WriterInvariant, PTL DEF SpecWriter, IsRecordQueue, Queue!Spec
<1>3. Spec => IsRecordQueue
  <2>1. Spec => []TypeOK
    BY InitTypes, StepTypes, AloneSteps, PTL DEF Spec
  <2> QED BY <1>1, <2>1, StepRefines, AloneSteps, PTL DEF Spec, IsRecordQueue, Queue!Spec
<1> QED BY <1>2, <1>3

(* Whatever the database does, a record handed over is waiting, in hand,   *)
(* stored, or counted as given up by a full ring; and none is missing that *)
(* was not counted, as long as no event was (worker() of db_writer.c).     *)
THEOREM NothingVanishes == SpecWriter => []EveryRecordAccounted
<1>1. WriterInv => EveryRecordAccounted
  BY DEF WriterInv
<1> QED BY <1>1, WriterInvariant, PTL

(* As long as the event ring drops nothing, a command row belongs to the   *)
(* event whose scenario published it, through failed inserts and           *)
(* reconnections (ins_event, ins_command and ensure_conn).                 *)
THEOREM RowsJoinTheirEvent == SpecWriter => []CommandsJoinTheirEvent
<1>1. WriterInv => CommandsJoinTheirEvent
  BY DEF WriterInv, OrderInv, CommandsJoinTheirEvent
<1> QED BY <1>1, WriterInvariant, PTL

(* Through every mixture of rows, lines, dropped records and failed        *)
(* appends, the transition line nearest above a command line is never      *)
(* younger than its own, and is its own if that has a line (write_jsonl,   *)
(* as backfill_jsonl.sql reads it).                                        *)
THEOREM LinesKeepTheirEvent == SpecWriter => []BackfillKeepsOwner
<1>1. WriterInv => BackfillKeepsOwner
  <2> SUFFICES ASSUME WriterInv, NEW i \in CommandLines
               PROVE  /\ OwnerLine(i) <= jsonl[i].own
                      /\ \A j \in DOMAIN jsonl :
                           jsonl[j].type = "transition" /\ jsonl[j].id = jsonl[i].own
                             => OwnerLine(i) = jsonl[i].own
    BY DEF BackfillKeepsOwner
  <2>1. LinesInv /\ Rising /\ Between /\ jsonl \in Seq(Rec)
    BY TodoFacts DEF WriterInv, LinesInv
  <2>2. /\ DOMAIN jsonl = 1 .. Len(jsonl) /\ Len(jsonl) \in Nat
        /\ i \in 1 .. Len(jsonl) /\ i \in 1 .. Len(jsonl) + 1 /\ jsonl[i].type = "command"
    BY <2>1 DEF CommandLines
  <2>3. PICK v : Nearest(0, jsonl, i, v)
    BY <2>1, <2>2 DEF LinesInv
  <2>4. OwnerLine(i) = v
    BY <2>1, <2>2, <2>3, OwnerIsNearest
  <2> DEFINE own == jsonl[i].own
  <2>5. /\ own \in Nat /\ own < jsonl[i].id
        /\ \A j \in DOMAIN jsonl : jsonl[j].type = "transition" =>
             ~ (own < jsonl[j].id /\ jsonl[j].id < jsonl[i].id)
        /\ \A j \in DOMAIN jsonl : jsonl[j].id \in Nat
    <3>1. \A j \in DOMAIN jsonl : jsonl[j] \in Seen
      BY DEF Seen
    <3>2. \A j \in DOMAIN jsonl : jsonl[j].id \in 1 .. pushed
      BY <2>1, <3>1 DEF LinesInv
    <3> QED
      BY <2>1, <2>2, <3>1, <3>2 DEF Between
  <2>6. \A j, k \in DOMAIN jsonl :
          j < k /\ jsonl[j].type \in {"transition", "command"} /\ jsonl[k].type \in {"transition", "command"}
            => jsonl[j].id < jsonl[k].id
    BY <2>1 DEF Rising
  <2>7. ASSUME NEW j \in DOMAIN jsonl, jsonl[j].type = "transition", jsonl[j].id = own
        PROVE  j \in 1 .. i - 1
    <3>1. ~ (i < j) /\ i # j
      BY <2>2, <2>5, <2>6, <2>7
    <3> QED
      BY <2>2, <3>1
  <2> HIDE DEF own
  <2>8. CASE v = 0 /\ \A j \in 1 .. i - 1 : jsonl[j].type # "transition"
    BY <2>4, <2>5, <2>7, <2>8 DEF own
  <2>9. CASE \E j \in 1 .. i - 1 : /\ jsonl[j].type = "transition" /\ jsonl[j].id = v
                                   /\ \A k \in j + 1 .. i - 1 : jsonl[k].type # "transition"
    <3>1. PICK j \in 1 .. i - 1 : /\ jsonl[j].type = "transition" /\ jsonl[j].id = v
                                 /\ \A k \in j + 1 .. i - 1 : jsonl[k].type # "transition"
      BY <2>9
    <3>2. j \in DOMAIN jsonl /\ j < i /\ v < jsonl[i].id /\ v \in Nat
      BY <2>2, <2>5, <2>6, <3>1
    <3>3. v <= own
      BY <2>5, <3>1, <3>2
    <3>4. ASSUME NEW k \in DOMAIN jsonl, jsonl[k].type = "transition", jsonl[k].id = own
          PROVE  v = own
      <4>1. k \in 1 .. i - 1 /\ ~ (k \in j + 1 .. i - 1)
        BY <2>7, <3>1, <3>4
      <4>2. k = j \/ k < j
        BY <2>2, <3>1, <4>1
      <4>3. k < j => own < v
        BY <2>6, <3>1, <3>2, <3>4
      <4> QED
        BY <2>5, <3>1, <3>2, <3>3, <3>4, <4>2, <4>3
    <3> QED
      BY <2>4, <3>3, <3>4 DEF own
  <2> QED
    BY <2>3, <2>8, <2>9 DEF Nearest
<1> QED BY <1>1, WriterInvariant, PTL
=============================================================================
