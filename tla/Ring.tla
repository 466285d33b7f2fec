-------------------------------- MODULE Ring --------------------------------
(***************************************************************************)
(* The ring buffer of rpib_app/app/src/db_queue.c as operators on a ring_t *)
(* record: head is the next slot to take, tail the next slot to fill, and  *)
(* head = tail means empty, so cap - 1 records fit.  Pushing into a full   *)
(* ring drops the oldest record and counts it.                             *)
(***************************************************************************)
EXTENDS Naturals, Sequences

NewRing(cap, blank) ==
  [buf |-> [i \in 0 .. cap - 1 |-> blank], cap |-> cap,
   head |-> 0, tail |-> 0, dropped |-> 0]

RingType(cap, Rec) ==
  [buf : [0 .. cap - 1 -> Rec], cap : {cap},
   head : 0 .. cap - 1, tail : 0 .. cap - 1, dropped : Nat]

(* The slot after i.                                                       *)
Step(i, cap) == (i + 1) % cap

ring_empty(r) == r.head = r.tail
ring_full(r)  == Step(r.tail, r.cap) = r.head

(* ring_pop in two parts: the record handed out, and the ring after it.    *)
Oldest(r)   == r.buf[r.head]
ring_pop(r) == [r EXCEPT !.head = Step(@, r.cap)]

(* Make room by giving up the oldest record, and count it.                 *)
Evict(r) == [ring_pop(r) EXCEPT !.dropped = @ + 1]

Fill(r, rec) == [r EXCEPT !.buf = [@ EXCEPT ![r.tail] = rec]]
Put(r, rec)  == [Fill(r, rec) EXCEPT !.tail = Step(@, r.cap)]

(* Slip: the full ring is overwritten without moving head.                 *)
ring_push_overrun(r, rec) == Put(r, rec)

ring_push(r, rec) == Put(IF ring_full(r) THEN Evict(r) ELSE r, rec)

(* What the ring holds, oldest first.                                      *)
Count(r)    == IF r.head <= r.tail THEN r.tail - r.head ELSE r.tail + r.cap - r.head
Slot(r, k)  == LET i == r.head + k - 1 IN IF i < r.cap THEN i ELSE i - r.cap
Contents(r) == [k \in 1 .. Count(r) |-> r.buf[Slot(r, k)]]
=============================================================================
