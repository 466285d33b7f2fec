------------------------------ MODULE DbWriter ------------------------------
(***************************************************************************)
(* The recording half of rpib_app: the callback thread of main.c hands     *)
(* records to the queue, the worker of db_writer.c writes each one to      *)
(* PostgreSQL (db_writer_pg.c) or, when that fails, to the JSONL file from *)
(* which Database/backfill_jsonl.sql restores it.  An append to that file  *)
(* can fail as well, and nothing looks at its result.                      *)
(*                                                                         *)
(* A command row carries no event id: the worker attaches it to            *)
(* last_event_id, the fire_event it inserted last, and the backfill to the *)
(* nearest transition line above it.                                       *)
(*                                                                         *)
(* A record's id is its place in the order of pushes; own, a history       *)
(* field, is the id of the transition whose scenario published the command.*)
(* A fire_event's serial event_id is represented by that transition's id.  *)
(***************************************************************************)
EXTENDS DbQueue, FiniteSets

CONSTANTS
  Scenario,    \* the command keys a scenario publishes, in order
  MaxRecords,  \* bound: records pushed in one life of the process
  MaxFailures  \* bound: failed appends to the fallback file

(* fire_scenario and recover_scenario publish no command key twice.        *)
ASSUME ScenarioAssumption ==
  /\ Scenario \in Seq(STRING)
  /\ \A i, j \in DOMAIN Scenario : Scenario[i] = Scenario[j] => i = j
ASSUME RecordsAssumption  == MaxRecords \in Nat
ASSUME FailuresAssumption == MaxFailures \in Nat \ {0}

VARIABLES
  todo,           \* what the running callback has yet to push
  pushed,         \* records pushed so far
  scene,          \* the id of the transition recorded last, 0 before any
  use_pg, conn,   \* DB_BACKEND=pg; the connection: none, ok or bad
  last_event_id,
  pg,             \* rows in the database: [rec, event]
  jsonl,          \* the lines of the fallback file that can be read
  torn,           \* the file ends inside a line
  failures        \* history: appends that failed

callback   == <<todo, pushed, scene>>
file       == <<jsonl, torn, failures>>
writerVars == <<conn, last_event_id, pg, jsonl, torn, failures>>
vars       == <<queueVars, callback, use_pg, writerVars>>

NoKey    == "none"
Keys     == {Scenario[i] : i \in DOMAIN Scenario}
Task     == [type : {"sensor", "button", "transition"}, key : {NoKey}]
              \cup [type : {"command"}, key : Keys]
DbRecord ==
  [type : {"sensor", "button", "transition"}, id : 0 .. MaxRecords, own : {0}, key : {NoKey}]
    \cup [type : {"command"}, id : 0 .. MaxRecords, own : 0 .. MaxRecords, key : Keys]

ASSUME DbRecordAssumption == DbRecord \subseteq Rec

InitWriter ==
  /\ Init
  /\ todo = <<>> /\ pushed = 0 /\ scene = 0
  /\ use_pg \in BOOLEAN
  /\ conn \in IF use_pg THEN {"none", "ok"} ELSE {"none"}
  /\ last_event_id = 0
  /\ pg = {} /\ jsonl = <<>>
  /\ torn \in BOOLEAN                    \* an earlier life's disk may have been full
  /\ failures = IF torn THEN 1 ELSE 0

-----------------------------------------------------------------------------
(* The callback thread.                                                    *)

Push(type, key) == [type |-> type, key |-> key]
Commands        == [i \in DOMAIN Scenario |-> Push("command", Scenario[i])]
Transition      == <<Push("transition", NoKey)>> \o Commands

(* What one callback records, in its order.  on_sensor records the cycle   *)
(* and, if it changed the zone, the transition and its commands; on_clear_ *)
(* fire records the transition and its commands; on_button the press.      *)
on_sensor     == {<<Push("sensor", NoKey)>>, <<Push("sensor", NoKey)>> \o Transition}
on_clear_fire == {Transition}
on_button     == {<<Push("button", NoKey)>>}

Receive ==
  /\ todo = <<>> /\ ~shutting_down
  /\ \E work \in on_sensor \cup on_clear_fire \cup on_button :
       /\ pushed + Len(work) <= MaxRecords
       /\ todo' = work
  /\ UNCHANGED <<queueVars, pushed, scene, use_pg, writerVars>>

(* db_write_sensor, _button, _transition and _command.                     *)
db_write ==
  /\ todo # <<>>
  /\ LET next == Head(todo)
         id   == pushed + 1
     IN  /\ scene' = IF next.type = "transition" THEN id ELSE scene
         /\ db_queue_push([type |-> next.type, id |-> id, key |-> next.key,
                           own |-> IF next.type = "command" THEN scene ELSE 0])
         /\ pushed' = id
  /\ todo' = Tail(todo)
  /\ UNCHANGED <<use_pg, writerVars>>

(* pub_action and pub_set record only what the broker took.                *)
PublishFails ==
  /\ todo # <<>> /\ Head(todo).type = "command"
  /\ todo' = Tail(todo)
  /\ UNCHANGED <<queueVars, pushed, scene, use_pg, writerVars>>

(* main: mqtt_bus_cleanup joins the callback thread, then db_writer_close. *)
Close ==
  /\ todo = <<>>
  /\ db_queue_shutdown
  /\ UNCHANGED <<callback, use_pg, writerVars>>

-----------------------------------------------------------------------------
(* The worker.                                                             *)

Pop  == db_queue_pop /\ UNCHANGED <<callback, use_pg, writerVars>>
Wake == SpuriousWakeup /\ UNCHANGED <<callback, use_pg, writerVars>>

(* Slip: a reconnected writer goes on using the event it inserted before.  *)
ReconnectedKeepingEvent == last_event_id

(* PQreset gives a new session; the first connection has nothing to forget.*)
Reconnected == IF conn = "bad" THEN 0 ELSE last_event_id

(* write_line_end, and what its ignored result and fflush's hide: the line *)
(* is written, but one behind a fragment shares its line and is lost with  *)
(* it; or the write fails, and leaves nothing or the beginning of a line   *)
(* (stdio throws the unwritten rest away).                                 *)
write_jsonl ==
  \/ /\ jsonl' = IF torn THEN jsonl ELSE Append(jsonl, rec)
     /\ torn' = FALSE
     /\ UNCHANGED failures
  \/ /\ failures < MaxFailures
     /\ failures' = failures + 1
     /\ torn' \in {torn, TRUE}
     /\ UNCHANGED jsonl

(* ensure_conn: a connection in use is kept; otherwise the attempt is not  *)
(* yet due, or fails, or connects.                                         *)
ensure_conn ==
  IF conn = "ok" THEN {[conn |-> "ok", last |-> last_event_id]}
  ELSE {[conn |-> conn, last |-> last_event_id], [conn |-> "ok", last |-> Reconnected]}

Rows(s)        == pg \cup s
Row(event)     == [rec |-> rec, event |-> event]
Conflict(last) == \E r \in pg : r.rec.type = "command" /\ r.event = last /\ r.rec.key = rec.key

(* What an INSERT may do: it is done, the server refuses the data, or the  *)
(* connection breaks, before the commit or after it.                       *)
Done    == [ok |-> TRUE,  conn |-> "ok",  stored |-> TRUE]
Refused == [ok |-> FALSE, conn |-> "ok",  stored |-> FALSE]
Broken  == {[ok |-> FALSE, conn |-> "bad", stored |-> s] : s \in BOOLEAN}
Answers == {Done, Refused} \cup Broken

(* ins_sensor and ins_button.                                              *)
ins_plain(last, a) ==
  /\ pg' = Rows(IF a.stored THEN {Row(0)} ELSE {})
  /\ last_event_id' = last

(* Slip: a failed event INSERT leaves last_event_id alone.                 *)
ins_event_keeping(last, a) ==
  /\ pg' = Rows(IF a.stored THEN {Row(rec.id)} ELSE {})
  /\ last_event_id' = IF a.ok THEN rec.id ELSE last

(* ins_event: a failure leaves no event for the commands behind it.        *)
ins_event(last, a) ==
  /\ pg' = Rows(IF a.stored THEN {Row(rec.id)} ELSE {})
  /\ last_event_id' = IF a.ok THEN rec.id ELSE 0

(* ins_command: ON CONFLICT (event_id, command_id) DO NOTHING is a success.*)
ins_command(last, a) ==
  /\ pg' = Rows(IF a.stored /\ ~Conflict(last) THEN {Row(last)} ELSE {})
  /\ last_event_id' = last

(* Slip: a record the server refuses is not worth a line.                  *)
FallbackWhenCutOff(a) == a.conn # "ok"

(* write_jsonl is called for whatever pg_write_record did not take.        *)
Fallback(a) == ~a.ok

pg_write_record(c, a) ==
  /\ CASE rec.type = "transition" -> ins_event(c.last, a)
       [] rec.type = "command"    -> ins_command(c.last, a)
       [] OTHER                   -> ins_plain(c.last, a)
  /\ conn' = a.conn
  /\ IF Fallback(a) THEN write_jsonl ELSE UNCHANGED file

(* No connection, or a command with no event to attach to.                 *)
OutOfReach(c) == c.conn # "ok" \/ (rec.type = "command" /\ c.last = 0)

WriteToPg ==
  /\ use_pg
  /\ \E c \in ensure_conn, a \in Answers : ~OutOfReach(c) /\ pg_write_record(c, a)
  /\ WriteDone
  /\ UNCHANGED <<callback, use_pg>>

WriteAround ==
  /\ use_pg
  /\ \E c \in ensure_conn :
       /\ OutOfReach(c)
       /\ conn' = c.conn /\ last_event_id' = c.last
  /\ write_jsonl
  /\ WriteDone
  /\ UNCHANGED <<callback, use_pg, pg>>

WriteLine ==
  /\ ~use_pg
  /\ write_jsonl
  /\ WriteDone
  /\ UNCHANGED <<callback, use_pg, conn, last_event_id, pg>>

Write == WriteToPg \/ WriteAround \/ WriteLine

NextWriter == Receive \/ db_write \/ PublishFails \/ Close \/ Pop \/ Wake \/ Write

(* The worker thread runs whenever it can; PQexec returns (libpq reports a *)
(* broken connection), so a write ends.  The callback thread and the       *)
(* signal that closes the process owe nothing.                             *)
Fairness == WF_vars(Pop) /\ WF_vars(Write)

SpecWriter == InitWriter /\ [][NextWriter]_vars /\ Fairness

-----------------------------------------------------------------------------
TypeOKWriter ==
  /\ TypeOK
  /\ todo \in Seq(Task)
  /\ pushed \in 0 .. MaxRecords /\ scene \in 0 .. pushed
  /\ use_pg \in BOOLEAN /\ conn \in {"none", "ok", "bad"}
  /\ last_event_id \in 0 .. pushed
  /\ pg \subseteq [rec : Rec, event : 0 .. MaxRecords]
  /\ jsonl \in Seq(Rec) /\ torn \in BOOLEAN /\ failures \in 0 .. MaxFailures

Queued  == LET ids(r) == {Contents(r)[k].id : k \in 1 .. Count(r)}
           IN  ids(sensor_ring) \cup ids(event_ring)
InHand  == IF workerAt = "writing" THEN {rec.id} ELSE {}
Written == {r.rec.id : r \in pg} \cup {jsonl[i].id : i \in DOMAIN jsonl}
Missing == (1 .. pushed) \ (Queued \cup InHand \cup Written)

(* The line written next, when it would join a fragment.                   *)
AtStake == IF torn THEN 1 ELSE 0

(* Whatever fails - the connection, the INSERT, its commit - a record the  *)
(* callback thread handed over is waiting, being written, in the database  *)
(* or a readable line of the JSONL file, unless a full ring gave it up or  *)
(* an append failed.  Every record a ring gave up is missing; and as long  *)
(* as no event was dropped, no more are missing than the rings counted and *)
(* the failed appends explain: a failure costs its own record and, if it   *)
(* tore the file, the one behind.  worker() in db_writer.c promises that   *)
(* data is kept while the database is away: so it is, up to those appends. *)
EveryRecordAccounted ==
  /\ Cardinality(Missing) >= sensor_ring.dropped + event_ring.dropped
  /\ event_ring.dropped = 0 =>
       Cardinality(Missing) + AtStake <= sensor_ring.dropped + 2 * failures

CommandRows == {r \in pg : r.rec.type = "command"}

(* As long as the event ring dropped nothing, every fire_event_command row *)
(* belongs to the event whose scenario published it, through any sequence  *)
(* of failed inserts and reconnections.                                    *)
CommandsJoinTheirEvent ==
  event_ring.dropped = 0 => \A r \in CommandRows : r.event = r.rec.own

(* db_queue.h on REC_COMMAND: the event ring is FIFO and the transition is *)
(* recorded first, so the event inserted last is exactly the right one.    *)
CommandsAlwaysJoinTheirEvent == \A r \in CommandRows : r.event = r.rec.own

(* The transition line backfill_jsonl.sql takes for the owner of line i.   *)
OwnerLine(i) ==
  LET above == {j \in 1 .. i - 1 : jsonl[j].type = "transition"}
  IN  IF above = {} THEN 0
      ELSE jsonl[CHOOSE j \in above : \A k \in above : k <= j].id

CommandLines == {i \in DOMAIN jsonl : jsonl[i].type = "command"}

(* Whatever PostgreSQL took, the rings dropped or a failed append lost in  *)
(* between, line order never gives a command to a later transition than    *)
(* the one whose scenario published it, and gives it to an earlier one (or *)
(* to none) only when its own has no readable line.                        *)
BackfillKeepsOwner ==
  \A i \in CommandLines :
    /\ OwnerLine(i) <= jsonl[i].own
    /\ (\E j \in DOMAIN jsonl : jsonl[j].type = "transition" /\ jsonl[j].id = jsonl[i].own)
         => OwnerLine(i) = jsonl[i].own

(* backfill_jsonl.sql, about the file a PostgreSQL writer leaves: a line   *)
(* the backfill attaches to an event is attached to its own event.         *)
BackfillFindsOwner ==
  event_ring.dropped = 0 =>
    \A i \in CommandLines : OwnerLine(i) \in {0, jsonl[i].own}

(* db_writer_close returns: once the shutdown is asked for, the worker     *)
(* drains both rings and leaves, whatever the database does.               *)
CloseReturns == shutting_down ~> workerAt = "exited"
=============================================================================
