-------------------------- MODULE FireServiceProofs --------------------------
(***************************************************************************)
(* For every set of zones, every kind and number of failures and every     *)
(* window of the MQTT clients: no command exists without its row; and once *)
(* everything was delivered, what the drivers accepted and the VMS did not *)
(* move since is as it was decided last.                                   *)
(***************************************************************************)
EXTENDS FireService, SequenceTheorems, TLAPS

-----------------------------------------------------------------------------
(* Queues.                                                                 *)

LEMMA InQueue == ASSUME NEW S, NEW s \in Seq(S) PROVE ToSet(s) \subseteq S
  BY DEF ToSet

LEMMA QueueMoves ==
  ASSUME NEW S, NEW s \in Seq(S)
  PROVE  /\ s # <<>> => Tail(s) \in Seq(S) /\ Head(s) \in S /\ Len(Tail(s)) = Len(s) - 1
         /\ \A i \in 1 .. Len(s) : s[i] \in S
         /\ \A x \in S : Append(s, x) \in Seq(S)
         /\ \A t \in Seq(S) : s \o t \in Seq(S) /\ Len(s \o t) = Len(s) + Len(t)
  OBVIOUS

LEMMA ClientMoves ==
  ASSUME NEW S, NEW c \in Client(S)
  PROVE  /\ \A msgs \in Seq(S) : Queue(c, msgs) \in Client(S)
         /\ Resend(c) \in Client(S)
         /\ Unsent(c) => Sent(c) \in Client(S) /\ NextToSend(c) \in S
         /\ c.sent > 0 => [unacked |-> Tail(c.unacked), sent |-> c.sent - 1] \in Client(S)
<1>1. ASSUME NEW msgs \in Seq(S) PROVE Queue(c, msgs) \in Client(S)
  <2>1. c.unacked \o msgs \in Seq(S) /\ Len(c.unacked \o msgs) >= Len(c.unacked)
    <3>1. c.unacked \in Seq(S)
      BY DEF Client
    <3> QED
      BY <3>1, QueueMoves
  <2>2. c \in [unacked : Seq(S), sent : Nat] /\ c.sent <= Len(c.unacked)
    BY DEF Client
  <2>3. Queue(c, msgs) = [unacked |-> c.unacked \o msgs, sent |-> c.sent]
    <3>1. \A q : [c EXCEPT !.unacked = q] = [unacked |-> q, sent |-> c.sent]
      BY <2>2
    <3> QED
      BY <3>1 DEF Queue
  <2> QED
    BY <2>1, <2>2, <2>3 DEF Client
<1>2. Resend(c) \in Client(S)
  BY DEF Client, Resend
<1>3. ASSUME Unsent(c) PROVE Sent(c) \in Client(S) /\ NextToSend(c) \in S
  BY <1>3 DEF Client, Unsent, Sent, NextToSend
<1>4. ASSUME c.sent > 0 PROVE [unacked |-> Tail(c.unacked), sent |-> c.sent - 1] \in Client(S)
  <2>1. c.unacked \in Seq(S) /\ c.sent \in Nat /\ c.sent <= Len(c.unacked) /\ c.unacked # <<>>
    BY <1>4 DEF Client
  <2>2. Tail(c.unacked) \in Seq(S) /\ Len(Tail(c.unacked)) = Len(c.unacked) - 1
    BY <2>1, QueueMoves
  <2> QED
    BY <1>4, <2>1, <2>2 DEF Client
<1> QED
  BY <1>1, <1>2, <1>3, <1>4

LEMMA NoClient == ASSUME NEW S PROVE NoMessages \in Client(S)
  BY DEF NoMessages, Client

-----------------------------------------------------------------------------
(* Commands and their rows.                                                *)

Of(e, z, on) == {m \in CmdMessage : m.event = e /\ m.zone = z /\ m.on = on}

LEMMA ScenarioIsOf ==
  ASSUME NEW e \in Nat \ {0}, NEW z \in Zone
  PROVE  /\ fire_scenario(e, z) \in Seq(Of(e, z, TRUE))
         /\ recover_scenario(e, z) \in Seq(Of(e, z, FALSE))
<1>1. ASSUME NEW c \in Command, NEW on \in BOOLEAN PROVE pub_cmd(e, z, c, on) \in Seq(Of(e, z, on))
  <2>1. Cmd(e, z, c, on) \in Of(e, z, on)
    BY DEF Of, Cmd, CmdMessage
  <2> QED
    BY <2>1 DEF pub_cmd
<1>2. {"servo_1", "shutter", "fan", "water_pump", "sound"} = Command
  BY DEF Command
<1>3. ASSUME NEW S, NEW s \in Seq(S), NEW t \in Seq(S) PROVE s \o t \in Seq(S)
  OBVIOUS
<1>4. fire_scenario(e, z) \in Seq(Of(e, z, TRUE))
  <2> DEFINE T(c) == pub_cmd(e, z, c, TRUE)
  <2>1. /\ T("servo_1") \in Seq(Of(e, z, TRUE)) /\ T("shutter") \in Seq(Of(e, z, TRUE)) /\ T("fan") \in Seq(Of(e, z, TRUE))
        /\ T("water_pump") \in Seq(Of(e, z, TRUE)) /\ T("sound") \in Seq(Of(e, z, TRUE))
    BY <1>1, <1>2
  <2> HIDE DEF T
  <2>2. T("servo_1") \o T("shutter") \o T("fan") \o T("water_pump") \o T("sound") \in Seq(Of(e, z, TRUE))
    BY <2>1, <1>3
  <2> QED
    BY <2>2 DEF fire_scenario, T
<1>5. recover_scenario(e, z) \in Seq(Of(e, z, FALSE))
  <2> DEFINE F(c) == pub_cmd(e, z, c, FALSE)
  <2>1. /\ F("fan") \in Seq(Of(e, z, FALSE)) /\ F("water_pump") \in Seq(Of(e, z, FALSE))
        /\ F("sound") \in Seq(Of(e, z, FALSE))
    BY <1>1, <1>2
  <2> HIDE DEF F
  <2>2. F("water_pump") \o F("sound") \o F("fan") \in Seq(Of(e, z, FALSE))
    BY <2>1, <1>3
  <2> QED
    BY <2>2 DEF recover_scenario, F
<1> QED
  BY <1>4, <1>5

(* Messages whose row exists, if they are commands.                        *)
Recorded ==
  {m \in Message : IsCmd(m) => /\ m.event \in 1 .. Len(fireEvents)
                               /\ fireEvents[m.event] = [zone |-> m.zone, on |-> m.on]}
QueuesRecorded ==
  /\ out \in Client(Recorded)
  /\ inbox \in Seq(Recorded \cap CmdMessage)
  /\ dout \in Client(Recorded \cap CmdMessage)
  /\ link \in [Zone -> Seq(Recorded)]

LEMMA Kinds ==
  /\ \A m \in CmdMessage : IsCmd(m)
  /\ \A m \in Message : IsCmd(m) <=> m \in CmdMessage
  /\ \A m \in Message : ~ IsCmd(m) <=> m \in DisplayMessage
  /\ \A b \in SUBSET Zone : Display(b) \in Recorded \cap DisplayMessage
  BY DEF Message, CmdMessage, DisplayMessage, IsCmd, Display, Recorded

LEMMA RecordedGrows ==
  ASSUME fireEvents \in Seq([zone : Zone, on : BOOLEAN]),
         \/ UNCHANGED fireEvents
         \/ \E r \in [zone : Zone, on : BOOLEAN] : fireEvents' = Append(fireEvents, r)
  PROVE  Recorded \subseteq Recorded'
  BY DEF Recorded

LEMMA QueuesImplyEvents == QueuesRecorded => CommandsHaveEvents
<1> SUFFICES ASSUME QueuesRecorded PROVE CommandsHaveEvents
  OBVIOUS
<1>1. InFlight \subseteq Recorded
  <2>1. ToSet(out.unacked) \subseteq Recorded /\ ToSet(inbox) \subseteq Recorded /\ ToSet(dout.unacked) \subseteq Recorded
    BY InQueue DEF QueuesRecorded, Client
  <2>2. ASSUME NEW z \in Zone PROVE ToSet(link[z]) \subseteq Recorded
    BY InQueue DEF QueuesRecorded
  <2> QED
    BY <2>1, <2>2 DEF InFlight
<1> QED
  BY <1>1 DEF CommandsHaveEvents, Recorded
-----------------------------------------------------------------------------
(* The invariant.                                                          *)

Subscribers ==
  /\ dispatchOn \in BOOLEAN /\ (~ dispatchOn => inbox = <<>>)
  /\ retained \subseteq Zone
  /\ \A z \in Zone : ~ node[z].on => link[z] = <<>>

ServiceInv ==
  DecisionTypes /\ QueuesRecorded /\ Subscribers /\ RowTypes /\ NodeTypes /\ HistoryTypes

LEMMA ClientGrows == ASSUME NEW S, NEW T, S \subseteq T, NEW c \in Client(S) PROVE c \in Client(T)
  BY DEF Client

LEMMA InvImpliesTypes == ServiceInv => TypeOK
<1> SUFFICES ASSUME ServiceInv PROVE TypeOK
  OBVIOUS
<1>1. Recorded \subseteq Message /\ Recorded \cap CmdMessage \subseteq CmdMessage
  BY DEF Recorded
<1>2. OutTypes
  BY <1>1, ClientGrows DEF ServiceInv, QueuesRecorded, OutTypes
<1>3. DispatchTypes
  <2>1. dout \in Client(CmdMessage)
    BY <1>1, ClientGrows DEF ServiceInv, QueuesRecorded
  <2>2. inbox \in Seq(CmdMessage)
    BY DEF ServiceInv, QueuesRecorded
  <2> QED
    BY <2>1, <2>2 DEF ServiceInv, Subscribers, DispatchTypes
<1>4. LinkTypes
  BY <1>1 DEF ServiceInv, QueuesRecorded, Subscribers, LinkTypes
<1> QED
  BY <1>2, <1>3, <1>4 DEF ServiceInv, TypeOK

LEMMA Kept ==
  ASSUME ServiceInv
  PROVE  /\ UNCHANGED decision => DecisionTypes' /\ Recorded' = Recorded
         /\ UNCHANGED <<alarm, boot>> /\ UNCHANGED fireEvents => DecisionTypes' /\ Recorded' = Recorded
         /\ UNCHANGED dispatch => UNCHANGED <<audit, unrecorded, inbox, dispatchOn, dout>>
         /\ UNCHANGED field => UNCHANGED <<link, node>>
         /\ UNCHANGED history => UNCHANGED <<burning, lost, asked>>
         /\ UNCHANGED <<audit, unrecorded>> => RowTypes'
         /\ UNCHANGED node => NodeTypes'
         /\ UNCHANGED <<steps, burning, lost, asked>> => HistoryTypes'
         /\ UNCHANGED <<inbox, dispatchOn, retained, link, node>> => Subscribers'
<1>1. UNCHANGED fireEvents => Recorded' = Recorded
  BY DEF Recorded
<1>2. UNCHANGED <<alarm, boot>> /\ UNCHANGED fireEvents => DecisionTypes'
  BY DEF ServiceInv, DecisionTypes
<1>3. UNCHANGED decision => UNCHANGED <<alarm, boot>> /\ UNCHANGED fireEvents
  BY DEF decision
<1>4. (UNCHANGED dispatch => UNCHANGED <<audit, unrecorded, inbox, dispatchOn, dout>>)
      /\ (UNCHANGED field => UNCHANGED <<link, node>>) /\ (UNCHANGED history => UNCHANGED <<burning, lost, asked>>)
  BY DEF dispatch, field, history
<1>5. UNCHANGED <<audit, unrecorded>> => RowTypes'
  BY DEF ServiceInv, RowTypes
<1>6. (UNCHANGED node => NodeTypes') /\ (UNCHANGED <<steps, burning, lost, asked>> => HistoryTypes')
  BY DEF ServiceInv, NodeTypes, HistoryTypes
<1>7. UNCHANGED <<inbox, dispatchOn, retained, link, node>> => Subscribers'
  BY DEF ServiceInv, Subscribers
<1> QED
  BY <1>1, <1>2, <1>3, <1>4, <1>5, <1>6, <1>7

LEMMA FaultTypes ==
  ASSUME ServiceInv, NEW k, Fault(k), NEW zones, lost' = Missed(zones) \/ UNCHANGED lost,
         burning' \in [Zone -> BOOLEAN], asked' \in [Zone -> BOOLEAN]
  PROVE  HistoryTypes'
<1>1. steps' \in StepTypes
  BY BoundsAssumption DEF ServiceInv, HistoryTypes, StepTypes, Fault
<1>2. lost' \in [Zone -> BOOLEAN]
  BY DEF ServiceInv, HistoryTypes, Missed
<1> QED
  BY <1>1, <1>2 DEF HistoryTypes

LEMMA MissedTypes ==
  ASSUME ServiceInv, NEW zones, lost' = Missed(zones) \/ UNCHANGED lost, UNCHANGED <<steps, burning, asked>>
  PROVE  HistoryTypes'
  BY DEF ServiceInv, HistoryTypes, Missed

-----------------------------------------------------------------------------
(* rpib_decision.                                                          *)

LEMMA DisplayRecorded ==
  ASSUME NEW b \in SUBSET Zone
  PROVE  <<Display(b)>> \in Seq(Recorded)
<1>1. Display(b) \in Recorded
  BY Kinds
<1> QED
  BY <1>1

LEMMA BootSteps == ASSUME ServiceInv, BootRead \/ BootPublish \/ Refresh PROVE ServiceInv'
<1> USE Kept
<1>0. FireZones \in SUBSET Zone /\ boot.bitmap \in SUBSET Zone
  BY DEF FireZones, ServiceInv, DecisionTypes
<1>1. CASE BootRead
  <2>1. DecisionTypes'
    BY <1>0, <1>1 DEF BootRead, ServiceInv, DecisionTypes
  <2>2. Recorded' = Recorded
    BY <1>1 DEF BootRead, Recorded
  <2>3. QueuesRecorded'
    BY <1>1, <2>2 DEF BootRead, ServiceInv, QueuesRecorded
  <2> QED
    BY <1>1, <2>1, <2>3 DEF BootRead, ServiceInv
<1>2. CASE BootPublish
  <2>1. DecisionTypes'
    BY <1>2 DEF BootPublish, ServiceInv, DecisionTypes
  <2>2. Recorded' = Recorded
    BY <1>2 DEF BootPublish, Recorded
  <2>3. out' \in Client(Recorded)
    BY <1>0, <1>2, DisplayRecorded, ClientMoves DEF BootPublish, ServiceInv, QueuesRecorded
  <2>4. QueuesRecorded'
    BY <1>2, <2>2, <2>3 DEF BootPublish, ServiceInv, QueuesRecorded
  <2> QED
    BY <1>2, <2>1, <2>4 DEF BootPublish, ServiceInv
<1>3. CASE Refresh
  <2>1. out' \in Client(Recorded)
    BY <1>0, <1>3, DisplayRecorded, ClientMoves DEF Refresh, ServiceInv, QueuesRecorded
  <2>2. QueuesRecorded'
    BY <1>3, <2>1 DEF Refresh, ServiceInv, QueuesRecorded
  <2> QED
    BY <1>3, <2>2 DEF Refresh, ServiceInv
<1> QED
  BY <1>1, <1>2, <1>3

LEMMA Removed ==
  ASSUME NEW S, NEW s \in Seq(S), NEW i \in DOMAIN s
  PROVE  /\ RemoveAt(s, i) \in Seq(S)
         /\ \A j \in DOMAIN RemoveAt(s, i) : \E k \in DOMAIN s : RemoveAt(s, i)[j] = s[k]
<1> DEFINE a == SubSeq(s, 1, i - 1)
           b == SubSeq(s, i + 1, Len(s))
           m == i - 1
           n == Len(s) - i
<1>1. i \in 1 .. Len(s) /\ Len(s) \in Nat /\ DOMAIN s = 1 .. Len(s) /\ \A k \in 1 .. Len(s) : s[k] \in S
  OBVIOUS
<1>2. m \in Nat /\ n \in Nat /\ Len(s) = m + n + 1 /\ i = m + 1 /\ i \in Int
  BY <1>1
<1>3. a \in Seq(S) /\ Len(a) = m /\ \A j \in 1 .. m : a[j] = s[j]
  <2>1. i - 1 \in Int /\ \A k \in 1 .. i - 1 : s[k] \in S
    BY <1>1, <1>2
  <2>2. /\ a \in Seq(S)
        /\ Len(a) = IF 1 <= i - 1 THEN (i - 1) - 1 + 1 ELSE 0
        /\ \A j \in 1 .. (i - 1) - 1 + 1 : a[j] = s[1 + j - 1]
    BY <2>1, SubSeqProperties
  <2> HIDE DEF a
  <2>3. (i - 1) - 1 + 1 = m /\ (IF 1 <= i - 1 THEN (i - 1) - 1 + 1 ELSE 0) = m
    <3>1. \A k \in Nat \ {0} : (k - 1) - 1 + 1 = k - 1 /\ (IF 1 <= k - 1 THEN (k - 1) - 1 + 1 ELSE 0) = k - 1
      OBVIOUS
    <3>2. i \in Nat \ {0}
      BY <1>1
    <3> QED
      BY <3>1, <3>2
  <2>4. \A j \in 1 .. m : 1 + j - 1 = j
    BY <1>2
  <2> QED
    BY <2>2, <2>3, <2>4
<1>4. b \in Seq(S) /\ Len(b) = n /\ \A j \in 1 .. n : b[j] = s[i + j]
  <2>1. i + 1 \in Int /\ Len(s) \in Int /\ \A k \in i + 1 .. Len(s) : s[k] \in S
    <3>1. \A l \in Nat : \A j \in 1 .. l : j + 1 .. l \subseteq 1 .. l
      OBVIOUS
    <3>2. i + 1 .. Len(s) \subseteq 1 .. Len(s)
      BY <1>1, <3>1
    <3> QED
      BY <1>1, <3>2
  <2>2. /\ b \in Seq(S)
        /\ Len(b) = IF i + 1 <= Len(s) THEN Len(s) - (i + 1) + 1 ELSE 0
        /\ \A j \in 1 .. Len(s) - (i + 1) + 1 : b[j] = s[(i + 1) + j - 1]
    BY <2>1, SubSeqProperties
  <2> HIDE DEF b
  <2>3. Len(s) - (i + 1) + 1 = n /\ (IF i + 1 <= Len(s) THEN Len(s) - (i + 1) + 1 ELSE 0) = n
    <3>1. \A l \in Nat : \A j \in 1 .. l :
            /\ l - (j + 1) + 1 = l - j
            /\ (IF j + 1 <= l THEN l - (j + 1) + 1 ELSE 0) = l - j
      OBVIOUS
    <3> QED
      BY <1>1, <3>1
  <2>4. \A j \in 1 .. n : (i + 1) + j - 1 = i + j
    BY <1>1, <1>2
  <2> QED
    BY <2>2, <2>3, <2>4
<1> HIDE DEF a, b, m, n
<1>5. /\ a \o b \in Seq(S) /\ DOMAIN (a \o b) = 1 .. m + n
      /\ \A j \in 1 .. m + n : (a \o b)[j] = IF j <= m THEN a[j] ELSE b[j - m]
  <2>1. a \in Seq(S) /\ b \in Seq(S) /\ Len(a) = m /\ Len(b) = n
    BY <1>3, <1>4
  <2>2. a \o b \in Seq(S) /\ Len(a \o b) = m + n
    BY <2>1
  <2>3. DOMAIN (a \o b) = 1 .. m + n
    BY <2>2
  <2>4. \A j \in 1 .. Len(a) + Len(b) : (a \o b)[j] = IF j <= Len(a) THEN a[j] ELSE b[j - Len(a)]
    BY <2>1, ConcatProperties
  <2>5. \A j \in 1 .. m + n : (a \o b)[j] = IF j <= m THEN a[j] ELSE b[j - m]
    BY <2>1, <2>4
  <2> QED
    BY <2>2, <2>3, <2>5
<1>6. \A j \in 1 .. m + n : \E k \in DOMAIN s : (a \o b)[j] = s[k]
  <2> TAKE j \in 1 .. m + n
  <2>1. CASE j <= m
    <3>1. j \in 1 .. m /\ j \in DOMAIN s
      BY <1>1, <1>2, <2>1
    <3>2. (a \o b)[j] = s[j]
      BY <1>3, <1>5, <2>1, <3>1
    <3> QED
      BY <3>1, <3>2
  <2>2. CASE ~ j <= m
    <3>1. j - m \in 1 .. n /\ i + (j - m) = j + 1 /\ j + 1 \in DOMAIN s
      BY <1>1, <1>2, <2>2
    <3>2. (a \o b)[j] = s[j + 1]
      BY <1>4, <1>5, <2>2, <3>1
    <3> QED
      BY <3>1, <3>2
  <2> QED
    BY <2>1, <2>2
<1>7. RemoveAt(s, i) = a \o b
  BY DEF RemoveAt, a, b
<1> QED
  BY <1>5, <1>6, <1>7

(* The row is there before the commands that name it.                      *)
LEMMA ActRecords ==
  ASSUME ServiceInv, NEW z \in Zone, NEW on \in BOOLEAN, NEW result \in Outcome,
         NEW first \in Seq(Recorded), Act(z, on, result, first), alarm' \in [Zone -> {"NORMAL", "FIRE"}]
  PROVE  /\ fireEvents' \in Seq([zone : Zone, on : BOOLEAN])
         /\ Recorded \subseteq Recorded'
         /\ out' \in Client(Recorded')
         /\ lost' \in [Zone -> BOOLEAN]
<1> DEFINE e == Len(fireEvents) + 1
           r == [zone |-> z, on |-> on]
           shown == Display({x \in Zone : alarm'[x] = "FIRE"})
           scenario == IF on THEN fire_scenario(e, z) ELSE recover_scenario(e, z)
<1>1. fireEvents \in Seq([zone : Zone, on : BOOLEAN]) /\ r \in [zone : Zone, on : BOOLEAN]
  BY DEF ServiceInv, DecisionTypes
<1>2. fireEvents' = fireEvents \/ fireEvents' = Append(fireEvents, r)
  BY DEF Act
<1>3. fireEvents' \in Seq([zone : Zone, on : BOOLEAN]) /\ Recorded \subseteq Recorded'
  <2>1. UNCHANGED fireEvents \/ \E x \in [zone : Zone, on : BOOLEAN] : fireEvents' = Append(fireEvents, x)
    BY <1>1, <1>2
  <2>2. Recorded \subseteq Recorded'
    BY <1>1, <2>1, RecordedGrows
  <2>3. fireEvents' \in Seq([zone : Zone, on : BOOLEAN])
    <3> DEFINE R == [zone : Zone, on : BOOLEAN]
    <3>1. fireEvents \in Seq(R) /\ (UNCHANGED fireEvents \/ \E x \in R : fireEvents' = Append(fireEvents, x))
      BY <1>1, <2>1
    <3> HIDE DEF R
    <3>2. fireEvents' \in Seq(R)
      BY <3>1
    <3> QED
      BY <3>2 DEF R
  <2> QED
    BY <2>2, <2>3
<1>4. ASSUME result \in {"stored", "unpublished"} PROVE <<shown>> \o scenario \in Seq(Recorded')
  <2>1. fireEvents' = Append(fireEvents, r)
    BY <1>4 DEF Act
  <2>2. e \in Nat \ {0} /\ e \in 1 .. Len(fireEvents') /\ fireEvents'[e] = r
    BY <1>1, <2>1
  <2>3. Of(e, z, on) \subseteq Recorded'
    BY <2>2 DEF Of, Recorded, Message, CmdMessage, IsCmd
  <2>4. scenario \in Seq(Of(e, z, on))
    BY <2>2, ScenarioIsOf
  <2>5. scenario \in Seq(Recorded')
    BY <2>3, <2>4
  <2>6. shown \in Recorded'
    BY <1>3, Kinds
  <2> QED
    BY <2>5, <2>6
<1>5. first \in Seq(Recorded')
  BY <1>3
<1>6. PICK taken \in Taken(result, <<shown>> \o scenario) : out' = Queue(out, first \o taken)
  BY DEF Act
<1>7. first \o taken \in Seq(Recorded')
  <2>1. taken \in Seq(Recorded')
    <3>1. CASE result = "stored"
      BY <1>4, <3>1 DEF Taken
    <3>2. CASE result = "unpublished"
      <4> DEFINE messages == <<shown>> \o scenario
                 S == Recorded'
      <4>1. messages \in Seq(S) /\ \E i \in DOMAIN messages : taken = RemoveAt(messages, i)
        BY <1>4, <3>2 DEF Taken
      <4> HIDE DEF messages, S
      <4>2. taken \in Seq(S)
        BY <4>1, Removed
      <4> QED
        BY <4>2 DEF S
    <3>3. CASE result \notin {"stored", "unpublished"}
      <4>1. \A messages : Taken(result, messages) = {<<>>}
        BY <3>3 DEF Taken, Outcome
      <4>2. taken = <<>>
        BY <4>1
      <4> QED
        BY <4>2
    <3> QED
      BY <3>1, <3>2, <3>3
  <2> QED
    BY <1>5, <2>1, QueueMoves
<1>8. out \in Client(Recorded')
  BY <1>3, ClientGrows DEF ServiceInv, QueuesRecorded
<1>9. out' \in Client(Recorded')
  BY <1>6, <1>7, <1>8, ClientMoves
<1>10. lost' \in [Zone -> BOOLEAN]
  BY DEF Act, ServiceInv, HistoryTypes
<1> QED
  BY <1>3, <1>9, <1>10

LEMMA CountedTypes ==
  ASSUME ServiceInv, NEW result, NEW clears \in {0, 1}, Counted(result, clears),
         steps.clears + clears <= MaxClears
  PROVE  steps' \in StepTypes
<1>1. /\ steps.faults \in 0 .. MaxFaults /\ steps.events \in 0 .. MaxEvents /\ steps.clears \in 0 .. MaxClears
      /\ MaxFaults \in Nat /\ MaxEvents \in Nat /\ MaxClears \in Nat /\ steps \in StepTypes
  BY BoundsAssumption DEF ServiceInv, HistoryTypes, StepTypes
<1>2. /\ steps' = [steps EXCEPT !.faults = IF result = "stored" THEN steps.faults ELSE steps.faults + 1,
                               !.events = steps.events + 1, !.clears = steps.clears + clears]
      /\ result # "stored" => steps.faults < MaxFaults
      /\ steps.events < MaxEvents
  BY DEF Counted
<1> DEFINE f == IF result = "stored" THEN steps.faults ELSE steps.faults + 1
<1>3. f \in 0 .. MaxFaults /\ steps.events + 1 \in 0 .. MaxEvents /\ steps.clears + clears \in 0 .. MaxClears
  BY <1>1, <1>2
<1> HIDE DEF f
<1>4. \A x \in 0 .. MaxFaults, y \in 0 .. MaxEvents, w \in 0 .. MaxClears :
        [steps EXCEPT !.faults = x, !.events = y, !.clears = w] \in StepTypes
  BY <1>1 DEF StepTypes
<1> QED
  BY <1>2, <1>3, <1>4 DEF f

LEMMA RestOfQueues ==
  ASSUME ServiceInv, Recorded \subseteq Recorded', out' \in Client(Recorded'),
         UNCHANGED <<dispatch, retained, field>>
  PROVE  QueuesRecorded' /\ Subscribers' /\ RowTypes' /\ NodeTypes'
<1>1. UNCHANGED <<audit, unrecorded, inbox, dispatchOn, dout, retained, link, node>>
  BY DEF dispatch, field
<1>2. dout' \in Client((Recorded \cap CmdMessage)')
  <2>1. Recorded \cap CmdMessage \subseteq Recorded' \cap CmdMessage
    OBVIOUS
  <2> QED
    BY <1>1, <2>1, ClientGrows DEF ServiceInv, QueuesRecorded
<1>3. inbox' \in Seq((Recorded \cap CmdMessage)') /\ link' \in [Zone -> Seq(Recorded')]
  BY <1>1 DEF ServiceInv, QueuesRecorded
<1> QED
  BY <1>1, <1>2, <1>3, Kept DEF QueuesRecorded

LEMMA ConfirmKeeps ==
  ASSUME ServiceInv, NEW z \in Zone, NEW result \in Outcome, NEW due \in BOOLEAN, Confirm(z, result, due)
  PROVE  ServiceInv'
<1> USE Kept
<1> DEFINE first == IF due THEN <<Display(FireZones \cup {z})>> ELSE <<>>
<1>1. alarm' \in [Zone -> {"NORMAL", "FIRE"}] /\ boot' = boot
  BY DEF Confirm, ServiceInv, DecisionTypes
<1>2. first \in Seq(Recorded)
  <2>1. FireZones \cup {z} \in SUBSET Zone
    BY DEF FireZones
  <2> QED
    BY <2>1, DisplayRecorded
<1>3. Act(z, TRUE, result, first)
  BY DEF Confirm
<1> HIDE DEF first
<1>4. /\ fireEvents' \in Seq([zone : Zone, on : BOOLEAN]) /\ Recorded \subseteq Recorded'
      /\ out' \in Client(Recorded') /\ lost' \in [Zone -> BOOLEAN]
  BY <1>1, <1>2, <1>3, ActRecords
<1>5. DecisionTypes'
  BY <1>1, <1>4 DEF ServiceInv, DecisionTypes
<1>6. QueuesRecorded' /\ Subscribers' /\ RowTypes' /\ NodeTypes'
  <2>1. UNCHANGED <<dispatch, retained, field>>
    BY DEF Confirm
  <2> QED
    BY <1>4, <2>1, RestOfQueues
<1>7. HistoryTypes'
  <2>1. Counted(result, 0) /\ steps.clears <= MaxClears /\ steps.clears \in Nat
    BY BoundsAssumption DEF Confirm, ServiceInv, HistoryTypes, StepTypes
  <2>2. steps' \in StepTypes
    BY <2>1, CountedTypes
  <2> QED
    BY <1>4, <2>2 DEF Confirm, ServiceInv, HistoryTypes
<1> QED
  BY <1>5, <1>6, <1>7 DEF ServiceInv

LEMMA ClearKeeps ==
  ASSUME ServiceInv, NEW z \in Zone, NEW result \in Outcome, ClearFire(z, result)
  PROVE  ServiceInv'
<1>0. /\ asked' \in [Zone -> BOOLEAN] /\ burning' \in [Zone -> BOOLEAN]
      /\ steps.clears < MaxClears /\ UNCHANGED <<boot, dispatch, retained, field>>
  BY DEF ClearFire, ServiceInv, HistoryTypes, NodeTypes
<1>1. CASE alarm[z] = "FIRE"
  <2>1. alarm' \in [Zone -> {"NORMAL", "FIRE"}] /\ Counted(result, 1) /\ Act(z, FALSE, result, <<>>)
    BY <1>1 DEF ClearFire, ServiceInv, DecisionTypes
  <2>2. <<>> \in Seq(Recorded)
    OBVIOUS
  <2>3. /\ fireEvents' \in Seq([zone : Zone, on : BOOLEAN]) /\ Recorded \subseteq Recorded'
        /\ out' \in Client(Recorded') /\ lost' \in [Zone -> BOOLEAN]
    BY <2>1, <2>2, ActRecords
  <2>4. DecisionTypes'
    BY <1>0, <2>1, <2>3 DEF ServiceInv, DecisionTypes
  <2>5. QueuesRecorded' /\ Subscribers' /\ RowTypes' /\ NodeTypes'
    BY <1>0, <2>3, RestOfQueues
  <2>6. steps' \in StepTypes
    <3>1. steps.clears + 1 <= MaxClears
      BY <1>0, BoundsAssumption DEF ServiceInv, HistoryTypes, StepTypes
    <3> QED
      BY <2>1, <3>1, CountedTypes
  <2>7. HistoryTypes'
    BY <1>0, <2>3, <2>6 DEF HistoryTypes
  <2> QED
    BY <2>4, <2>5, <2>7 DEF ServiceInv
<1>2. CASE alarm[z] # "FIRE"
  <2>1. UNCHANGED <<alarm, fireEvents, out, lost>> /\ steps' = [steps EXCEPT !.clears = @ + 1]
    BY <1>2 DEF ClearFire
  <2>2. DecisionTypes' /\ Recorded' = Recorded
    BY <1>0, <2>1, Kept
  <2>3. out' \in Client(Recorded')
    BY <2>1, <2>2 DEF ServiceInv, QueuesRecorded
  <2>4. QueuesRecorded' /\ Subscribers' /\ RowTypes' /\ NodeTypes'
    BY <1>0, <2>2, <2>3, RestOfQueues
  <2>5. HistoryTypes'
    BY <1>0, <2>1, BoundsAssumption DEF ServiceInv, HistoryTypes, StepTypes
  <2> QED
    BY <2>2, <2>4, <2>5 DEF ServiceInv
<1> QED
  BY <1>1, <1>2

LEMMA CrashKeeps == ASSUME ServiceInv, DecisionCrash \/ DecisionReconnect PROVE ServiceInv'
<1>1. CASE DecisionCrash
  <2>1. UNCHANGED <<fireEvents, dispatch, retained, field, burning, asked>>
    BY <1>1 DEF DecisionCrash
  <2>2. DecisionTypes' /\ Recorded' = Recorded
    BY <1>1 DEF DecisionCrash, ServiceInv, DecisionTypes, Recorded
  <2>3. out' \in Client(Recorded')
    BY <1>1, NoClient DEF DecisionCrash
  <2>4. QueuesRecorded' /\ Subscribers' /\ RowTypes' /\ NodeTypes'
    BY <2>1, <2>2, <2>3, RestOfQueues
  <2>5. HistoryTypes'
    <3>1. Fault("decision_crash") /\ lost' = Missed(FireZones \cup LosesFor(ToSet(out.unacked)))
      BY <1>1 DEF DecisionCrash
    <3>2. burning' \in [Zone -> BOOLEAN] /\ asked' \in [Zone -> BOOLEAN]
      BY <2>1 DEF ServiceInv, HistoryTypes
    <3> QED
      BY <3>1, <3>2, FaultTypes
  <2> QED
    BY <2>2, <2>4, <2>5 DEF ServiceInv
<1>2. CASE DecisionReconnect
  <2>1. /\ UNCHANGED decision /\ UNCHANGED <<dispatch, retained, field>> /\ UNCHANGED history
        /\ Fault("decision_link") /\ out' = Resend(out)
    BY <1>2 DEF DecisionReconnect
  <2>2. DecisionTypes' /\ Recorded' = Recorded
    BY <2>1, Kept
  <2>3. out' \in Client(Recorded')
    BY <2>1, <2>2, ClientMoves DEF ServiceInv, QueuesRecorded
  <2>4. QueuesRecorded' /\ Subscribers' /\ RowTypes' /\ NodeTypes'
    BY <2>1, <2>2, <2>3, RestOfQueues
  <2>5. HistoryTypes'
    <3>1. UNCHANGED <<burning, lost, asked>>
      BY <2>1 DEF history
    <3>2. burning' \in [Zone -> BOOLEAN] /\ asked' \in [Zone -> BOOLEAN]
      BY <3>1 DEF ServiceInv, HistoryTypes
    <3> QED
      BY <2>1, <3>1, <3>2, FaultTypes
  <2> QED
    BY <2>2, <2>4, <2>5 DEF ServiceInv
<1> QED
  BY <1>1, <1>2

-----------------------------------------------------------------------------
(* The broker and rpib_dispatch.                                           *)

(* Nothing is queued for an RPi C that is away.                            *)
LEMMA DeliveredTypes ==
  ASSUME ServiceInv, NEW z \in Zone, NEW m \in Recorded
  PROVE  /\ Delivered(z, m) \in Seq(Recorded)
         /\ ~ node[z].on => Delivered(z, m) = <<>>
<1>1. link[z] \in Seq(Recorded) /\ (~ node[z].on => link[z] = <<>>)
  BY DEF ServiceInv, QueuesRecorded, Subscribers
<1>2. Append(link[z], m) \in Seq(Recorded)
  BY <1>1
<1> QED
  BY <1>1, <1>2 DEF Delivered

LEMMA SendKeeps == ASSUME ServiceInv, DecisionSend PROVE ServiceInv'
<1> DEFINE m == NextToSend(out)
<1>0. /\ UNCHANGED decision /\ UNCHANGED <<audit, unrecorded, dispatchOn, dout, node, steps, burning, asked>>
      /\ Unsent(out) /\ out' = Sent(out)
  BY DEF DecisionSend
<1>1. m \in Recorded /\ out' \in Client(Recorded) /\ m \in Message
  <2>1. m \in Recorded /\ out' \in Client(Recorded)
    BY <1>0, ClientMoves DEF ServiceInv, QueuesRecorded
  <2> QED
    BY <2>1 DEF Recorded
<1>2. DecisionTypes' /\ Recorded' = Recorded
  BY <1>0, Kept
<1>3. RowTypes' /\ NodeTypes'
  BY <1>0, Kept
<1> HIDE DEF m
<1>4. CASE IsCmd(m)
  <2>1. /\ inbox' = IF dispatchOn THEN Append(inbox, m) ELSE inbox
        /\ lost' = IF dispatchOn THEN lost ELSE Missed({m.zone})
        /\ UNCHANGED <<retained, link>>
    <3>1. m.kind # "display"
      BY <1>4 DEF IsCmd
    <3> QED
      BY <1>4, <3>1 DEF DecisionSend, m
  <2>2. inbox' \in Seq(Recorded \cap CmdMessage)
    <3>1. m \in Recorded \cap CmdMessage
      BY <1>1, <1>4, Kinds
    <3> QED
      BY <2>1, <3>1 DEF ServiceInv, QueuesRecorded
  <2>3. QueuesRecorded'
    <3>1. dout' \in Client((Recorded \cap CmdMessage)') /\ link' \in [Zone -> Seq(Recorded')]
      BY <1>0, <1>2, <2>1 DEF ServiceInv, QueuesRecorded
    <3>2. out' \in Client(Recorded') /\ inbox' \in Seq((Recorded \cap CmdMessage)')
      BY <1>1, <1>2, <2>2
    <3> QED
      BY <3>1, <3>2 DEF QueuesRecorded
  <2>4. Subscribers'
    BY <1>0, <2>1 DEF ServiceInv, Subscribers
  <2>5. HistoryTypes'
    BY <1>0, <2>1, MissedTypes
  <2> QED
    BY <1>2, <1>3, <2>3, <2>4, <2>5 DEF ServiceInv
<1>5. CASE ~ IsCmd(m)
  <2>1. m \in DisplayMessage /\ m.kind = "display" /\ m.bitmap \subseteq Zone
    <3>1. m \in DisplayMessage
      BY <1>1, <1>5, Kinds
    <3> QED
      BY <3>1 DEF DisplayMessage
  <2>2. /\ retained' = m.bitmap
        /\ link' = [z \in Zone |-> Delivered(z, m)]
        /\ UNCHANGED <<inbox, lost>>
    BY <1>5, <2>1 DEF DecisionSend, m
  <2>3. link' \in [Zone -> Seq(Recorded)] /\ \A z \in Zone : ~ node[z].on => link'[z] = <<>>
    BY <1>1, <2>2, DeliveredTypes
  <2>4. QueuesRecorded'
    <3>1. dout' \in Client((Recorded \cap CmdMessage)') /\ inbox' \in Seq((Recorded \cap CmdMessage)')
      BY <1>0, <1>2, <2>2 DEF ServiceInv, QueuesRecorded
    <3>2. out' \in Client(Recorded') /\ link' \in [Zone -> Seq(Recorded')]
      BY <1>1, <1>2, <2>3
    <3> QED
      BY <3>1, <3>2 DEF QueuesRecorded
  <2>5. Subscribers'
    BY <1>0, <2>1, <2>2, <2>3 DEF ServiceInv, Subscribers
  <2>6. HistoryTypes'
    BY <1>0, <2>2, MissedTypes
  <2> QED
    BY <1>2, <1>3, <2>4, <2>5, <2>6 DEF ServiceInv
<1> QED
  BY <1>4, <1>5

LEMMA AckKeeps == ASSUME ServiceInv, DecisionAcked PROVE ServiceInv'
<1>1. /\ UNCHANGED decision /\ UNCHANGED <<dispatch, retained, field>> /\ UNCHANGED <<steps, history>>
      /\ out.sent > 0 /\ out' = [unacked |-> Tail(out.unacked), sent |-> out.sent - 1]
  BY DEF DecisionAcked
<1>2. DecisionTypes' /\ Recorded' = Recorded
  BY <1>1, Kept
<1>3. out' \in Client(Recorded')
  BY <1>1, <1>2, ClientMoves DEF ServiceInv, QueuesRecorded
<1>4. QueuesRecorded' /\ Subscribers' /\ RowTypes' /\ NodeTypes'
  BY <1>1, <1>2, <1>3, RestOfQueues
<1>5. HistoryTypes'
  BY <1>1, Kept DEF history
<1> QED
  BY <1>2, <1>4, <1>5 DEF ServiceInv

LEMMA CmdKeeps ==
  ASSUME ServiceInv, NEW published \in BOOLEAN, NEW recorded \in BOOLEAN, on_fire_cmd(published, recorded)
  PROVE  ServiceInv'
<1> DEFINE m == Head(inbox)
<1>0. /\ UNCHANGED decision /\ UNCHANGED <<out, dispatchOn, retained, link, node, burning, asked>>
      /\ dispatchOn /\ inbox # <<>> /\ inbox' = Tail(inbox) /\ (recorded => published)
  BY DEF on_fire_cmd, field
<1>1. m \in Recorded \cap CmdMessage /\ inbox' \in Seq(Recorded \cap CmdMessage)
  BY <1>0, QueueMoves DEF ServiceInv, QueuesRecorded
<1>2. /\ dout' = IF published THEN Queue(dout, <<m>>) ELSE dout
      /\ unrecorded' = IF published /\ ~ recorded THEN unrecorded \cup {Row(m)} ELSE unrecorded
      /\ audit' = IF recorded THEN audit \cup {Row(m)} ELSE audit
      /\ lost' = IF published THEN lost ELSE Missed({m.zone})
  BY DEF on_fire_cmd
<1>3. (~ recorded => Fault(IF published THEN "db" ELSE "publish")) /\ (recorded => UNCHANGED steps)
  BY DEF on_fire_cmd
<1> HIDE DEF m
<1>4. DecisionTypes' /\ Recorded' = Recorded /\ NodeTypes'
  BY <1>0, Kept
<1>5. dout' \in Client(Recorded \cap CmdMessage)
  <2>1. <<m>> \in Seq(Recorded \cap CmdMessage)
    BY <1>1
  <2> QED
    BY <1>2, <2>1, ClientMoves DEF ServiceInv, QueuesRecorded
<1>6. QueuesRecorded'
  <2>1. out' \in Client(Recorded') /\ link' \in [Zone -> Seq(Recorded')]
    BY <1>0, <1>4 DEF ServiceInv, QueuesRecorded
  <2>2. dout' \in Client((Recorded \cap CmdMessage)') /\ inbox' \in Seq((Recorded \cap CmdMessage)')
    BY <1>1, <1>4, <1>5
  <2> QED
    BY <2>1, <2>2 DEF QueuesRecorded
<1>7. Subscribers'
  BY <1>0 DEF ServiceInv, Subscribers
<1>8. RowTypes'
  <2>1. Row(m) \in [event : Nat \ {0}, command : Command]
    BY <1>1 DEF Row, CmdMessage
  <2>2. audit \cup unrecorded \subseteq [event : Nat \ {0}, command : Command]
    BY DEF ServiceInv, RowTypes
  <2> QED
    BY <1>2, <2>1, <2>2 DEF RowTypes
<1>9. HistoryTypes'
  <2>1. lost' = Missed({m.zone}) \/ UNCHANGED lost
    BY <1>2
  <2>2. burning' \in [Zone -> BOOLEAN] /\ asked' \in [Zone -> BOOLEAN]
    BY <1>0 DEF ServiceInv, HistoryTypes
  <2>3. CASE recorded
    BY <1>0, <1>3, <2>1, <2>3, MissedTypes
  <2>4. CASE ~ recorded
    BY <1>3, <2>1, <2>2, <2>4, FaultTypes
  <2> QED
    BY <2>3, <2>4
<1> QED
  BY <1>4, <1>6, <1>7, <1>8, <1>9 DEF ServiceInv

LEMMA DispatchSendKeeps == ASSUME ServiceInv, DispatchSend PROVE ServiceInv'
<1> DEFINE m == NextToSend(dout)
<1>0. /\ UNCHANGED decision
      /\ UNCHANGED <<out, audit, unrecorded, inbox, dispatchOn, retained, node, steps, burning, asked>>
      /\ Unsent(dout) /\ dout' = Sent(dout)
      /\ link' = [link EXCEPT ![m.zone] = Delivered(m.zone, m)]
      /\ lost' = Missed({m.zone}) \/ UNCHANGED lost
  BY DEF DispatchSend
<1>1. m \in Recorded \cap CmdMessage /\ dout' \in Client(Recorded \cap CmdMessage)
  BY <1>0, ClientMoves DEF ServiceInv, QueuesRecorded
<1> HIDE DEF m
<1>2. DecisionTypes' /\ Recorded' = Recorded /\ RowTypes' /\ NodeTypes'
  BY <1>0, Kept
<1>3. link' \in [Zone -> Seq(Recorded)] /\ \A z \in Zone : ~ node[z].on => link'[z] = <<>>
  <2>1. m.zone \in Zone /\ m \in Recorded
    BY <1>1 DEF CmdMessage
  <2>2. Delivered(m.zone, m) \in Seq(Recorded) /\ (~ node[m.zone].on => Delivered(m.zone, m) = <<>>)
    BY <2>1, DeliveredTypes
  <2>3. link \in [Zone -> Seq(Recorded)] /\ \A z \in Zone : ~ node[z].on => link[z] = <<>>
    BY DEF ServiceInv, QueuesRecorded, Subscribers
  <2> QED
    BY <1>0, <2>1, <2>2, <2>3
<1>4. QueuesRecorded'
  <2>1. dout' \in Client((Recorded \cap CmdMessage)') /\ link' \in [Zone -> Seq(Recorded')]
    BY <1>1, <1>2, <1>3
  <2>2. out' \in Client(Recorded') /\ inbox' \in Seq((Recorded \cap CmdMessage)')
    BY <1>0, <1>2 DEF ServiceInv, QueuesRecorded
  <2> QED
    BY <2>1, <2>2 DEF QueuesRecorded
<1>5. Subscribers'
  BY <1>0, <1>3 DEF ServiceInv, Subscribers
<1>6. HistoryTypes'
  BY <1>0, MissedTypes
<1> QED
  BY <1>2, <1>4, <1>5, <1>6 DEF ServiceInv

(* The queues of the dispatcher and of the RPi C may only shrink in the    *)
(* other steps.                                                            *)
LEMMA QueuesKept ==
  ASSUME ServiceInv, UNCHANGED decision, UNCHANGED out,
         inbox' \in Seq(Recorded \cap CmdMessage), dout' \in Client(Recorded \cap CmdMessage),
         link' \in [Zone -> Seq(Recorded)]
  PROVE  QueuesRecorded' /\ DecisionTypes'
<1>1. DecisionTypes' /\ Recorded' = Recorded
  BY Kept
<1>2. out' \in Client(Recorded') /\ link' \in [Zone -> Seq(Recorded')]
  BY <1>1 DEF ServiceInv, QueuesRecorded
<1>3. dout' \in Client((Recorded \cap CmdMessage)') /\ inbox' \in Seq((Recorded \cap CmdMessage)')
  BY <1>1
<1> QED
  BY <1>1, <1>2, <1>3 DEF QueuesRecorded

LEMMA DispatchKeeps ==
  ASSUME ServiceInv, DispatchAcked \/ DispatchUp \/ \E crash \in BOOLEAN : DispatchDown(crash)
  PROVE  ServiceInv'
<1>0. /\ inbox \in Seq(Recorded \cap CmdMessage) /\ dout \in Client(Recorded \cap CmdMessage)
      /\ link \in [Zone -> Seq(Recorded)]
  BY DEF ServiceInv, QueuesRecorded
<1>1. CASE DispatchAcked
  <2>1. /\ UNCHANGED decision /\ UNCHANGED <<out, audit, unrecorded, inbox, dispatchOn, retained, link, node>>
        /\ UNCHANGED <<steps, burning, lost, asked>>
        /\ dout.sent > 0 /\ dout' = [unacked |-> Tail(dout.unacked), sent |-> dout.sent - 1]
    BY <1>1 DEF DispatchAcked, field, history
  <2>2. dout' \in Client(Recorded \cap CmdMessage)
    <3> DEFINE S == Recorded \cap CmdMessage
    <3>1. dout \in Client(S)
      BY <1>0
    <3> HIDE DEF S
    <3>2. [unacked |-> Tail(dout.unacked), sent |-> dout.sent - 1] \in Client(S)
      BY <2>1, <3>1, ClientMoves
    <3> QED
      BY <2>1, <3>2 DEF S
  <2>3. QueuesRecorded' /\ DecisionTypes'
    BY <1>0, <2>1, <2>2, QueuesKept
  <2>4. Subscribers' /\ RowTypes' /\ NodeTypes' /\ HistoryTypes'
    BY <2>1, Kept
  <2> QED
    BY <2>3, <2>4 DEF ServiceInv
<1>2. CASE DispatchUp
  <2>1. /\ UNCHANGED decision /\ UNCHANGED <<out, audit, unrecorded, inbox, dout, retained, link, node>>
        /\ UNCHANGED <<steps, burning, lost, asked>>
        /\ dispatchOn' = TRUE
    BY <1>2 DEF DispatchUp, field, history
  <2>2. QueuesRecorded' /\ DecisionTypes'
    BY <1>0, <2>1, QueuesKept
  <2>3. RowTypes' /\ NodeTypes' /\ HistoryTypes'
    BY <2>1, Kept
  <2>4. Subscribers'
    BY <2>1 DEF ServiceInv, Subscribers
  <2> QED
    BY <2>2, <2>3, <2>4 DEF ServiceInv
<1>3. ASSUME NEW crash \in BOOLEAN, DispatchDown(crash) PROVE ServiceInv'
  <2>1. /\ UNCHANGED decision /\ UNCHANGED <<out, audit, unrecorded, retained, link, node, burning, asked>>
        /\ dispatchOn' = FALSE /\ inbox' = <<>>
        /\ dout' = IF crash THEN NoMessages ELSE Resend(dout)
        /\ Fault(IF crash THEN "dispatch_crash" ELSE "dispatch_link")
        /\ lost' = Missed(LosesFor(ToSet(inbox) \cup IF crash THEN ToSet(dout.unacked) ELSE {}))
    BY <1>3 DEF DispatchDown, field
  <2>2. dout' \in Client(Recorded \cap CmdMessage) /\ inbox' \in Seq(Recorded \cap CmdMessage)
    <3> DEFINE S == Recorded \cap CmdMessage
    <3>1. dout \in Client(S)
      BY <1>0
    <3> HIDE DEF S
    <3>2. Resend(dout) \in Client(S) /\ NoMessages \in Client(S)
      BY <3>1, ClientMoves, NoClient
    <3> QED
      BY <2>1, <3>2 DEF S
  <2>3. QueuesRecorded' /\ DecisionTypes'
    BY <1>0, <2>1, <2>2, QueuesKept
  <2>4. RowTypes' /\ NodeTypes'
    BY <2>1, Kept
  <2>5. Subscribers'
    BY <2>1 DEF ServiceInv, Subscribers
  <2>6. HistoryTypes'
    <3>1. burning' \in [Zone -> BOOLEAN] /\ asked' \in [Zone -> BOOLEAN]
      BY <2>1 DEF ServiceInv, HistoryTypes
    <3> QED
      BY <2>1, <3>1, FaultTypes
  <2> QED
    BY <2>3, <2>4, <2>5, <2>6 DEF ServiceInv
<1> QED
  BY <1>1, <1>2, <1>3

-----------------------------------------------------------------------------
(* rpic_subscriber.                                                        *)

NodeState == [on : BOOLEAN, pump : BOOLEAN, valveShut : BOOLEAN, shutterShut : BOOLEAN,
              fire_active : BOOLEAN, strayed : SUBSET Command]

LEMMA CommandedMoves ==
  ASSUME NEW n \in NodeState, NEW m \in CmdMessage, NEW ok \in BOOLEAN
  PROVE  /\ Commanded(n, m, ok) \in NodeState /\ Commanded(n, m, ok).on = n.on
         /\ \A c \in Command : c # m.command =>
              /\ c \in n.strayed => c \in Commanded(n, m, ok).strayed
              /\ c = "servo_1" => Commanded(n, m, ok).valveShut = n.valveShut
              /\ c = "shutter" => Commanded(n, m, ok).shutterShut = n.shutterShut
              /\ c = "water_pump" => Commanded(n, m, ok).pump = n.pump
         /\ \/ m.command \in Commanded(n, m, ok).strayed
            \/ /\ m.command = "servo_1" => Commanded(n, m, ok).valveShut = m.on
               /\ m.command = "shutter" => Commanded(n, m, ok).shutterShut = m.on
               /\ m.command = "water_pump" => Commanded(n, m, ok).pump = m.on
<1>1. m.command \in Command /\ m.on \in BOOLEAN
  BY DEF CmdMessage
<1> DEFINE d == DISPATCH_CMD(n, m.command, m.on, ok)
           e == Driven(n, m.command, m.on)
<1>2. /\ e \in NodeState /\ e.on = n.on /\ e.strayed = n.strayed
      /\ e.valveShut = IF m.command = "servo_1" THEN m.on ELSE n.valveShut
      /\ e.shutterShut = IF m.command = "shutter" THEN m.on ELSE n.shutterShut
      /\ e.pump = IF m.command = "water_pump" THEN m.on ELSE n.pump
  BY <1>1 DEF Driven, NodeState, Command
<1>3. d = IF ok THEN e ELSE n
  BY DEF DISPATCH_CMD
<1> DEFINE r == IF ok \/ e = n THEN d.strayed \ {m.command} ELSE d.strayed \cup {m.command}
<1>4. Commanded(n, m, ok) = [d EXCEPT !.strayed = r]
  BY DEF Commanded
<1> HIDE DEF d, e
<1>5. d \in NodeState /\ r \in SUBSET Command
  BY <1>1, <1>2, <1>3 DEF NodeState
<1>6. /\ Commanded(n, m, ok) \in NodeState /\ Commanded(n, m, ok).strayed = r
      /\ Commanded(n, m, ok).on = d.on /\ Commanded(n, m, ok).valveShut = d.valveShut
      /\ Commanded(n, m, ok).shutterShut = d.shutterShut /\ Commanded(n, m, ok).pump = d.pump
  <2> HIDE DEF r
  <2> QED
    BY <1>4, <1>5 DEF NodeState
<1> QED
  BY <1>1, <1>2, <1>3, <1>6

LEMMA ReceiveKeeps ==
  ASSUME ServiceInv, NEW z \in Zone, NEW ok \in BOOLEAN, NodeReceive(z, ok) PROVE ServiceInv'
<1> DEFINE m == Head(link[z])
<1>0. /\ UNCHANGED decision /\ UNCHANGED <<out, audit, unrecorded, inbox, dispatchOn, dout, retained>>
      /\ UNCHANGED <<burning, lost>>
      /\ (~ ok => Fault("driver")) /\ (ok => UNCHANGED steps)
      /\ node[z].on /\ link[z] # <<>> /\ link' = [link EXCEPT ![z] = Tail(link[z])]
      /\ asked' = [asked EXCEPT ![z] = asked[z] /\ node'[z].pump]
      /\ node' = [node EXCEPT ![z] = IF IsCmd(m) THEN Commanded(node[z], m, ok)
                                     ELSE matrix_link_handle_fire(node[z], m.bitmap, ok)]
  BY DEF NodeReceive, dispatch
<1>1. /\ inbox \in Seq(Recorded \cap CmdMessage) /\ dout \in Client(Recorded \cap CmdMessage)
      /\ link \in [Zone -> Seq(Recorded)] /\ node \in [Zone -> NodeState]
  BY DEF ServiceInv, QueuesRecorded, NodeTypes, NodeState
<1>2. m \in Recorded /\ Tail(link[z]) \in Seq(Recorded)
  BY <1>0, <1>1, QueueMoves
<1> HIDE DEF m
<1>3. link' \in [Zone -> Seq(Recorded)] /\ \A x \in Zone : x # z => link'[x] = link[x]
  BY <1>0, <1>1, <1>2
<1>4. QueuesRecorded' /\ DecisionTypes'
  BY <1>0, <1>1, <1>3, QueuesKept
<1>5. RowTypes'
  BY <1>0, Kept
<1>6. node'[z] \in NodeState /\ node'[z].on /\ node' \in [Zone -> NodeState]
      /\ \A x \in Zone : x # z => node'[x] = node[x]
  <2>1. node[z] \in NodeState
    BY <1>1
  <2>2. CASE IsCmd(m)
    <3>1. m \in CmdMessage
      BY <1>2, <2>2, Kinds DEF Recorded
    <3>2. Commanded(node[z], m, ok) \in NodeState /\ Commanded(node[z], m, ok).on = node[z].on
      BY <2>1, <3>1, CommandedMoves
    <3> QED
      BY <1>0, <1>1, <2>2, <3>2
  <2>3. CASE ~ IsCmd(m)
    <3>1. matrix_link_handle_fire(node[z], m.bitmap, ok) \in NodeState
          /\ matrix_link_handle_fire(node[z], m.bitmap, ok).on = node[z].on
      BY <2>1 DEF matrix_link_handle_fire, NodeState
    <3> QED
      BY <1>0, <1>1, <2>3, <3>1
  <2> QED
    BY <2>2, <2>3
<1>7. NodeTypes'
  BY <1>6 DEF NodeTypes, NodeState
<1>8. Subscribers'
  BY <1>0, <1>3, <1>6 DEF ServiceInv, Subscribers
<1>9. HistoryTypes'
  <2>1. asked' \in [Zone -> BOOLEAN] /\ burning' \in [Zone -> BOOLEAN]
    <3>1. node'[z].pump \in BOOLEAN
      BY <1>6 DEF NodeState
    <3> QED
      BY <1>0, <3>1 DEF ServiceInv, HistoryTypes
  <2>2. CASE ~ ok
    BY <1>0, <2>1, <2>2, FaultTypes
  <2>3. CASE ok
    BY <1>0, <2>1, <2>3 DEF ServiceInv, HistoryTypes
  <2> QED
    BY <2>2, <2>3
<1> QED
  BY <1>4, <1>5, <1>7, <1>8, <1>9 DEF ServiceInv

LEMMA NodeKeeps ==
  ASSUME ServiceInv, NEW z \in Zone,
         \/ NodeUp(z) \/ \E crash \in BOOLEAN : NodeDown(z, crash)
         \/ \E c \in Actuator, on \in BOOLEAN : ManualCommand(z, c, on)
  PROVE  ServiceInv'
<1>0. /\ inbox \in Seq(Recorded \cap CmdMessage) /\ dout \in Client(Recorded \cap CmdMessage)
      /\ link \in [Zone -> Seq(Recorded)] /\ node \in [Zone -> NodeState] /\ retained \subseteq Zone
  BY DEF ServiceInv, QueuesRecorded, Subscribers, NodeTypes, NodeState
<1>1. CASE NodeUp(z)
  <2>1. /\ UNCHANGED decision /\ UNCHANGED <<out, audit, unrecorded, inbox, dispatchOn, dout, retained>>
        /\ UNCHANGED <<steps, burning, lost, asked>>
        /\ node' = [node EXCEPT ![z].on = TRUE] /\ link' = [link EXCEPT ![z] = <<Display(retained)>>]
    BY <1>1 DEF NodeUp, dispatch, history
  <2>2. link' \in [Zone -> Seq(Recorded)] /\ \A x \in Zone : x # z => link'[x] = link[x]
    BY <1>0, <2>1, DisplayRecorded
  <2>3. node' \in [Zone -> NodeState] /\ node'[z].on /\ \A x \in Zone : x # z => node'[x] = node[x]
    BY <1>0, <2>1 DEF NodeState
  <2>4. QueuesRecorded' /\ DecisionTypes'
    BY <1>0, <2>1, <2>2, QueuesKept
  <2>5. RowTypes' /\ HistoryTypes'
    BY <2>1, Kept
  <2>6. NodeTypes'
    BY <2>3 DEF NodeTypes, NodeState
  <2>7. Subscribers'
    BY <2>1, <2>2, <2>3 DEF ServiceInv, Subscribers
  <2> QED
    BY <2>4, <2>5, <2>6, <2>7 DEF ServiceInv
<1>2. ASSUME NEW c \in Actuator, NEW on \in BOOLEAN, ManualCommand(z, c, on) PROVE ServiceInv'
  <2>1. /\ UNCHANGED decision /\ UNCHANGED <<out, audit, unrecorded, inbox, dispatchOn, dout, retained, link>>
        /\ UNCHANGED <<burning, lost>> /\ asked' = [asked EXCEPT ![z] = asked[z] /\ node'[z].pump]
        /\ steps.manual < MaxManual /\ steps' = [steps EXCEPT !.manual = steps.manual + 1]
        /\ node' = [node EXCEPT ![z] = Strayed(Driven(node[z], c, on), c)]
    BY <1>2 DEF ManualCommand, dispatch, DISPATCH_CMD
  <2>2. Driven(node[z], c, on) \in NodeState /\ Driven(node[z], c, on).on = node[z].on /\ c \in Command
    BY <1>0 DEF Driven, NodeState, Actuator, Command
  <2>3. node' \in [Zone -> NodeState] /\ \A x \in Zone : node'[x].on = node[x].on
    <3> DEFINE d == Driven(node[z], c, on)
    <3>1. d \in NodeState /\ d.on = node[z].on /\ node' = [node EXCEPT ![z] = Strayed(d, c)]
      BY <2>1, <2>2
    <3> HIDE DEF d
    <3>2. Strayed(d, c) \in NodeState /\ Strayed(d, c).on = d.on
      BY <2>2, <3>1 DEF NodeState, Strayed
    <3> QED
      BY <1>0, <3>1, <3>2
  <2>4. QueuesRecorded' /\ DecisionTypes'
    BY <1>0, <2>1, QueuesKept
  <2>5. RowTypes'
    BY <2>1, Kept
  <2>6. NodeTypes'
    BY <2>3 DEF NodeTypes, NodeState
  <2>7. Subscribers'
    BY <2>1, <2>3 DEF ServiceInv, Subscribers
  <2>8. HistoryTypes'
    <3>1. node'[z].pump \in BOOLEAN
      BY <2>3 DEF NodeState
    <3>2. steps' \in StepTypes
      BY <2>1, BoundsAssumption DEF ServiceInv, HistoryTypes, StepTypes
    <3> QED
      BY <2>1, <3>1, <3>2 DEF ServiceInv, HistoryTypes
  <2> QED
    BY <2>4, <2>5, <2>6, <2>7, <2>8 DEF ServiceInv
<1>3. ASSUME NEW crash \in BOOLEAN, NodeDown(z, crash) PROVE ServiceInv'
  <2>1. /\ UNCHANGED decision /\ UNCHANGED <<out, audit, unrecorded, inbox, dispatchOn, dout, retained, burning>>
        /\ link' = [link EXCEPT ![z] = <<>>]
        /\ node' = [node EXCEPT ![z] =
                      IF crash THEN [node[z] EXCEPT !.on = FALSE, !.pump = FALSE, !.fire_active = FALSE]
                      ELSE [node[z] EXCEPT !.on = FALSE]]
        /\ asked' = [asked EXCEPT ![z] = asked[z] /\ ~ crash]
        /\ lost' = Missed(LosesFor(ToSet(link[z])) \cup IF crash THEN {z} ELSE {})
        /\ Fault(IF crash THEN "node_crash" ELSE "node_link")
    BY <1>3 DEF NodeDown, dispatch
  <2>2. link' \in [Zone -> Seq(Recorded)] /\ link'[z] = <<>> /\ \A x \in Zone : x # z => link'[x] = link[x]
    BY <1>0, <2>1
  <2>3. node' \in [Zone -> NodeState] /\ \A x \in Zone : x # z => node'[x] = node[x]
    BY <1>0, <2>1 DEF NodeState
  <2>4. QueuesRecorded' /\ DecisionTypes'
    BY <1>0, <2>1, <2>2, QueuesKept
  <2>5. RowTypes'
    BY <2>1, Kept
  <2>6. NodeTypes'
    BY <2>3 DEF NodeTypes, NodeState
  <2>7. Subscribers'
    BY <2>1, <2>2, <2>3 DEF ServiceInv, Subscribers
  <2>8. HistoryTypes'
    <3>1. burning' \in [Zone -> BOOLEAN] /\ asked' \in [Zone -> BOOLEAN]
      BY <2>1 DEF ServiceInv, HistoryTypes
    <3> QED
      BY <2>1, <3>1, FaultTypes
  <2> QED
    BY <2>4, <2>5, <2>6, <2>7, <2>8 DEF ServiceInv
<1> QED
  BY <1>1, <1>2, <1>3

-----------------------------------------------------------------------------
LEMMA ServiceStart == Init => ServiceInv
<1> SUFFICES ASSUME Init PROVE ServiceInv
  OBVIOUS
<1>1. DecisionTypes /\ NodeTypes /\ Subscribers /\ RowTypes
  BY DEF Init, DecisionTypes, NodeTypes, Subscribers, RowTypes
<1>2. HistoryTypes
  BY BoundsAssumption DEF Init, HistoryTypes, StepTypes
<1>3. QueuesRecorded
  BY NoClient DEF Init, QueuesRecorded
<1> QED
  BY <1>1, <1>2, <1>3 DEF ServiceInv

LEMMA ServiceStep == ServiceInv /\ [Next]_vars => ServiceInv'
<1> SUFFICES ASSUME ServiceInv, [Next]_vars PROVE ServiceInv'
  OBVIOUS
<1>1. CASE BootRead \/ BootPublish \/ Refresh
  BY <1>1, BootSteps
<1>2. ASSUME NEW z \in Zone, NEW r \in Outcome, ClearFire(z, r) PROVE ServiceInv'
  BY <1>2, ClearKeeps
<1>3. ASSUME NEW z \in Zone, NEW r \in Outcome, NEW due \in BOOLEAN, Confirm(z, r, due) PROVE ServiceInv'
  BY <1>3, ConfirmKeeps
<1>4. CASE DecisionCrash \/ DecisionReconnect
  BY <1>4, CrashKeeps
<1>5. CASE DecisionSend
  BY <1>5, SendKeeps
<1>6. CASE DecisionAcked
  BY <1>6, AckKeeps
<1>7. ASSUME NEW p \in BOOLEAN, NEW r \in BOOLEAN, on_fire_cmd(p, r) PROVE ServiceInv'
  BY <1>7, CmdKeeps
<1>8. CASE DispatchSend
  BY <1>8, DispatchSendKeeps
<1>9. CASE DispatchAcked \/ DispatchUp \/ \E crash \in BOOLEAN : DispatchDown(crash)
  BY <1>9, DispatchKeeps
<1>10. ASSUME NEW z \in Zone, NEW ok \in BOOLEAN, NodeReceive(z, ok) PROVE ServiceInv'
  BY <1>10, ReceiveKeeps
<1>11. ASSUME NEW z \in Zone,
              \/ NodeUp(z) \/ \E crash \in BOOLEAN : NodeDown(z, crash)
              \/ \E c \in Actuator \cap Followed, on \in BOOLEAN : ManualCommand(z, c, on)
       PROVE  ServiceInv'
  BY <1>11, NodeKeeps
<1>12. CASE UNCHANGED vars
  <2>1. UNCHANGED decision /\ UNCHANGED out /\ UNCHANGED <<dispatch, retained, field>>
        /\ UNCHANGED <<steps, history>>
    BY <1>12 DEF vars
  <2>2. DecisionTypes' /\ Recorded' = Recorded
    BY <2>1, Kept
  <2>3. out' \in Client(Recorded')
    BY <2>1, <2>2 DEF ServiceInv, QueuesRecorded
  <2>4. QueuesRecorded' /\ Subscribers' /\ RowTypes' /\ NodeTypes'
    BY <2>1, <2>2, <2>3, RestOfQueues
  <2>5. HistoryTypes'
    BY <2>1, Kept DEF history
  <2> QED
    BY <2>2, <2>4, <2>5 DEF ServiceInv
<1> QED
  BY <1>1, <1>2, <1>3, <1>4, <1>5, <1>6, <1>7, <1>8, <1>9, <1>10, <1>11, <1>12 DEF Next

LEMMA ServiceInvariant == Spec => []ServiceInv
  BY ServiceStart, ServiceStep, PTL DEF Spec

(* Only commands reach the dispatcher, and a subscriber that is away has   *)
(* nothing waiting: whatever fails, every queue stays well formed.         *)
THEOREM ServiceTypes == Spec => []TypeOK
  BY ServiceInvariant, InvImpliesTypes, PTL

(* Whatever fails, in whichever order, no command is on its way without    *)
(* the fire_event row it names (on_sensor and on_clear_fire write the row  *)
(* before they call fire_scenario and recover_scenario).                   *)
THEOREM CommandsRecorded == Spec => []CommandsHaveEvents
<1>1. ServiceInv => CommandsHaveEvents
  BY QueuesImplyEvents DEF ServiceInv
<1> QED
  BY <1>1, ServiceInvariant, PTL

-----------------------------------------------------------------------------
(* The field follows the decision.  Of the commands for one actuator of a  *)
(* zone, the last one counts: wherever the last one is on its way, either  *)
(* it says what the decision wants and is to be sent yet, or it was sent   *)
(* (or there is none), and then what is further on its way, in the end the *)
(* actuator itself, says so.  Sent again, it says so once more, after the  *)
(* older commands that are sent again before it.  Of an actuator that      *)
(* strayed nothing is claimed.                                             *)

About(m, z, c) == IsCmd(m) /\ m.zone = z /\ m.command = c
Free(q, z, c) == \A j \in DOMAIN q : ~ About(q[j], z, c)
LastSays(q, i, z, c, d) ==
  About(q[i], z, c) /\ q[i].on = d /\ \A j \in DOMAIN q : About(q[j], z, c) => j <= i

(* The first n messages of q were sent.                                    *)
Tells(q, n, z, c, d) == \E i \in DOMAIN q : LastSays(q, i, z, c, d) /\ i > n
Passes(q, n, z, c, d) == Free(q, z, c) \/ \E i \in DOMAIN q : LastSays(q, i, z, c, d) /\ i <= n

Done(z, c, d) ==
  \/ c \in node[z].strayed
  \/ /\ c = "water_pump" => node[z].pump = d
     /\ c = "servo_1" => node[z].valveShut = d
     /\ c = "shutter" => node[z].shutterShut = d
OnLink(z, c, d) == Tells(link[z], 0, z, c, d) \/ (Passes(link[z], 0, z, c, d) /\ Done(z, c, d))
OnDout(z, c, d) ==
  Tells(dout.unacked, dout.sent, z, c, d) \/ (Passes(dout.unacked, dout.sent, z, c, d) /\ OnLink(z, c, d))
OnInbox(z, c, d) == Tells(inbox, 0, z, c, d) \/ (Passes(inbox, 0, z, c, d) /\ OnDout(z, c, d))
OnOut(z, c, d) ==
  Tells(out.unacked, out.sent, z, c, d) \/ (Passes(out.unacked, out.sent, z, c, d) /\ OnInbox(z, c, d))

(* The decision wants d of the actuator, and no command of it was lost;    *)
(* a valve and a shutter are only followed in a fire.                      *)
Wants(z, c, d) == ~ lost[z] /\ d = (alarm[z] = "FIRE") /\ (d \/ c = "water_pump")

Moved == Followed \cap {"servo_1", "shutter", "water_pump"}
LinksAreLocal == \A z \in Zone : \A i \in DOMAIN link[z] : IsCmd(link[z][i]) => link[z][i].zone = z
FieldInv ==
  /\ LinksAreLocal
  /\ \A z \in Zone, c \in Moved, d \in BOOLEAN : Wants(z, c, d) => OnOut(z, c, d)

-----------------------------------------------------------------------------
(* What becomes of it when a queue moves.                                  *)

LEMMA ConcatTells ==
  ASSUME NEW q \in Seq(Message), NEW s \in Seq(Message), NEW n \in Nat, n <= Len(q), NEW z, NEW c, NEW d
  PROVE  /\ Tells(s, 0, z, c, d) => Tells(q \o s, n, z, c, d)
         /\ Free(s, z, c) => /\ Tells(q, n, z, c, d) => Tells(q \o s, n, z, c, d)
                             /\ Passes(q, n, z, c, d) => Passes(q \o s, n, z, c, d)
         /\ Free(q, z, c) /\ Free(s, z, c) => Free(q \o s, z, c)
<1> DEFINE a == q \o s
<1>1. /\ Len(q) \in Nat /\ Len(s) \in Nat /\ DOMAIN q = 1 .. Len(q) /\ DOMAIN s = 1 .. Len(s)
      /\ DOMAIN a = 1 .. Len(q) + Len(s)
      /\ \A i \in 1 .. Len(q) : a[i] = q[i]
      /\ \A i \in 1 .. Len(s) : a[Len(q) + i] = s[i]
  OBVIOUS
<1> HIDE DEF a
<1>2. \A j \in DOMAIN a : \/ j \in DOMAIN q /\ a[j] = q[j]
                          \/ j > Len(q) /\ j - Len(q) \in DOMAIN s /\ a[j] = s[j - Len(q)]
  <2> TAKE j \in DOMAIN a
  <2>1. CASE j <= Len(q)
    BY <1>1, <2>1
  <2>2. CASE j > Len(q)
    <3>1. j - Len(q) \in 1 .. Len(s) /\ Len(q) + (j - Len(q)) = j
      BY <1>1, <2>2
    <3> QED
      BY <1>1, <2>2, <3>1
  <2> QED
    BY <1>1, <2>1, <2>2
<1>3. ASSUME Tells(s, 0, z, c, d) PROVE Tells(a, n, z, c, d)
  <2>1. PICK i \in DOMAIN s : LastSays(s, i, z, c, d)
    BY <1>3 DEF Tells
  <2>2. Len(q) + i \in DOMAIN a /\ a[Len(q) + i] = s[i] /\ Len(q) + i > n
    BY <1>1, <2>1
  <2>3. \A j \in DOMAIN a : About(a[j], z, c) => j <= Len(q) + i
    <3> TAKE j \in DOMAIN a
    <3>1. CASE j \in DOMAIN q
      BY <1>1, <2>1, <3>1
    <3>2. CASE j > Len(q) /\ j - Len(q) \in DOMAIN s /\ a[j] = s[j - Len(q)]
      BY <1>1, <2>1, <3>2 DEF LastSays
    <3> QED
      BY <1>2, <3>1, <3>2
  <2> QED
    BY <2>1, <2>2, <2>3 DEF Tells, LastSays
<1>4. ASSUME Free(s, z, c) PROVE \A i \in DOMAIN q : LastSays(q, i, z, c, d) => i \in DOMAIN a /\ LastSays(a, i, z, c, d)
  <2> TAKE i \in DOMAIN q
  <2>1. i \in DOMAIN a /\ a[i] = q[i]
    BY <1>1
  <2>2. \A j \in DOMAIN a : About(a[j], z, c) => j \in DOMAIN q /\ a[j] = q[j]
    BY <1>2, <1>4 DEF Free
  <2> QED
    BY <2>1, <2>2 DEF LastSays
<1>5. Free(q, z, c) /\ Free(s, z, c) => Free(a, z, c)
  BY <1>2 DEF Free
<1> QED
  BY <1>3, <1>4, <1>5 DEF Tells, Passes, a

LEMMA AppendTells ==
  ASSUME NEW q \in Seq(Message), NEW m \in Message, NEW n \in Nat, n <= Len(q), NEW z, NEW c, NEW d
  PROVE  /\ About(m, z, c) /\ m.on = d => Tells(Append(q, m), n, z, c, d)
         /\ ~ About(m, z, c) => /\ Tells(q, n, z, c, d) => Tells(Append(q, m), n, z, c, d)
                                /\ Passes(q, n, z, c, d) => Passes(Append(q, m), n, z, c, d)
<1>1. Append(q, m) = q \o <<m>> /\ <<m>> \in Seq(Message) /\ DOMAIN <<m>> = {1} /\ <<m>>[1] = m
  OBVIOUS
<1>2. About(m, z, c) /\ m.on = d => Tells(<<m>>, 0, z, c, d)
  BY <1>1 DEF Tells, LastSays
<1>3. ~ About(m, z, c) => Free(<<m>>, z, c)
  BY <1>1 DEF Free
<1> QED
  BY <1>1, <1>2, <1>3, ConcatTells

(* The first message goes: it was sent, or it is handled now.              *)
LEMMA TailTells ==
  ASSUME NEW q \in Seq(Message), q # <<>>, NEW n \in Nat, NEW z, NEW c, NEW d
  PROVE  /\ n > 0 => /\ Tells(q, n, z, c, d) => Tells(Tail(q), n - 1, z, c, d)
                     /\ Passes(q, n, z, c, d) => Passes(Tail(q), n - 1, z, c, d)
         /\ ~ About(Head(q), z, c) => /\ Tells(q, 0, z, c, d) => Tells(Tail(q), 0, z, c, d)
                                      /\ Passes(q, 0, z, c, d) => Passes(Tail(q), 0, z, c, d)
         /\ About(Head(q), z, c) => /\ ~ Passes(q, 0, z, c, d)
                                    /\ Tells(q, 0, z, c, d) => \/ Tells(Tail(q), 0, z, c, d)
                                                               \/ Head(q).on = d /\ Passes(Tail(q), 0, z, c, d)
<1> DEFINE t == Tail(q)
<1>1. /\ Len(q) \in Nat /\ Len(q) > 0 /\ DOMAIN q = 1 .. Len(q) /\ DOMAIN t = 1 .. Len(q) - 1 /\ Head(q) = q[1]
      /\ \A i \in 1 .. Len(q) - 1 : t[i] = q[i + 1]
  OBVIOUS
<1> HIDE DEF t
<1>2. \A j \in DOMAIN t : j + 1 \in DOMAIN q /\ j >= 1 /\ t[j] = q[j + 1]
  BY <1>1
<1>3. \A i \in DOMAIN q : i > 1 => i - 1 \in DOMAIN t /\ t[i - 1] = q[i]
  BY <1>1
<1>4. ASSUME NEW i \in DOMAIN q, i > 1, LastSays(q, i, z, c, d) PROVE i - 1 \in DOMAIN t /\ LastSays(t, i - 1, z, c, d)
  <2>1. \A j \in DOMAIN t : About(t[j], z, c) => j <= i - 1
    <3>1. \A j \in DOMAIN t : About(t[j], z, c) => j + 1 <= i
      BY <1>2, <1>4 DEF LastSays
    <3> QED
      BY <1>1, <3>1
  <2> QED
    BY <1>3, <1>4, <2>1 DEF LastSays
<1>5. ASSUME LastSays(q, 1, z, c, d) PROVE Free(t, z, c)
  <2>1. \A j \in DOMAIN t : j + 1 > 1
    BY <1>1
  <2> QED
    BY <1>1, <1>2, <1>5, <2>1 DEF LastSays, Free
<1>6. Free(q, z, c) => Free(t, z, c)
  BY <1>2 DEF Free
<1>7. ASSUME n > 0 PROVE /\ Tells(q, n, z, c, d) => Tells(t, n - 1, z, c, d)
                         /\ Passes(q, n, z, c, d) => Passes(t, n - 1, z, c, d)
  <2>1. ASSUME Tells(q, n, z, c, d) PROVE Tells(t, n - 1, z, c, d)
    <3>1. PICK i \in DOMAIN q : LastSays(q, i, z, c, d) /\ i > n
      BY <2>1 DEF Tells
    <3>2. i > 1 /\ i - 1 > n - 1
      BY <1>1, <1>7, <3>1
    <3> QED
      BY <1>4, <3>1, <3>2 DEF Tells
  <2>2. ASSUME NEW i \in DOMAIN q, LastSays(q, i, z, c, d), i <= n PROVE Passes(t, n - 1, z, c, d)
    <3>1. CASE i = 1
      BY <1>5, <2>2, <3>1 DEF Passes
    <3>2. CASE i > 1
      <4>1. i - 1 <= n - 1
        BY <1>1, <2>2
      <4> QED
        BY <1>4, <2>2, <3>2, <4>1 DEF Passes
    <3> QED
      BY <1>1, <3>1, <3>2
  <2> QED
    BY <1>6, <2>1, <2>2 DEF Passes
<1>8. \A i \in DOMAIN q : i > 0
  BY <1>1
<1>9. Passes(q, 0, z, c, d) => Free(q, z, c)
  BY <1>1, <1>8 DEF Passes
<1>10. ASSUME Tells(q, 0, z, c, d) PROVE \/ Tells(t, 0, z, c, d)
                                         \/ About(q[1], z, c) /\ q[1].on = d /\ Passes(t, 0, z, c, d)
  <2>1. PICK i \in DOMAIN q : LastSays(q, i, z, c, d)
    BY <1>10 DEF Tells
  <2>2. CASE i = 1
    BY <1>5, <2>1, <2>2 DEF LastSays, Passes
  <2>3. CASE i > 1
    <3>1. i - 1 > 0
      BY <1>1, <2>3
    <3> QED
      BY <1>4, <2>1, <2>3, <3>1 DEF Tells
  <2> QED
    BY <1>1, <2>2, <2>3
<1>11. About(q[1], z, c) => ~ Free(q, z, c)
  BY <1>1 DEF Free
<1> QED
  BY <1>1, <1>6, <1>7, <1>9, <1>10, <1>11 DEF Passes, t

LEMMA SendTells ==
  ASSUME NEW q \in Seq(Message), NEW n \in Nat, n < Len(q), NEW z, NEW c, NEW d
  PROVE  /\ ~ About(q[n + 1], z, c) => /\ Tells(q, n, z, c, d) => Tells(q, n + 1, z, c, d)
                                       /\ Passes(q, n, z, c, d) => Passes(q, n + 1, z, c, d)
         /\ About(q[n + 1], z, c) => /\ ~ Passes(q, n, z, c, d)
                                     /\ Tells(q, n, z, c, d) => \/ Tells(q, n + 1, z, c, d)
                                                                \/ q[n + 1].on = d /\ Passes(q, n + 1, z, c, d)
<1>1. DOMAIN q = 1 .. Len(q) /\ Len(q) \in Nat /\ n + 1 \in DOMAIN q
  OBVIOUS
<1>2. ASSUME Tells(q, n, z, c, d) PROVE \/ Tells(q, n + 1, z, c, d)
                                        \/ About(q[n + 1], z, c) /\ q[n + 1].on = d /\ Passes(q, n + 1, z, c, d)
  <2>1. PICK i \in DOMAIN q : LastSays(q, i, z, c, d) /\ i > n
    BY <1>2 DEF Tells
  <2>2. i = n + 1 \/ i > n + 1
    BY <1>1, <2>1
  <2> QED
    BY <1>1, <2>1, <2>2 DEF Tells, Passes, LastSays
<1>3. ASSUME Passes(q, n, z, c, d) PROVE ~ About(q[n + 1], z, c) /\ Passes(q, n + 1, z, c, d)
  <2>1. CASE Free(q, z, c)
    BY <1>1, <2>1 DEF Free, Passes
  <2>2. ASSUME NEW i \in DOMAIN q, LastSays(q, i, z, c, d), i <= n PROVE ~ About(q[n + 1], z, c) /\ Passes(q, n + 1, z, c, d)
    <3>1. i <= n + 1 /\ ~ (n + 1 <= i)
      BY <1>1, <2>2
    <3> QED
      BY <1>1, <2>2, <3>1 DEF LastSays, Passes
  <2> QED
    BY <1>3, <2>1, <2>2 DEF Passes
<1> QED
  BY <1>2, <1>3

LEMMA ResendTells ==
  ASSUME NEW q \in Seq(Message), NEW n \in Nat, NEW z, NEW c, NEW d
  PROVE  /\ Tells(q, n, z, c, d) => Tells(q, 0, z, c, d)
         /\ Passes(q, n, z, c, d) => Tells(q, 0, z, c, d) \/ Passes(q, 0, z, c, d)
<1>1. DOMAIN q = 1 .. Len(q) /\ \A i \in 1 .. Len(q) : i > 0
  OBVIOUS
<1> QED
  BY <1>1 DEF Tells, Passes

-----------------------------------------------------------------------------
(* What the steps do to it.                                                *)

LEMMA ClientQueues ==
  ASSUME TypeOK
  PROVE  /\ out.unacked \in Seq(Message) /\ out.sent \in Nat /\ out.sent <= Len(out.unacked)
         /\ dout.unacked \in Seq(CmdMessage) /\ dout.sent \in Nat /\ dout.sent <= Len(dout.unacked)
         /\ inbox \in Seq(CmdMessage)
         /\ dout.unacked \in Seq(Message) /\ inbox \in Seq(Message)
         /\ \A z \in Zone : link[z] \in Seq(Message)
<1>1. out \in Client(Message) /\ dout \in Client(CmdMessage) /\ inbox \in Seq(CmdMessage)
  BY DEF TypeOK, OutTypes, DispatchTypes
<1>2. CmdMessage \subseteq Message
  BY DEF Message
<1>3. \A z \in Zone : link[z] \in Seq(Message)
  BY DEF TypeOK, LinkTypes
<1> QED
  BY <1>1, <1>2, <1>3 DEF Client

(* The client of rpib_decision moves, and nothing further on its way does. *)
LEMMA OutMoves ==
  ASSUME TypeOK, UNCHANGED <<inbox, dout, link, node>>, NEW z \in Zone, NEW c \in Moved, NEW d \in BOOLEAN,
         OnOut(z, c, d),
         \/ out' = out \/ out' = Resend(out)
         \/ out.sent > 0 /\ out' = [unacked |-> Tail(out.unacked), sent |-> out.sent - 1]
         \/ \E s \in Seq(Message) : out' = Queue(out, s) /\ Free(s, z, c)
  PROVE  OnOut(z, c, d)'
<1> DEFINE q == out.unacked
           n == out.sent
<1>1. out \in [unacked : Seq(Message), sent : Nat] /\ q \in Seq(Message) /\ n \in Nat /\ n <= Len(q)
  BY ClientQueues DEF TypeOK, OutTypes, Client
<1>2. /\ Tells(q, n, z, c, d) => Tells(out'.unacked, out'.sent, z, c, d)
      /\ Passes(q, n, z, c, d) => Tells(out'.unacked, out'.sent, z, c, d) \/ Passes(out'.unacked, out'.sent, z, c, d)
  <2>1. CASE out' = out
    BY <2>1
  <2>2. CASE out' = Resend(out)
    <3>1. out'.unacked = q /\ out'.sent = 0
      BY <1>1, <2>2 DEF Resend
    <3> QED
      BY <1>1, <3>1, ResendTells
  <2>3. CASE out.sent > 0 /\ out' = [unacked |-> Tail(out.unacked), sent |-> out.sent - 1]
    <3>1. q # <<>> /\ out'.unacked = Tail(q) /\ out'.sent = n - 1
      BY <1>1, <2>3
    <3> QED
      BY <1>1, <2>3, <3>1, TailTells
  <2>4. ASSUME NEW s \in Seq(Message), out' = Queue(out, s), Free(s, z, c)
        PROVE  /\ Tells(q, n, z, c, d) => Tells(out'.unacked, out'.sent, z, c, d)
               /\ Passes(q, n, z, c, d) => Tells(out'.unacked, out'.sent, z, c, d) \/ Passes(out'.unacked, out'.sent, z, c, d)
    <3>1. out'.unacked = q \o s /\ out'.sent = n
      BY <1>1, <2>4 DEF Queue
    <3> QED
      BY <1>1, <2>4, <3>1, ConcatTells
  <2> QED
    BY <2>1, <2>2, <2>3, <2>4
<1>3. OnInbox(z, c, d)' = OnInbox(z, c, d)
  BY DEF OnInbox, OnDout, OnLink, Done
<1> QED
  BY <1>2, <1>3 DEF OnOut

(* The same of the client of rpib_dispatch.                                *)
LEMMA DoutMoves ==
  ASSUME TypeOK, UNCHANGED <<out, inbox, link, node>>, NEW z \in Zone, NEW c \in Moved, NEW d \in BOOLEAN,
         OnOut(z, c, d),
         dout.sent > 0 /\ dout' = [unacked |-> Tail(dout.unacked), sent |-> dout.sent - 1]
  PROVE  OnOut(z, c, d)'
<1> DEFINE q == dout.unacked
           n == dout.sent
<1>1. q \in Seq(Message) /\ n \in Nat /\ n <= Len(q)
  BY ClientQueues
<1>2. q # <<>> /\ dout'.unacked = Tail(q) /\ dout'.sent = n - 1
  BY <1>1
<1>3. /\ Tells(q, n, z, c, d) => Tells(dout'.unacked, dout'.sent, z, c, d)
      /\ Passes(q, n, z, c, d) => Passes(dout'.unacked, dout'.sent, z, c, d)
  BY <1>1, <1>2, TailTells
<1>4. OnLink(z, c, d)' = OnLink(z, c, d)
  BY DEF OnLink, Done
<1>5. OnDout(z, c, d) => OnDout(z, c, d)'
  BY <1>3, <1>4 DEF OnDout
<1> QED
  BY <1>5 DEF OnOut, OnInbox

LEMMA SingleDisplay ==
  ASSUME NEW b \in SUBSET Zone
  PROVE  /\ Display(b) \in Message /\ ~ IsCmd(Display(b)) /\ <<Display(b)>> \in Seq(Message)
         /\ \A z, c : Free(<<Display(b)>>, z, c)
<1>1. Display(b) \in Message /\ ~ IsCmd(Display(b))
  BY DEF Display, Message, DisplayMessage, IsCmd
<1>2. DOMAIN <<Display(b)>> = {1} /\ <<Display(b)>>[1] = Display(b)
  OBVIOUS
<1> QED
  BY <1>1, <1>2 DEF Free, About

(* A scenario says on to everything it moves, and nothing to other zones.  *)
LEMMA ScenarioTells ==
  ASSUME NEW e \in Nat \ {0}, NEW y \in Zone, NEW on \in BOOLEAN, NEW z \in Zone, NEW c \in Moved
  PROVE  LET s == IF on THEN fire_scenario(e, y) ELSE recover_scenario(e, y) IN
         /\ s \in Seq(Message)
         /\ z = y /\ (on \/ c = "water_pump") => Tells(s, 0, z, c, on)
         /\ z # y => Free(s, z, c)
<1>1. ASSUME NEW k \in Command
      PROVE  /\ pub_cmd(e, y, k, on) \in Seq(Message)
             /\ z # y \/ k # c => Free(pub_cmd(e, y, k, on), z, c)
             /\ z = y /\ k = c => Tells(pub_cmd(e, y, k, on), 0, z, c, on)
  <2> DEFINE m == Cmd(e, y, k, on)
  <2>1. m \in Message /\ (About(m, z, c) <=> z = y /\ k = c) /\ m.on = on
    BY DEF Cmd, Message, CmdMessage, About, IsCmd
  <2>2. DOMAIN <<m>> = {1} /\ <<m>>[1] = m /\ <<m>> \in Seq(Message) /\ <<>> \in Seq(Message) /\ DOMAIN <<>> = {}
    BY <2>1
  <2> HIDE DEF m
  <2>3. c \in Followed
    BY DEF Moved
  <2>4. /\ z # y \/ k # c => Free(<<m>>, z, c) /\ Free(<<>>, z, c)
        /\ z = y /\ k = c => Tells(<<m>>, 0, z, c, on)
    BY <2>1, <2>2 DEF Free, Tells, LastSays
  <2> QED
    BY <2>2, <2>3, <2>4 DEF pub_cmd, m
<1>2. ASSUME NEW s \in Seq(Message), NEW t \in Seq(Message)
      PROVE  /\ s \o t \in Seq(Message)
             /\ Free(s, z, c) /\ Free(t, z, c) => Free(s \o t, z, c)
             /\ Tells(t, 0, z, c, on) => Tells(s \o t, 0, z, c, on)
             /\ Tells(s, 0, z, c, on) /\ Free(t, z, c) => Tells(s \o t, 0, z, c, on)
  <2>1. 0 \in Nat /\ 0 <= Len(s)
    BY QueueMoves
  <2> QED
    BY <2>1, QueueMoves, ConcatTells
<1>3. {"servo_1", "shutter", "fan", "water_pump", "sound"} = Command /\ c \in {"servo_1", "shutter", "water_pump"}
  BY DEF Command, Moved
<1> DEFINE P(k) == pub_cmd(e, y, k, on)
           Good(s, h) == /\ s \in Seq(Message)
                         /\ z = y /\ (on \/ c = "water_pump") => IF h THEN Tells(s, 0, z, c, on) ELSE Free(s, z, c)
                         /\ z # y => Free(s, z, c)
<1>4. \A k \in Command : Good(P(k), k = c)
  BY <1>1
<1>5. ASSUME NEW s, NEW t, NEW g \in BOOLEAN, NEW h \in BOOLEAN, Good(s, g), Good(t, h), ~ (g /\ h) PROVE Good(s \o t, g \/ h)
  BY <1>2, <1>5
<1> HIDE DEF P, Good
<1>6. CASE on
  <2>1. /\ Good(P("servo_1"), c = "servo_1") /\ Good(P("shutter"), c = "shutter") /\ Good(P("fan"), FALSE)
        /\ Good(P("water_pump"), c = "water_pump") /\ Good(P("sound"), FALSE)
    BY <1>3, <1>4
  <2>2. Good(P("servo_1") \o P("shutter"), c = "servo_1" \/ c = "shutter")
    BY <1>5, <2>1
  <2>3. Good(P("servo_1") \o P("shutter") \o P("fan"), c = "servo_1" \/ c = "shutter")
    BY <1>5, <2>1, <2>2
  <2>4. Good(P("servo_1") \o P("shutter") \o P("fan") \o P("water_pump"), TRUE)
    BY <1>3, <1>5, <2>1, <2>3
  <2>5. Good(P("servo_1") \o P("shutter") \o P("fan") \o P("water_pump") \o P("sound"), TRUE)
    BY <1>5, <2>1, <2>4
  <2> QED
    BY <1>6, <2>5 DEF fire_scenario, P, Good
<1>7. CASE ~ on
  <2>1. Good(P("water_pump"), TRUE) /\ Good(P("sound"), FALSE) /\ Good(P("fan"), FALSE)
    BY <1>3, <1>4, <1>7 DEF Good
  <2>2. Good(P("water_pump") \o P("sound"), TRUE)
    BY <1>5, <2>1
  <2>3. Good(P("water_pump") \o P("sound") \o P("fan"), TRUE)
    BY <1>5, <2>1, <2>2
  <2> QED
    BY <1>7, <2>3 DEF recover_scenario, P, Good
<1> QED
  BY <1>6, <1>7

LEMMA ActAims ==
  ASSUME TypeOK, FieldInv, NEW y \in Zone, NEW on \in BOOLEAN, NEW result \in Outcome, NEW first \in Seq(Message),
         \A z, c : Free(first, z, c), alarm' = [alarm EXCEPT ![y] = IF on THEN "FIRE" ELSE "NORMAL"],
         Act(y, on, result, first), UNCHANGED <<dispatch, field>>
  PROVE  FieldInv'
<1> DEFINE e == Len(fireEvents) + 1
           shown == Display({x \in Zone : alarm'[x] = "FIRE"})
           scenario == IF on THEN fire_scenario(e, y) ELSE recover_scenario(e, y)
           s == first \o (<<shown>> \o scenario)
<1>1. e \in Nat \ {0} /\ alarm \in [Zone -> {"NORMAL", "FIRE"}] /\ lost \in [Zone -> BOOLEAN]
  <2>1. fireEvents \in Seq([zone : Zone, on : BOOLEAN])
    BY DEF TypeOK, DecisionTypes
  <2>2. Len(fireEvents) \in Nat
    BY <2>1
  <2> QED
    BY <2>2 DEF TypeOK, DecisionTypes, HistoryTypes
<1>2. UNCHANGED <<inbox, dout, link, node>>
  BY DEF dispatch, field
<1>3. <<shown>> \in Seq(Message) /\ \A z, c : Free(<<shown>>, z, c)
  <2>1. {x \in Zone : alarm'[x] = "FIRE"} \in SUBSET Zone
    OBVIOUS
  <2> QED
    BY <2>1, SingleDisplay
<1>4. PICK taken \in Taken(result, <<shown>> \o scenario) : out' = Queue(out, first \o taken)
  BY DEF Act
<1>7. lost' = [lost EXCEPT ![y] = result # "stored"]
  BY DEF Act
<1> HIDE DEF shown, e
<1>5. ASSUME NEW z \in Zone, NEW c \in Moved, NEW d \in BOOLEAN, Wants(z, c, d)' PROVE OnOut(z, c, d)'
  <2>1. /\ scenario \in Seq(Message)
        /\ z = y /\ (on \/ c = "water_pump") => Tells(scenario, 0, z, c, on)
        /\ z # y => Free(scenario, z, c)
    BY <1>1, ScenarioTells
  <2> HIDE DEF scenario
  <2>2. /\ <<shown>> \o scenario \in Seq(Message) /\ s \in Seq(Message)
        /\ 0 \in Nat /\ 0 <= Len(<<shown>>) /\ 0 <= Len(first)
    BY <1>3, <2>1, QueueMoves
  <2>3. CASE z = y
    <3>1. d = on /\ result = "stored" /\ (on \/ c = "water_pump")
      BY <1>1, <1>7, <1>5, <2>3 DEF Wants
    <3>2. Tells(<<shown>> \o scenario, 0, z, c, d)
      BY <1>3, <2>1, <2>2, <2>3, <3>1, ConcatTells
    <3>3. Tells(s, 0, z, c, d)
      BY <2>2, <3>2, ConcatTells
    <3>4. out'.unacked = out.unacked \o s /\ out'.sent = out.sent
      <4>1. out \in [unacked : Seq(Message), sent : Nat]
        BY DEF TypeOK, OutTypes, Client
      <4> HIDE DEF s
      <4>2. out' = Queue(out, s)
        BY <1>4, <3>1 DEF s, Taken
      <4> QED
        BY <4>1, <4>2 DEF Queue
    <3>5. Tells(out.unacked \o s, out.sent, z, c, d)
      BY <2>2, <3>3, ConcatTells, ClientQueues
    <3> QED
      BY <3>4, <3>5 DEF OnOut
  <2>4. CASE z # y
    <3>1. Wants(z, c, d)
      BY <1>1, <1>7, <1>5, <2>4 DEF Wants
    <3>2. OnOut(z, c, d)
      BY <3>1 DEF FieldInv
    <3>3. Free(<<shown>> \o scenario, z, c)
      BY <1>3, <2>1, <2>2, <2>4, ConcatTells
    <3>4. Free(s, z, c)
      BY <2>2, <3>3, ConcatTells
    <3>5. first \o <<>> = first
      BY ConcatEmptySeq
    <3>6. \E t \in Seq(Message) : out' = Queue(out, t) /\ Free(t, z, c)
      <4>1. CASE result = "stored"
        BY <1>4, <2>2, <3>4, <4>1 DEF Taken
      <4>2. CASE result = "unpublished"
        <5> DEFINE messages == <<shown>> \o scenario
        <5>1. PICK i \in DOMAIN messages : taken = RemoveAt(messages, i)
          BY <1>4, <4>2 DEF Taken
        <5>2. messages \in Seq(Message) /\ Free(messages, z, c)
          BY <2>2, <3>3
        <5> HIDE DEF messages
        <5>3. taken \in Seq(Message) /\ Free(taken, z, c)
          BY <5>1, <5>2, Removed DEF Free
        <5>4. first \o taken \in Seq(Message) /\ Free(first \o taken, z, c)
          BY <2>2, <5>3, QueueMoves, ConcatTells
        <5> QED
          BY <1>4, <5>4
      <4>3. CASE result \notin {"stored", "unpublished"}
        <5>1. \A messages : Taken(result, messages) = {<<>>}
          BY <4>3 DEF Taken, Outcome
        <5>2. out' = Queue(out, first \o <<>>)
          BY <1>4, <5>1
        <5> QED
          BY <3>5, <5>2
      <4> QED
        BY <4>1, <4>2, <4>3
    <3> QED
      BY <1>2, <3>2, <3>6, OutMoves
  <2> QED
    BY <2>3, <2>4
<1>6. LinksAreLocal'
  BY <1>2 DEF FieldInv, LinksAreLocal
<1> QED
  BY <1>5, <1>6 DEF FieldInv

LEMMA DecisionAims ==
  ASSUME TypeOK, FieldInv,
         \/ BootRead \/ BootPublish \/ Refresh \/ DecisionReconnect \/ DecisionAcked
         \/ \E z \in Zone, r \in Outcome : ClearFire(z, r) \/ \E due \in BOOLEAN : Confirm(z, r, due)
  PROVE  FieldInv'
<1>0. FireZones \in SUBSET Zone /\ boot.bitmap \in SUBSET Zone /\ alarm \in [Zone -> {"NORMAL", "FIRE"}]
  BY DEF FireZones, TypeOK, DecisionTypes
<1>1. ASSUME UNCHANGED <<inbox, dout, link, node, alarm, lost>>,
             \/ out' = out \/ out' = Resend(out)
             \/ out.sent > 0 /\ out' = [unacked |-> Tail(out.unacked), sent |-> out.sent - 1]
             \/ \E s \in Seq(Message) : out' = Queue(out, s) /\ \A z, c : Free(s, z, c)
      PROVE  FieldInv'
  <2>1. ASSUME NEW z \in Zone, NEW c \in Moved, NEW d \in BOOLEAN, Wants(z, c, d)' PROVE OnOut(z, c, d)'
    <3>1. OnOut(z, c, d)
      BY <1>1, <2>1 DEF Wants, FieldInv
    <3> QED
      BY <1>1, <3>1, OutMoves
  <2> QED
    BY <1>1, <2>1 DEF FieldInv, LinksAreLocal
<1>2. CASE BootRead
  BY <1>1, <1>2 DEF BootRead, dispatch, field, history
<1>3. CASE BootPublish
  BY <1>0, <1>1, <1>3, SingleDisplay DEF BootPublish, dispatch, field, history
<1>4. CASE Refresh
  BY <1>0, <1>1, <1>4, SingleDisplay DEF Refresh, decision, dispatch, field, history
<1>5. CASE DecisionReconnect \/ DecisionAcked
  BY <1>1, <1>5 DEF DecisionReconnect, DecisionAcked, decision, dispatch, field, history
<1>6. ASSUME NEW y \in Zone, NEW r \in Outcome, NEW due \in BOOLEAN, Confirm(y, r, due) PROVE FieldInv'
  <2> DEFINE first == IF due THEN <<Display(FireZones \cup {y})>> ELSE <<>>
  <2>1. first \in Seq(Message) /\ \A z, c : Free(first, z, c)
    <3>1. FireZones \cup {y} \in SUBSET Zone
      BY <1>0
    <3>2. <<>> \in Seq(Message) /\ \A z, c : Free(<<>>, z, c)
      BY DEF Free
    <3> QED
      BY <3>1, <3>2, SingleDisplay
  <2>2. /\ Act(y, TRUE, r, first) /\ alarm' = [alarm EXCEPT ![y] = "FIRE"] /\ UNCHANGED <<dispatch, field>>
    BY <1>6 DEF Confirm
  <2> HIDE DEF first
  <2> QED
    BY <2>1, <2>2, ActAims
<1>7. ASSUME NEW y \in Zone, NEW r \in Outcome, ClearFire(y, r) PROVE FieldInv'
  <2>1. CASE alarm[y] = "FIRE"
    <3>1. Act(y, FALSE, r, <<>>) /\ alarm' = [alarm EXCEPT ![y] = "NORMAL"] /\ UNCHANGED <<dispatch, field>>
      BY <1>7, <2>1 DEF ClearFire
    <3>2. <<>> \in Seq(Message) /\ \A z, c : Free(<<>>, z, c)
      BY DEF Free
    <3> QED
      BY <3>1, <3>2, ActAims
  <2>2. CASE alarm[y] # "FIRE"
    BY <1>1, <1>7, <2>2 DEF ClearFire, dispatch, field
  <2> QED
    BY <2>1, <2>2
<1> QED
  BY <1>2, <1>3, <1>4, <1>5, <1>6, <1>7

(* What is lost of a zone is known to be.                                  *)
LEMMA FreeOrLost ==
  ASSUME NEW q, NEW T, ToSet(q) \subseteq T, NEW z, z \notin LosesFor(T), NEW c
  PROVE  Free(q, z, c)
  BY DEF Free, About, LosesFor, ToSet

LEMMA FreePasses ==
  ASSUME NEW q, NEW n, NEW z, NEW c, NEW d, Free(q, z, c)
  PROVE  ~ Tells(q, n, z, c, d) /\ Passes(q, n, z, c, d)
  BY DEF Free, Tells, Passes, LastSays

LEMMA MissedMeans ==
  ASSUME TypeOK, NEW S, lost' = Missed(S), NEW z \in Zone, ~ lost'[z]
  PROVE  ~ lost[z] /\ z \notin S
  BY DEF Missed, TypeOK, HistoryTypes

LEMMA CrashAims == ASSUME TypeOK, FieldInv, DecisionCrash PROVE FieldInv'
<1>1. /\ UNCHANGED <<inbox, dout, link, node>> /\ out' = NoMessages
      /\ lost' = Missed(FireZones \cup LosesFor(ToSet(out.unacked))) /\ alarm' = [z \in Zone |-> "NORMAL"]
  BY DEF DecisionCrash, dispatch, field
<1>2. ASSUME NEW z \in Zone, NEW c \in Moved, NEW d \in BOOLEAN, Wants(z, c, d)' PROVE OnOut(z, c, d)'
  <2>1. ~ lost[z] /\ z \notin FireZones /\ z \notin LosesFor(ToSet(out.unacked))
    BY <1>1, <1>2, MissedMeans DEF Wants
  <2>2. Wants(z, c, d)
    BY <1>1, <1>2, <2>1 DEF Wants, FireZones
  <2>3. Free(out.unacked, z, c)
    BY <2>1, FreeOrLost
  <2>4. OnInbox(z, c, d)
    BY <2>2, <2>3, FreePasses DEF FieldInv, OnOut
  <2>5. OnInbox(z, c, d)'
    BY <1>1, <2>4 DEF OnInbox, OnDout, OnLink, Done
  <2>6. Passes(<<>>, 0, z, c, d) /\ out'.unacked = <<>> /\ out'.sent = 0
    BY <1>1 DEF Passes, Free, NoMessages
  <2> QED
    BY <2>5, <2>6 DEF OnOut
<1> QED
  BY <1>1, <1>2 DEF FieldInv, LinksAreLocal

LEMMA SendAims == ASSUME TypeOK, FieldInv, DecisionSend PROVE FieldInv'
<1> DEFINE q == out.unacked
           n == out.sent
           m == q[n + 1]
<1>1. q \in Seq(Message) /\ n \in Nat /\ n < Len(q) /\ out \in [unacked : Seq(Message), sent : Nat]
  BY ClientQueues DEF DecisionSend, Unsent, TypeOK, OutTypes, Client
<1>2. m \in Message /\ out'.unacked = q /\ out'.sent = n + 1
  BY <1>1 DEF DecisionSend, Sent
<1>3. /\ IsCmd(m) => /\ inbox' = IF dispatchOn THEN Append(inbox, m) ELSE inbox
                     /\ lost' = IF dispatchOn THEN lost ELSE Missed({m.zone})
                     /\ UNCHANGED link
      /\ ~ IsCmd(m) => /\ link' = [z \in Zone |-> Delivered(z, m)]
                       /\ UNCHANGED <<inbox, lost>>
      /\ UNCHANGED <<dout, node, alarm>>
  <2>1. ~ IsCmd(m) => m.kind = "display"
    BY <1>2, Kinds DEF DisplayMessage
  <2>2. NextToSend(out) = m /\ UNCHANGED <<dout, node, alarm>>
    BY DEF NextToSend, DecisionSend, decision
  <2> HIDE DEF m
  <2>3. CASE IsCmd(m)
    <3>1. m.kind # "display"
      BY <2>3 DEF IsCmd
    <3>2. CASE dispatchOn
      BY <2>2, <2>3, <3>1, <3>2, Zenon DEF DecisionSend
    <3>3. CASE ~ dispatchOn
      BY <2>2, <2>3, <3>1, <3>3, Zenon DEF DecisionSend
    <3> QED
      BY <3>2, <3>3
  <2>4. CASE ~ IsCmd(m)
    BY <2>1, <2>2, <2>4 DEF DecisionSend
  <2> QED
    BY <2>2, <2>3, <2>4
<1> HIDE DEF m
<1>4. \A z \in Zone : link'[z] = link[z] \/ (~ IsCmd(m) /\ link'[z] = Append(link[z], m))
  BY <1>3 DEF Delivered
<1>5. LinksAreLocal'
  <2>1. ASSUME NEW z \in Zone, NEW i \in DOMAIN link'[z], IsCmd(link'[z][i]) PROVE link'[z][i].zone = z
    <3>1. link[z] \in Seq(Message)
      BY ClientQueues
    <3>2. CASE link'[z] = link[z]
      BY <2>1, <3>2 DEF FieldInv, LinksAreLocal
    <3>3. CASE ~ IsCmd(m) /\ link'[z] = Append(link[z], m)
      <4>1. i \in DOMAIN link[z] /\ link'[z][i] = link[z][i]
        BY <1>2, <2>1, <3>1, <3>3
      <4> QED
        BY <2>1, <4>1 DEF FieldInv, LinksAreLocal
    <3> QED
      BY <1>4, <3>2, <3>3
  <2> QED
    BY <2>1 DEF LinksAreLocal
<1>6. ASSUME NEW z \in Zone, NEW c \in Moved, NEW d \in BOOLEAN, Wants(z, c, d)' PROVE OnOut(z, c, d)'
  <2>1. Wants(z, c, d) /\ (About(m, z, c) => dispatchOn)
    BY <1>3, <1>6, MissedMeans DEF Wants, About
  <2>2. OnOut(z, c, d)
    BY <2>1 DEF FieldInv
  <2>3. inbox \in Seq(Message) /\ link[z] \in Seq(Message) /\ 0 \in Nat /\ 0 <= Len(inbox) /\ 0 <= Len(link[z])
    BY ClientQueues, QueueMoves
  <2>4. CASE About(m, z, c)
    <3>1. \/ Tells(q, n + 1, z, c, d)
          \/ m.on = d /\ Passes(q, n + 1, z, c, d)
      BY <1>1, <2>2, <2>4, SendTells DEF OnOut, m
    <3>2. inbox' = Append(inbox, m)
      BY <1>3, <2>1, <2>4 DEF About
    <3>3. m.on = d => Tells(inbox', 0, z, c, d)
      BY <1>2, <2>3, <2>4, <3>2, AppendTells
    <3> QED
      BY <1>2, <3>1, <3>3 DEF OnOut, OnInbox
  <2>5. CASE ~ About(m, z, c)
    <3>1. /\ Tells(q, n, z, c, d) => Tells(q, n + 1, z, c, d)
          /\ Passes(q, n, z, c, d) => Passes(q, n + 1, z, c, d)
      BY <1>1, <2>5, SendTells DEF m
    <3>2. inbox' = inbox \/ inbox' = Append(inbox, m)
      BY <1>3
    <3>3. /\ Tells(inbox, 0, z, c, d) => Tells(inbox', 0, z, c, d)
          /\ Passes(inbox, 0, z, c, d) => Passes(inbox', 0, z, c, d)
      BY <1>2, <2>3, <2>5, <3>2, AppendTells
    <3>4. /\ Tells(link[z], 0, z, c, d) => Tells(link'[z], 0, z, c, d)
          /\ Passes(link[z], 0, z, c, d) => Passes(link'[z], 0, z, c, d)
      BY <1>2, <1>4, <2>3, <2>5, AppendTells
    <3>5. OnLink(z, c, d) => OnLink(z, c, d)'
      BY <1>3, <3>4 DEF OnLink, Done
    <3>6. OnDout(z, c, d) => OnDout(z, c, d)'
      BY <1>3, <3>5 DEF OnDout
    <3>7. OnInbox(z, c, d) => OnInbox(z, c, d)'
      BY <3>3, <3>6 DEF OnInbox
    <3> QED
      BY <1>2, <2>2, <3>1, <3>7 DEF OnOut
  <2> QED
    BY <2>4, <2>5
<1> QED
  BY <1>5, <1>6 DEF FieldInv

LEMMA CmdAims ==
  ASSUME TypeOK, FieldInv, NEW published \in BOOLEAN, NEW recorded \in BOOLEAN, on_fire_cmd(published, recorded)
  PROVE  FieldInv'
<1> DEFINE m == Head(inbox)
           q == dout.unacked
<1>1. inbox \in Seq(Message) /\ inbox # <<>> /\ inbox' = Tail(inbox) /\ m \in Message
  BY ClientQueues, QueueMoves DEF on_fire_cmd
<1>2. /\ dout' = IF published THEN Queue(dout, <<m>>) ELSE dout
      /\ lost' = IF published THEN lost ELSE Missed({m.zone})
      /\ UNCHANGED <<out, link, node, alarm>>
  BY DEF on_fire_cmd, decision, field
<1>3. q \in Seq(Message) /\ dout.sent \in Nat /\ dout.sent <= Len(q) /\ dout \in [unacked : Seq(CmdMessage), sent : Nat]
  BY ClientQueues DEF TypeOK, DispatchTypes, Client
<1>4. /\ ~ published => dout' = dout
      /\ published => dout'.unacked = q \o <<m>> /\ dout'.sent = dout.sent
  BY <1>2, <1>3 DEF Queue
<1> HIDE DEF m, q
<1>5. q \o <<m>> = Append(q, m)
  BY <1>1, <1>3
<1>6. ASSUME NEW z \in Zone, NEW c \in Moved, NEW d \in BOOLEAN, Wants(z, c, d)' PROVE OnOut(z, c, d)'
  <2>1. Wants(z, c, d) /\ (About(m, z, c) => published)
    BY <1>2, <1>6, MissedMeans DEF Wants, About
  <2>2. OnOut(z, c, d)
    BY <2>1 DEF FieldInv
  <2>3. OnLink(z, c, d) => OnLink(z, c, d)'
    BY <1>2 DEF OnLink, Done
  <2>4. CASE About(m, z, c)
    <3>1. /\ ~ Passes(inbox, 0, z, c, d)
          /\ Tells(inbox, 0, z, c, d) => Tells(inbox', 0, z, c, d) \/ (m.on = d /\ Passes(inbox', 0, z, c, d))
      BY <1>1, <2>4, TailTells DEF m
    <3>2. m.on = d => Tells(dout'.unacked, dout'.sent, z, c, d)
      BY <1>1, <1>3, <1>4, <1>5, <2>1, <2>4, AppendTells
    <3>3. OnInbox(z, c, d) => OnInbox(z, c, d)'
      BY <3>1, <3>2 DEF OnInbox, OnDout
    <3> QED
      BY <1>2, <2>2, <3>3 DEF OnOut
  <2>5. CASE ~ About(m, z, c)
    <3>1. /\ Tells(inbox, 0, z, c, d) => Tells(inbox', 0, z, c, d)
          /\ Passes(inbox, 0, z, c, d) => Passes(inbox', 0, z, c, d)
      BY <1>1, <2>5, TailTells DEF m
    <3>2. /\ Tells(q, dout.sent, z, c, d) => Tells(dout'.unacked, dout'.sent, z, c, d)
          /\ Passes(q, dout.sent, z, c, d) => Passes(dout'.unacked, dout'.sent, z, c, d)
      BY <1>1, <1>3, <1>4, <1>5, <2>5, AppendTells DEF q
    <3>3. OnDout(z, c, d) => OnDout(z, c, d)'
      BY <2>3, <3>2 DEF OnDout, q
    <3>4. OnInbox(z, c, d) => OnInbox(z, c, d)'
      BY <3>1, <3>3 DEF OnInbox
    <3> QED
      BY <1>2, <2>2, <3>4 DEF OnOut
  <2> QED
    BY <2>4, <2>5
<1> QED
  BY <1>2, <1>6 DEF FieldInv, LinksAreLocal

LEMMA DispatchSendAims == ASSUME TypeOK, FieldInv, DispatchSend PROVE FieldInv'
<1> DEFINE q == dout.unacked
           n == dout.sent
           m == q[n + 1]
<1>1. /\ q \in Seq(Message) /\ q \in Seq(CmdMessage) /\ n \in Nat /\ n < Len(q)
      /\ dout \in [unacked : Seq(CmdMessage), sent : Nat]
  BY ClientQueues DEF DispatchSend, Unsent, TypeOK, DispatchTypes, Client
<1>2. m \in CmdMessage /\ m \in Message /\ m.zone \in Zone /\ dout'.unacked = q /\ dout'.sent = n + 1
  <2>1. m \in CmdMessage /\ m \in Message
    BY <1>1
  <2> QED
    BY <1>1, <2>1 DEF DispatchSend, Sent, CmdMessage
<1>3. /\ link' = [link EXCEPT ![m.zone] = Delivered(m.zone, m)]
      /\ lost' = IF node[m.zone].on THEN lost ELSE Missed({m.zone})
      /\ UNCHANGED <<out, inbox, node, alarm>>
  BY DEF DispatchSend, NextToSend, decision
<1> HIDE DEF m
<1>4. \A z \in Zone : /\ link[z] \in Seq(Message)
                      /\ link'[z] = link[z] \/ (z = m.zone /\ link'[z] = Append(link[z], m))
                      /\ z = m.zone /\ node[z].on => link'[z] = Append(link[z], m)
  <2>1. link \in [Zone -> Seq(Message)]
    BY DEF TypeOK, LinkTypes
  <2> QED
    BY <1>2, <1>3, <2>1 DEF Delivered
<1>5. LinksAreLocal'
  <2>1. ASSUME NEW z \in Zone, NEW i \in DOMAIN link'[z], IsCmd(link'[z][i]) PROVE link'[z][i].zone = z
    <3>1. CASE link'[z] = link[z]
      BY <2>1, <3>1 DEF FieldInv, LinksAreLocal
    <3>2. CASE z = m.zone /\ link'[z] = Append(link[z], m)
      <4>1. (i \in DOMAIN link[z] /\ link'[z][i] = link[z][i]) \/ link'[z][i] = m
        BY <1>2, <1>4, <2>1, <3>2
      <4> QED
        BY <2>1, <3>2, <4>1 DEF FieldInv, LinksAreLocal
    <3> QED
      BY <1>4, <3>1, <3>2
  <2> QED
    BY <2>1 DEF LinksAreLocal
<1>6. ASSUME NEW z \in Zone, NEW c \in Moved, NEW d \in BOOLEAN, Wants(z, c, d)' PROVE OnOut(z, c, d)'
  <2>1. Wants(z, c, d) /\ (z = m.zone => node[z].on)
    BY <1>3, <1>6, MissedMeans DEF Wants
  <2>2. OnOut(z, c, d)
    BY <2>1 DEF FieldInv
  <2>3. 0 \in Nat /\ 0 <= Len(link[z]) /\ link[z] \in Seq(Message)
    BY <1>4, QueueMoves
  <2>4. CASE About(m, z, c)
    <3>1. /\ ~ Passes(q, n, z, c, d)
          /\ Tells(q, n, z, c, d) => Tells(q, n + 1, z, c, d) \/ (m.on = d /\ Passes(q, n + 1, z, c, d))
      BY <1>1, <2>4, SendTells DEF m
    <3>2. link'[z] = Append(link[z], m)
      BY <1>4, <2>1, <2>4 DEF About
    <3>3. m.on = d => Tells(link'[z], 0, z, c, d)
      BY <1>2, <2>3, <2>4, <3>2, AppendTells
    <3>4. OnDout(z, c, d) => OnDout(z, c, d)'
      BY <1>2, <3>1, <3>3 DEF OnDout, OnLink
    <3> QED
      BY <1>3, <2>2, <3>4 DEF OnOut, OnInbox
  <2>5. CASE ~ About(m, z, c)
    <3>1. /\ Tells(q, n, z, c, d) => Tells(q, n + 1, z, c, d)
          /\ Passes(q, n, z, c, d) => Passes(q, n + 1, z, c, d)
      BY <1>1, <2>5, SendTells DEF m
    <3>2. /\ Tells(link[z], 0, z, c, d) => Tells(link'[z], 0, z, c, d)
          /\ Passes(link[z], 0, z, c, d) => Passes(link'[z], 0, z, c, d)
      BY <1>2, <1>4, <2>3, <2>5, AppendTells
    <3>3. OnLink(z, c, d) => OnLink(z, c, d)'
      BY <1>3, <3>2 DEF OnLink, Done
    <3>4. OnDout(z, c, d) => OnDout(z, c, d)'
      BY <1>2, <3>1, <3>3 DEF OnDout
    <3> QED
      BY <1>3, <2>2, <3>4 DEF OnOut, OnInbox
  <2> QED
    BY <2>4, <2>5
<1> QED
  BY <1>5, <1>6 DEF FieldInv

LEMMA DispatchAims ==
  ASSUME TypeOK, FieldInv, DispatchAcked \/ DispatchUp \/ \E crash \in BOOLEAN : DispatchDown(crash)
  PROVE  FieldInv'
<1>1. CASE DispatchAcked
  <2>1. /\ UNCHANGED <<out, inbox, link, node, alarm, lost>>
        /\ dout.sent > 0 /\ dout' = [unacked |-> Tail(dout.unacked), sent |-> dout.sent - 1]
    BY <1>1 DEF DispatchAcked, decision, field, history
  <2>2. ASSUME NEW z \in Zone, NEW c \in Moved, NEW d \in BOOLEAN, Wants(z, c, d)' PROVE OnOut(z, c, d)'
    <3>1. OnOut(z, c, d)
      BY <2>1, <2>2 DEF Wants, FieldInv
    <3> QED
      BY <2>1, <3>1, DoutMoves
  <2> QED
    BY <2>1, <2>2 DEF FieldInv, LinksAreLocal
<1>2. CASE DispatchUp
  <2>1. UNCHANGED <<out, inbox, dout, link, node, alarm, lost>>
    BY <1>2 DEF DispatchUp, decision, field, history
  <2> QED
    BY <2>1 DEF FieldInv, LinksAreLocal, Wants, OnOut, OnInbox, OnDout, OnLink, Done
<1>3. ASSUME NEW crash \in BOOLEAN, DispatchDown(crash) PROVE FieldInv'
  <2> DEFINE T == ToSet(inbox) \cup IF crash THEN ToSet(dout.unacked) ELSE {}
  <2>1. /\ inbox' = <<>> /\ dout' = IF crash THEN NoMessages ELSE Resend(dout)
        /\ lost' = Missed(LosesFor(T)) /\ UNCHANGED <<out, link, node, alarm>>
    BY <1>3 DEF DispatchDown, decision, field
  <2> HIDE DEF T
  <2>2. ASSUME NEW z \in Zone, NEW c \in Moved, NEW d \in BOOLEAN, Wants(z, c, d)' PROVE OnOut(z, c, d)'
    <3>1. Wants(z, c, d) /\ z \notin LosesFor(T)
      BY <2>1, <2>2, MissedMeans DEF Wants
    <3>2. OnOut(z, c, d) /\ Free(inbox, z, c) /\ (crash => Free(dout.unacked, z, c))
      <4>1. ToSet(inbox) \subseteq T /\ (crash => ToSet(dout.unacked) \subseteq T)
        BY DEF T
      <4> QED
        BY <3>1, <4>1, FreeOrLost DEF FieldInv
    <3>3. OnLink(z, c, d) => OnLink(z, c, d)'
      BY <2>1 DEF OnLink, Done
    <3>4. OnDout(z, c, d) => OnDout(z, c, d)'
      <4>1. CASE crash
        <5>1. dout'.unacked = <<>> /\ dout'.sent = 0 /\ Passes(<<>>, 0, z, c, d)
          BY <2>1, <4>1 DEF NoMessages, Passes, Free
        <5> QED
          BY <3>2, <3>3, <4>1, <5>1, FreePasses DEF OnDout
      <4>2. CASE ~ crash
        <5>1. dout'.unacked = dout.unacked /\ dout'.sent = 0
          BY <2>1, <4>2 DEF Resend, TypeOK, DispatchTypes, Client
        <5>2. /\ Tells(dout.unacked, dout.sent, z, c, d) => Tells(dout'.unacked, dout'.sent, z, c, d)
              /\ Passes(dout.unacked, dout.sent, z, c, d) =>
                   Tells(dout'.unacked, dout'.sent, z, c, d) \/ Passes(dout'.unacked, dout'.sent, z, c, d)
          BY <5>1, ResendTells, ClientQueues
        <5> QED
          BY <3>3, <5>2 DEF OnDout
      <4> QED
        BY <4>1, <4>2
    <3>5. OnInbox(z, c, d) => OnInbox(z, c, d)'
      <4>1. Passes(<<>>, 0, z, c, d)
        BY DEF Passes, Free
      <4> QED
        BY <2>1, <3>2, <3>4, <4>1, FreePasses DEF OnInbox
    <3> QED
      BY <2>1, <3>2, <3>5 DEF OnOut
  <2> QED
    BY <2>1, <2>2 DEF FieldInv, LinksAreLocal
<1> QED
  BY <1>1, <1>2, <1>3

LEMMA ReceiveAims ==
  ASSUME TypeOK, FieldInv, NEW y \in Zone, NEW ok \in BOOLEAN, NodeReceive(y, ok)
  PROVE  FieldInv'
<1> DEFINE m == Head(link[y])
<1>1. /\ link \in [Zone -> Seq(Message)] /\ link[y] \in Seq(Message) /\ link[y] # <<>> /\ m \in Message
      /\ node \in [Zone -> NodeState]
  <2>1. link \in [Zone -> Seq(Message)] /\ link[y] \in Seq(Message) /\ link[y] # <<>>
    BY DEF TypeOK, LinkTypes, NodeReceive
  <2> QED
    BY <2>1 DEF TypeOK, NodeTypes, NodeState
<1>2. /\ link' = [link EXCEPT ![y] = Tail(@)]
      /\ node' = [node EXCEPT ![y] = IF IsCmd(m) THEN Commanded(@, m, ok) ELSE matrix_link_handle_fire(@, m.bitmap, ok)]
      /\ UNCHANGED <<out, inbox, dout, alarm, lost>>
  BY DEF NodeReceive, decision, dispatch
<1>3. IsCmd(m) => m.zone = y /\ m.command \in Command /\ m \in CmdMessage
  <2>1. 1 \in DOMAIN link[y] /\ m = link[y][1]
    BY <1>1
  <2> HIDE DEF m
  <2>2. IsCmd(m) => m.zone = y
    BY <2>1 DEF FieldInv, LinksAreLocal
  <2>3. IsCmd(m) => m \in CmdMessage
    BY <1>1, Kinds
  <2> QED
    BY <2>2, <2>3 DEF CmdMessage
<1>4. \A z \in Zone : z # y => link'[z] = link[z] /\ node'[z] = node[z]
  BY <1>1, <1>2
<1>5. link'[y] = Tail(link[y])
      /\ node'[y] = IF IsCmd(m) THEN Commanded(node[y], m, ok) ELSE matrix_link_handle_fire(node[y], m.bitmap, ok)
  BY <1>1, <1>2
<1>6. LinksAreLocal'
  <2>1. ASSUME NEW i \in DOMAIN link'[y], IsCmd(link'[y][i]) PROVE link'[y][i].zone = y
    <3>1. i + 1 \in DOMAIN link[y] /\ link'[y][i] = link[y][i + 1]
      BY <1>1, <1>5, <2>1
    <3> QED
      BY <2>1, <3>1 DEF FieldInv, LinksAreLocal
  <2> QED
    BY <1>4, <2>1 DEF FieldInv, LinksAreLocal
<1> HIDE DEF m
<1>7. ASSUME NEW c \in Moved, NEW d \in BOOLEAN, d \/ c = "water_pump"
      PROVE  OnLink(y, c, d) => OnLink(y, c, d)'
  <2>1. node[y] \in NodeState /\ c \in {"servo_1", "shutter", "water_pump"}
    BY <1>1 DEF Moved
  <2>2. CASE About(m, y, c)
    <3>1. /\ ~ Passes(link[y], 0, y, c, d)
          /\ Tells(link[y], 0, y, c, d) => Tells(link'[y], 0, y, c, d) \/ (m.on = d /\ Passes(link'[y], 0, y, c, d))
      <4> DEFINE q == link[y]
      <4>1. q \in Seq(Message) /\ q # <<>> /\ 0 \in Nat /\ link'[y] = Tail(q) /\ m = Head(q)
        BY <1>1, <1>5 DEF m
      <4> HIDE DEF q
      <4>2. /\ ~ Passes(q, 0, y, c, d)
            /\ Tells(q, 0, y, c, d) => Tells(Tail(q), 0, y, c, d) \/ (m.on = d /\ Passes(Tail(q), 0, y, c, d))
        BY <2>2, <4>1, TailTells
      <4> QED
        BY <4>1, <4>2 DEF q
    <3>2. m.on = d => Done(y, c, d)'
      <4>1. IsCmd(m) /\ m.command = c
        BY <2>2 DEF About
      <4> QED
        BY <1>3, <1>5, <1>7, <2>1, <4>1, CommandedMoves DEF Done
    <3> QED
      BY <3>1, <3>2 DEF OnLink
  <2>3. CASE ~ About(m, y, c)
    <3>1. /\ Tells(link[y], 0, y, c, d) => Tells(link'[y], 0, y, c, d)
          /\ Passes(link[y], 0, y, c, d) => Passes(link'[y], 0, y, c, d)
      <4> DEFINE q == link[y]
      <4>1. q \in Seq(Message) /\ q # <<>> /\ 0 \in Nat /\ link'[y] = Tail(q) /\ m = Head(q)
        BY <1>1, <1>5 DEF m
      <4> HIDE DEF q
      <4>2. /\ Tells(q, 0, y, c, d) => Tells(Tail(q), 0, y, c, d)
            /\ Passes(q, 0, y, c, d) => Passes(Tail(q), 0, y, c, d)
        BY <2>3, <4>1, TailTells
      <4> QED
        BY <4>1, <4>2 DEF q
    <3>2. Done(y, c, d) => Done(y, c, d)'
      <4>1. CASE IsCmd(m)
        <5>1. m.command \in Command /\ m.command # c
          BY <1>3, <2>3, <4>1 DEF About
        <5> QED
          BY <1>3, <1>5, <1>7, <2>1, <4>1, <5>1, CommandedMoves DEF Done, Command
      <4>2. CASE ~ IsCmd(m)
        BY <1>5, <1>7, <2>1, <4>2 DEF Done, matrix_link_handle_fire, NodeState
      <4> QED
        BY <4>1, <4>2
    <3> QED
      BY <3>1, <3>2 DEF OnLink
  <2> QED
    BY <2>2, <2>3
<1>8. ASSUME NEW z \in Zone, NEW c \in Moved, NEW d \in BOOLEAN, Wants(z, c, d)' PROVE OnOut(z, c, d)'
  <2>1. OnOut(z, c, d) /\ (d \/ c = "water_pump")
    BY <1>2, <1>8 DEF Wants, FieldInv
  <2>2. OnLink(z, c, d) => OnLink(z, c, d)'
    <3>1. CASE z = y
      BY <1>7, <2>1, <3>1
    <3>2. CASE z # y
      BY <1>4, <3>2 DEF OnLink, Done
    <3> QED
      BY <3>1, <3>2
  <2>3. OnDout(z, c, d) => OnDout(z, c, d)'
    BY <1>2, <2>2 DEF OnDout
  <2> QED
    BY <1>2, <2>1, <2>3 DEF OnOut, OnInbox
<1> QED
  BY <1>6, <1>8 DEF FieldInv

LEMMA NodeAims ==
  ASSUME TypeOK, FieldInv, NEW y \in Zone,
         \/ NodeUp(y) \/ \E crash \in BOOLEAN : NodeDown(y, crash)
         \/ \E c \in Actuator, on \in BOOLEAN : ManualCommand(y, c, on)
  PROVE  FieldInv'
<1>1. link \in [Zone -> Seq(Message)] /\ node \in [Zone -> NodeState] /\ UNCHANGED <<out, inbox, dout, alarm>>
  BY DEF TypeOK, LinkTypes, NodeTypes, NodeState, NodeUp, ManualCommand, NodeDown, decision, dispatch
<1>2. \A z \in Zone : z # y => link'[z] = link[z] /\ node'[z] = node[z]
  BY <1>1 DEF NodeUp, ManualCommand, NodeDown
<1>3. ASSUME \A i \in DOMAIN link'[y] : IsCmd(link'[y][i]) => link'[y][i].zone = y,
             \A z \in Zone : ~ lost'[z] => ~ lost[z],
             \A c \in Moved, d \in BOOLEAN : Wants(y, c, d)' /\ OnLink(y, c, d) => OnLink(y, c, d)'
      PROVE  FieldInv'
  <2>1. ASSUME NEW z \in Zone, NEW c \in Moved, NEW d \in BOOLEAN, Wants(z, c, d)' PROVE OnOut(z, c, d)'
    <3>1. OnOut(z, c, d)
      BY <1>1, <1>3, <2>1 DEF Wants, FieldInv
    <3>2. OnLink(z, c, d) => OnLink(z, c, d)'
      <4>1. CASE z = y
        BY <1>3, <2>1, <4>1
      <4>2. CASE z # y
        BY <1>2, <4>2 DEF OnLink, Done
      <4> QED
        BY <4>1, <4>2
    <3>3. OnDout(z, c, d) => OnDout(z, c, d)'
      BY <1>1, <3>2 DEF OnDout
    <3> QED
      BY <1>1, <3>1, <3>3 DEF OnOut, OnInbox
  <2> QED
    BY <1>2, <1>3, <2>1 DEF FieldInv, LinksAreLocal
<1>4. CASE NodeUp(y)
  <2>1. /\ link[y] = <<>> /\ link'[y] = <<Display(retained)>> /\ retained \in SUBSET Zone /\ lost' = lost
        /\ node'[y] = [node[y] EXCEPT !.on = TRUE]
    BY <1>1, <1>4 DEF NodeUp, TypeOK, LinkTypes, history
  <2>2. \A i \in DOMAIN link'[y] : ~ IsCmd(link'[y][i])
    BY <2>1, SingleDisplay
  <2>3. ASSUME NEW c \in Moved, NEW d \in BOOLEAN, OnLink(y, c, d) PROVE OnLink(y, c, d)'
    <3>1. Passes(link'[y], 0, y, c, d)
      BY <2>1, SingleDisplay DEF Passes
    <3>2. ~ Tells(link[y], 0, y, c, d)
      BY <2>1 DEF Tells
    <3>3. Done(y, c, d) => Done(y, c, d)'
      BY <1>1, <2>1 DEF Done, NodeState
    <3> QED
      BY <2>3, <3>1, <3>2, <3>3 DEF OnLink
  <2> QED
    BY <1>3, <2>1, <2>2, <2>3
<1>5. ASSUME NEW k \in Actuator, NEW on \in BOOLEAN, ManualCommand(y, k, on) PROVE FieldInv'
  <2>1. /\ link' = link /\ lost' = lost
        /\ node'[y] = [Driven(node[y], k, on) EXCEPT !.strayed = Driven(node[y], k, on).strayed \cup {k}]
    BY <1>1, <1>5 DEF ManualCommand, DISPATCH_CMD, Strayed
  <2>2. Driven(node[y], k, on) \in NodeState /\ Driven(node[y], k, on).strayed = node[y].strayed
    BY <1>1 DEF Driven, NodeState, Actuator
  <2>3. ASSUME NEW c \in Moved, NEW d \in BOOLEAN, Done(y, c, d) PROVE Done(y, c, d)'
    <3>1. node'[y].strayed = node[y].strayed \cup {k}
      BY <2>1, <2>2 DEF NodeState
    <3>2. CASE c = k
      BY <3>1, <3>2 DEF Done
    <3>3. CASE c # k
      <4>1. /\ c = "water_pump" => node'[y].pump = node[y].pump
            /\ c = "servo_1" => node'[y].valveShut = node[y].valveShut
            /\ c = "shutter" => node'[y].shutterShut = node[y].shutterShut
        BY <1>1, <2>1, <2>2, <3>3 DEF Driven, NodeState, Actuator
      <4> QED
        BY <2>3, <3>1, <4>1 DEF Done
    <3> QED
      BY <3>2, <3>3
  <2> QED
    BY <1>3, <2>1, <2>3 DEF FieldInv, LinksAreLocal, OnLink
<1>6. ASSUME NEW crash \in BOOLEAN, NodeDown(y, crash) PROVE FieldInv'
  <2> DEFINE T == LosesFor(ToSet(link[y])) \cup IF crash THEN {y} ELSE {}
  <2>1. /\ link'[y] = <<>> /\ lost' = Missed(T)
        /\ ~ crash => node'[y] = [node[y] EXCEPT !.on = FALSE]
    BY <1>1, <1>6 DEF NodeDown
  <2>2. \A z \in Zone : ~ lost'[z] => ~ lost[z] /\ z \notin T
    BY <2>1, MissedMeans
  <2>3. ASSUME NEW c \in Moved, NEW d \in BOOLEAN, Wants(y, c, d)', OnLink(y, c, d) PROVE OnLink(y, c, d)'
    <3>1. ~ crash /\ y \notin LosesFor(ToSet(link[y]))
      BY <2>2, <2>3 DEF Wants
    <3>2. Done(y, c, d)
      BY <2>3, <3>1, FreeOrLost, FreePasses DEF OnLink
    <3>3. Done(y, c, d)'
      BY <1>1, <2>1, <3>1, <3>2 DEF Done, NodeState
    <3>4. Passes(link'[y], 0, y, c, d)
      BY <2>1 DEF Passes, Free
    <3> QED
      BY <3>3, <3>4 DEF OnLink
  <2>4. \A i \in DOMAIN link'[y] : ~ IsCmd(link'[y][i])
    BY <2>1
  <2> QED
    BY <1>3, <2>2, <2>3, <2>4
<1> QED
  BY <1>4, <1>5, <1>6

LEMMA FieldStart == Init => FieldInv
<1> SUFFICES ASSUME Init PROVE FieldInv
  OBVIOUS
<1>1. ASSUME NEW z \in Zone, NEW c \in Moved, NEW d \in BOOLEAN, Wants(z, c, d) PROVE OnOut(z, c, d)
  <2>1. Passes(<<>>, 0, z, c, d) /\ c \in {"servo_1", "shutter", "water_pump"}
    BY DEF Passes, Free, Moved
  <2>2. Done(z, c, d)
    BY <1>1, <2>1 DEF Init, Wants, Done
  <2> QED
    BY <2>1, <2>2 DEF Init, NoMessages, OnOut, OnInbox, OnDout, OnLink
<1>2. LinksAreLocal
  BY DEF Init, LinksAreLocal
<1> QED
  BY <1>1, <1>2 DEF FieldInv

LEMMA FieldStep == TypeOK /\ FieldInv /\ [Next]_vars => FieldInv'
<1> SUFFICES ASSUME TypeOK, FieldInv, [Next]_vars PROVE FieldInv'
  OBVIOUS
<1>1. CASE \/ BootRead \/ BootPublish \/ Refresh \/ DecisionReconnect \/ DecisionAcked
           \/ \E z \in Zone, r \in Outcome : ClearFire(z, r) \/ \E due \in BOOLEAN : Confirm(z, r, due)
  BY <1>1, DecisionAims
<1>2. CASE DecisionCrash \/ DecisionSend
  BY <1>2, CrashAims, SendAims
<1>3. ASSUME NEW p \in BOOLEAN, NEW r \in BOOLEAN, on_fire_cmd(p, r) PROVE FieldInv'
  BY <1>3, CmdAims
<1>4. CASE DispatchSend \/ DispatchAcked \/ DispatchUp \/ \E crash \in BOOLEAN : DispatchDown(crash)
  BY <1>4, DispatchSendAims, DispatchAims
<1>5. ASSUME NEW z \in Zone,
             \/ NodeUp(z) \/ \E crash \in BOOLEAN : NodeDown(z, crash)
             \/ \E ok \in BOOLEAN : NodeReceive(z, ok)
             \/ \E c \in Actuator \cap Followed, on \in BOOLEAN : ManualCommand(z, c, on)
      PROVE  FieldInv'
  BY <1>5, ReceiveAims, NodeAims
<1>6. CASE UNCHANGED vars
  <2>1. UNCHANGED <<out, inbox, dout, link, node, alarm, lost>>
    BY <1>6 DEF vars, decision, dispatch, field, history
  <2> QED
    BY <2>1 DEF FieldInv, LinksAreLocal, Wants, OnOut, OnInbox, OnDout, OnLink, Done
<1> QED
  BY <1>1, <1>2, <1>3, <1>4, <1>5, <1>6 DEF Next

LEMMA NothingMeansFree ==
  ASSUME NEW z \in Zone, NothingFor(z), NEW c
  PROVE  Free(out.unacked, z, c) /\ Free(inbox, z, c) /\ Free(dout.unacked, z, c) /\ Free(link[z], z, c)
<1>1. ASSUME NEW q, ToSet(q) \subseteq InFlight PROVE Free(q, z, c)
  BY <1>1 DEF NothingFor, Free, About, ToSet
<1>2. /\ ToSet(out.unacked) \subseteq InFlight /\ ToSet(inbox) \subseteq InFlight
      /\ ToSet(dout.unacked) \subseteq InFlight /\ ToSet(link[z]) \subseteq InFlight
  BY DEF InFlight
<1> QED
  BY <1>1, <1>2

(* Whatever is sent twice, refused, crashes or reconnects, and whatever    *)
(* the VMS commands: once no command of a zone is on its way and none of   *)
(* its last transition was lost, its pump runs exactly in a fire, and in a *)
(* fire its valve and its shutter are shut, but for an actuator whose      *)
(* driver refused the last command or that the VMS moved since             *)
(* (fire_scenario and recover_scenario of rpib_decision, on_fire_cmd of    *)
(* rpib_dispatch, the command table of rpic_subscriber).                   *)
THEOREM FieldIsAsDecided == Spec => []FieldFollowsDecision
<1>1. ServiceInv /\ FieldInv => FieldFollowsDecision
  <2> SUFFICES ASSUME FieldInv, NEW z \in Zone, NothingFor(z), ~ lost[z], NEW c \in Moved,
                      c = "water_pump" \/ alarm[z] = "FIRE"
               PROVE  Done(z, c, alarm[z] = "FIRE")
    <3>1. ASSUME NEW z \in Zone, \A c \in Moved : c = "water_pump" \/ alarm[z] = "FIRE" => Done(z, c, alarm[z] = "FIRE"),
                 NEW c \in Followed \ node[z].strayed
          PROVE  /\ c = "water_pump" => node[z].pump = (alarm[z] = "FIRE")
                 /\ alarm[z] = "FIRE" => /\ c = "servo_1" => node[z].valveShut
                                         /\ c = "shutter" => node[z].shutterShut
      <4>1. c \in {"servo_1", "shutter", "water_pump"} => c \in Moved
        BY DEF Moved
      <4>2. c = "water_pump" => Done(z, c, alarm[z] = "FIRE")
        BY <3>1, <4>1
      <4>3. alarm[z] = "FIRE" /\ c \in {"servo_1", "shutter"} => Done(z, c, TRUE)
        BY <3>1, <4>1
      <4> QED
        BY <4>2, <4>3 DEF Done
    <3> QED
      BY <3>1 DEF FieldFollowsDecision
  <2>1. Wants(z, c, alarm[z] = "FIRE") /\ (alarm[z] = "FIRE") \in BOOLEAN
    BY DEF Wants
  <2>2. OnOut(z, c, alarm[z] = "FIRE")
    BY <2>1 DEF FieldInv
  <2> QED
    BY <2>2, NothingMeansFree, FreePasses DEF OnOut, OnInbox, OnDout, OnLink
<1>2. Spec => []FieldInv
  <2>1. ServiceInv /\ FieldInv /\ [Next]_vars => FieldInv'
    BY InvImpliesTypes, FieldStep
  <2> QED
    BY <2>1, FieldStart, ServiceInvariant, PTL DEF Spec
<1> QED
  BY <1>1, <1>2, ServiceInvariant, PTL

-----------------------------------------------------------------------------
(* The audit.  Each command of a zone's last transition waits in a client, *)
(* has arrived at the dispatcher, or was tried there: what was sent is in  *)
(* the inbox, and what left the inbox has its row or a failed insert.      *)

Ahead(q, n, m) == \E i \in DOMAIN q : i > n /\ q[i] = m
Tried(m) == Row(m) \in audit \cup unrecorded
OnWay(m) == Ahead(out.unacked, out.sent, m) \/ Ahead(inbox, 0, m) \/ Tried(m)

LastTried(e) ==
  IsLast(e) /\ ~ lost[fireEvents[e].zone] => \A m \in Scenario(e) : OnWay(m)
AuditInv == \A e \in DOMAIN fireEvents : LastTried(e)

LEMMA ScenarioMessages ==
  ASSUME TypeOK, NEW e \in DOMAIN fireEvents
  PROVE  \A m \in Scenario(e) : m \in CmdMessage /\ m.zone = fireEvents[e].zone
<1>1. e \in Nat \ {0} /\ fireEvents[e] \in [zone : Zone, on : BOOLEAN]
  <2> DEFINE R == [zone : Zone, on : BOOLEAN]
  <2>1. fireEvents \in Seq(R)
    BY DEF TypeOK, DecisionTypes
  <2> HIDE DEF R
  <2>2. e \in Nat \ {0} /\ fireEvents[e] \in R
    BY <2>1
  <2> QED
    BY <2>2 DEF R
<1> DEFINE z == fireEvents[e].zone
<1>2. z \in Zone
  BY <1>1
<1>3. /\ ToSet(fire_scenario(e, z)) \subseteq Of(e, z, TRUE)
      /\ ToSet(recover_scenario(e, z)) \subseteq Of(e, z, FALSE)
  BY <1>1, <1>2, ScenarioIsOf, InQueue
<1> QED
  BY <1>3 DEF Scenario, Of

(* A step that records no transition only has to keep what is on its way.  *)
LEMMA AuditKept ==
  ASSUME TypeOK, AuditInv, UNCHANGED fireEvents,
         \A z \in Zone : lost[z] => lost'[z],
         \A m \in CmdMessage : OnWay(m) /\ m.zone \in Zone /\ ~ lost'[m.zone] => OnWay(m)'
  PROVE  AuditInv'
<1> SUFFICES ASSUME NEW e \in DOMAIN fireEvents, IsLast(e), ~ lost'[fireEvents[e].zone],
                    NEW m \in Scenario(e)
             PROVE  OnWay(m)'
  <2>1. \A e : (IsLast(e)' <=> IsLast(e)) /\ Scenario(e)' = Scenario(e)
    BY DEF IsLast, Scenario
  <2> QED
    BY <2>1 DEF AuditInv, LastTried
<1>1. m \in CmdMessage /\ m.zone = fireEvents[e].zone /\ m.zone \in Zone
  BY ScenarioMessages DEF CmdMessage
<1>2. OnWay(m)
  BY <1>1 DEF AuditInv, LastTried
<1> QED
  BY <1>1, <1>2

LEMMA AheadMoves ==
  ASSUME NEW q \in Seq(Message), NEW n \in Nat, n <= Len(q), NEW m, Ahead(q, n, m)
  PROVE  /\ Ahead(q, 0, m)
         /\ \A s \in Seq(Message) : Ahead(q \o s, n, m)
         /\ \A x \in Message : Ahead(Append(q, x), n, m)
         /\ n > 0 => Ahead(Tail(q), n - 1, m)
         /\ q[n + 1] # m => Ahead(q, n + 1, m)
<1>1. PICK i \in DOMAIN q : i > n /\ q[i] = m
  BY DEF Ahead
<1>2. i \in 1 .. Len(q) /\ DOMAIN q = 1 .. Len(q)
  OBVIOUS
<1>3. ASSUME NEW s \in Seq(Message) PROVE Ahead(q \o s, n, m)
  <2>1. i \in DOMAIN (q \o s) /\ (q \o s)[i] = q[i]
    BY <1>2
  <2> QED
    BY <1>1, <2>1 DEF Ahead
<1>4. ASSUME NEW x \in Message PROVE Ahead(Append(q, x), n, m)
  <2>1. i \in DOMAIN Append(q, x) /\ Append(q, x)[i] = q[i]
    BY <1>2
  <2> QED
    BY <1>1, <2>1 DEF Ahead
<1>5. ASSUME n > 0 PROVE Ahead(Tail(q), n - 1, m)
  <2>1. q # <<>> /\ i - 1 \in 1 .. Len(q) - 1 /\ i - 1 > n - 1
    BY <1>1, <1>2, <1>5
  <2>2. i - 1 \in DOMAIN Tail(q) /\ Tail(q)[i - 1] = q[i]
    BY <1>2, <2>1
  <2> QED
    BY <1>1, <2>1, <2>2 DEF Ahead
<1>6. ASSUME q[n + 1] # m PROVE Ahead(q, n + 1, m)
  BY <1>1, <1>2, <1>6 DEF Ahead
<1>7. Ahead(q, 0, m)
  BY <1>1, <1>2 DEF Ahead
<1> QED
  BY <1>3, <1>4, <1>5, <1>6, <1>7

(* Steps of the client of rpib_decision, and steps that concern none of    *)
(* this.                                                                   *)
LEMMA ClientAudits ==
  ASSUME TypeOK, AuditInv, UNCHANGED <<fireEvents, inbox, audit, unrecorded>>,
         \A z \in Zone : lost[z] => lost'[z],
         \/ out' = out \/ out' = Resend(out)
         \/ out.sent > 0 /\ out' = [unacked |-> Tail(out.unacked), sent |-> out.sent - 1]
         \/ \E s \in Seq(Message) : out' = Queue(out, s)
  PROVE  AuditInv'
<1>1. /\ out \in [unacked : Seq(Message), sent : Nat] /\ out.unacked \in Seq(Message)
      /\ out.sent \in Nat /\ out.sent <= Len(out.unacked)
  BY ClientQueues DEF TypeOK, OutTypes, Client
<1>2. ASSUME NEW m, Ahead(out.unacked, out.sent, m) PROVE Ahead(out.unacked, out.sent, m)'
  <2>1. CASE out' = out
    BY <1>2, <2>1
  <2>2. CASE out' = Resend(out)
    <3>1. out'.unacked = out.unacked /\ out'.sent = 0
      BY <1>1, <2>2 DEF Resend
    <3> QED
      BY <1>1, <1>2, <3>1, AheadMoves
  <2>3. CASE out.sent > 0 /\ out' = [unacked |-> Tail(out.unacked), sent |-> out.sent - 1]
    <3>1. out'.unacked = Tail(out.unacked) /\ out'.sent = out.sent - 1
      BY <2>3
    <3> QED
      BY <1>1, <1>2, <2>3, <3>1, AheadMoves
  <2>4. ASSUME NEW s \in Seq(Message), out' = Queue(out, s) PROVE Ahead(out.unacked, out.sent, m)'
    <3>1. out'.unacked = out.unacked \o s /\ out'.sent = out.sent
      BY <1>1, <2>4 DEF Queue
    <3> QED
      BY <1>1, <1>2, <3>1, AheadMoves
  <2> QED
    BY <2>1, <2>2, <2>3, <2>4
<1>3. \A m : OnWay(m) => OnWay(m)'
  BY <1>2 DEF OnWay, Ahead, Tried, Row
<1> QED
  BY <1>3, AuditKept

LEMMA MissedGrows == ASSUME NEW S, lost' = Missed(S) PROVE \A z \in Zone : lost[z] => lost'[z]
  BY DEF Missed

LEMMA SendAudits == ASSUME TypeOK, AuditInv, DecisionSend PROVE AuditInv'
<1> DEFINE q == out.unacked
           n == out.sent
           x == q[n + 1]
<1>1. q \in Seq(Message) /\ n \in Nat /\ n < Len(q) /\ out \in [unacked : Seq(Message), sent : Nat]
  BY ClientQueues DEF DecisionSend, Unsent, TypeOK, OutTypes, Client
<1>2. x \in Message /\ out'.unacked = q /\ out'.sent = n + 1 /\ NextToSend(out) = x
  BY <1>1 DEF DecisionSend, Sent, NextToSend
<1>3. UNCHANGED <<fireEvents, audit, unrecorded, dispatchOn>>
  BY DEF DecisionSend, decision
<1>4. /\ IsCmd(x) => /\ inbox' = IF dispatchOn THEN Append(inbox, x) ELSE inbox
                     /\ lost' = IF dispatchOn THEN lost ELSE Missed({x.zone})
      /\ ~ IsCmd(x) => UNCHANGED <<inbox, lost>>
  <2>1. ~ IsCmd(x) => x.kind = "display"
    BY <1>2, Kinds DEF DisplayMessage
  <2> HIDE DEF x
  <2>2. CASE IsCmd(x)
    <3>1. x.kind # "display"
      BY <2>2 DEF IsCmd
    <3>2. CASE dispatchOn
      BY <1>2, <2>2, <3>1, <3>2, Zenon DEF DecisionSend
    <3>3. CASE ~ dispatchOn
      BY <1>2, <2>2, <3>1, <3>3, Zenon DEF DecisionSend
    <3> QED
      BY <3>2, <3>3
  <2>3. CASE ~ IsCmd(x)
    BY <1>2, <2>1, <2>3 DEF DecisionSend
  <2> QED
    BY <2>2, <2>3
<1> HIDE DEF x
<1>5. inbox \in Seq(Message) /\ (inbox' = inbox \/ inbox' = Append(inbox, x))
  BY <1>4, ClientQueues
<1>6. \A z \in Zone : lost[z] => lost'[z]
  BY <1>4, MissedGrows
<1>7. ASSUME NEW m \in CmdMessage, OnWay(m), m.zone \in Zone, ~ lost'[m.zone] PROVE OnWay(m)'
  <2>1. CASE Tried(m)
    BY <1>3, <2>1 DEF OnWay, Tried, Row
  <2>2. CASE Ahead(inbox, 0, m)
    <3>1. inbox \in Seq(Message) /\ 0 \in Nat /\ 0 <= Len(inbox)
      BY <1>5
    <3>2. Ahead(Append(inbox, x), 0, m)
      BY <1>2, <2>2, <3>1, AheadMoves
    <3>3. CASE inbox' = inbox
      BY <2>2, <3>3 DEF OnWay, Ahead
    <3>4. CASE inbox' = Append(inbox, x)
      BY <3>2, <3>4 DEF OnWay, Ahead
    <3> QED
      BY <1>5, <3>3, <3>4
  <2>3. CASE Ahead(q, n, m) /\ x # m
    <3>1. Ahead(q, n + 1, m)
      BY <1>1, <2>3, AheadMoves DEF x
    <3> QED
      BY <1>2, <3>1 DEF OnWay
  <2>4. CASE x = m
    <3>1. IsCmd(x)
      BY <2>4, Kinds
    <3>2. CASE dispatchOn
      <4>1. inbox' = Append(inbox, m)
        BY <1>4, <2>4, <3>1, <3>2
      <4>2. Len(inbox) + 1 \in DOMAIN inbox' /\ inbox'[Len(inbox) + 1] = m /\ Len(inbox) + 1 > 0
        BY <1>5, <4>1
      <4> QED
        BY <4>2 DEF OnWay, Ahead
    <3>3. CASE ~ dispatchOn
      <4>1. lost' = Missed({m.zone})
        BY <1>4, <2>4, <3>1, <3>3
      <4> QED
        BY <1>7, <4>1 DEF Missed
    <3> QED
      BY <3>2, <3>3
  <2> QED
    BY <1>7, <2>1, <2>2, <2>3, <2>4 DEF OnWay
<1> QED
  BY <1>3, <1>6, <1>7, AuditKept

LEMMA CmdAudits ==
  ASSUME TypeOK, AuditInv, NEW p \in BOOLEAN, NEW r \in BOOLEAN, on_fire_cmd(p, r)
  PROVE  AuditInv'
<1> DEFINE h == Head(inbox)
<1>1. /\ inbox # <<>> /\ inbox' = Tail(inbox) /\ (r => p)
      /\ unrecorded' = IF p /\ ~ r THEN unrecorded \cup {Row(h)} ELSE unrecorded
      /\ audit' = IF r THEN audit \cup {Row(h)} ELSE audit
      /\ lost' = IF p THEN lost ELSE Missed({h.zone})
      /\ UNCHANGED <<fireEvents, out>>
  BY DEF on_fire_cmd, decision
<1>2. inbox \in Seq(Message)
  BY ClientQueues
<1>3. \A z \in Zone : lost[z] => lost'[z]
  BY <1>1, MissedGrows
<1>4. ASSUME NEW m \in CmdMessage, OnWay(m), m.zone \in Zone, ~ lost'[m.zone] PROVE OnWay(m)'
  <2>1. CASE Tried(m)
    BY <1>1, <2>1 DEF OnWay, Tried, Row
  <2>2. CASE Ahead(out.unacked, out.sent, m)
    BY <1>1, <2>2 DEF OnWay, Ahead
  <2>3. CASE Ahead(inbox, 0, m)
    <3>1. PICK i \in DOMAIN inbox : inbox[i] = m
      BY <2>3 DEF Ahead
    <3>2. CASE i = 1
      <4>1. m = h
        BY <1>2, <3>1, <3>2
      <4>2. p
        BY <1>1, <1>4, <4>1 DEF Missed
      <4>3. Row(m) \in audit' \cup unrecorded'
        BY <1>1, <4>1, <4>2
      <4> QED
        BY <4>3 DEF OnWay, Tried, Row
    <3>3. CASE i # 1
      <4>1. i - 1 \in DOMAIN Tail(inbox) /\ Tail(inbox)[i - 1] = m /\ i - 1 > 0
        BY <1>1, <1>2, <3>1, <3>3
      <4> QED
        BY <1>1, <4>1 DEF OnWay, Ahead
    <3> QED
      BY <3>2, <3>3
  <2> QED
    BY <1>4, <2>1, <2>2, <2>3 DEF OnWay
<1> QED
  BY <1>1, <1>3, <1>4, AuditKept

(* What a crash forgets is lost.                                           *)
LEMMA AheadIsLost ==
  ASSUME NEW q, NEW n, NEW m \in CmdMessage, Ahead(q, n, m), NEW T, ToSet(q) \subseteq T
  PROVE  m.zone \in LosesFor(T)
  BY Kinds DEF Ahead, LosesFor, ToSet

LEMMA DownAudits ==
  ASSUME TypeOK, AuditInv, DecisionCrash \/ \E crash \in BOOLEAN : DispatchDown(crash)
  PROVE  AuditInv'
<1>1. CASE DecisionCrash
  <2>1. /\ UNCHANGED <<fireEvents, inbox, audit, unrecorded>>
        /\ lost' = Missed(FireZones \cup LosesFor(ToSet(out.unacked)))
    BY <1>1 DEF DecisionCrash, dispatch
  <2>2. ASSUME NEW m \in CmdMessage, OnWay(m), m.zone \in Zone, ~ lost'[m.zone] PROVE OnWay(m)'
    <3>1. m.zone \notin LosesFor(ToSet(out.unacked))
      BY <2>1, <2>2 DEF Missed
    <3>2. Ahead(inbox, 0, m) \/ Tried(m)
      BY <2>2, <3>1, AheadIsLost DEF OnWay
    <3> QED
      BY <2>1, <3>2 DEF OnWay, Ahead, Tried, Row
  <2> QED
    BY <2>1, <2>2, MissedGrows, AuditKept
<1>2. ASSUME NEW crash \in BOOLEAN, DispatchDown(crash) PROVE AuditInv'
  <2> DEFINE T == ToSet(inbox) \cup IF crash THEN ToSet(dout.unacked) ELSE {}
  <2>1. UNCHANGED <<fireEvents, out, audit, unrecorded>> /\ lost' = Missed(LosesFor(T))
    BY <1>2 DEF DispatchDown, decision
  <2>2. ToSet(inbox) \subseteq T
    OBVIOUS
  <2> HIDE DEF T
  <2>3. ASSUME NEW m \in CmdMessage, OnWay(m), m.zone \in Zone, ~ lost'[m.zone] PROVE OnWay(m)'
    <3>1. m.zone \notin LosesFor(T)
      BY <2>1, <2>3 DEF Missed
    <3>2. Ahead(out.unacked, out.sent, m) \/ Tried(m)
      BY <2>2, <2>3, <3>1, AheadIsLost DEF OnWay
    <3> QED
      BY <2>1, <3>2 DEF OnWay, Ahead, Tried, Row
  <2> QED
    BY <2>1, <2>3, MissedGrows, AuditKept
<1> QED
  BY <1>1, <1>2

(* A transition: its commands are queued behind everything else, or the    *)
(* zone's are lost; the zone's earlier transitions no longer matter.       *)
LEMMA ActAudits ==
  ASSUME TypeOK, AuditInv, NEW y \in Zone, NEW on \in BOOLEAN, NEW result \in Outcome,
         NEW first \in Seq(Message), Act(y, on, result, first), UNCHANGED <<inbox, audit, unrecorded>>
  PROVE  AuditInv'
<1> DEFINE e == Len(fireEvents) + 1
           r == [zone |-> y, on |-> on]
           shown == Display({x \in Zone : alarm'[x] = "FIRE"})
           scenario == IF on THEN fire_scenario(e, y) ELSE recover_scenario(e, y)
           messages == <<shown>> \o scenario
<1>1. /\ fireEvents \in Seq([zone : Zone, on : BOOLEAN]) /\ r \in [zone : Zone, on : BOOLEAN]
      /\ lost \in [Zone -> BOOLEAN]
  BY DEF TypeOK, DecisionTypes, HistoryTypes
<1>2. Len(fireEvents) \in Nat /\ e \in Nat \ {0}
  BY <1>1
<1>3. /\ fireEvents' = IF result = "failed" THEN fireEvents ELSE Append(fireEvents, r)
      /\ lost' = [lost EXCEPT ![y] = result # "stored"]
      /\ \E taken \in Taken(result, messages) : out' = Queue(out, first \o taken)
  BY DEF Act
<1>4. scenario \in Seq(Message) /\ messages \in Seq(Message)
  <2>1. {x \in Zone : alarm'[x] = "FIRE"} \in SUBSET Zone
    OBVIOUS
  <2>2. <<shown>> \in Seq(Message)
    BY <2>1, SingleDisplay
  <2>3. scenario \in Seq(Message)
    <3>1. \A S : S \subseteq Message => \A q \in Seq(S) : q \in Seq(Message)
      OBVIOUS
    <3>2. Of(e, y, TRUE) \subseteq Message /\ Of(e, y, FALSE) \subseteq Message
      BY DEF Of, Message
    <3>3. fire_scenario(e, y) \in Seq(Message) /\ recover_scenario(e, y) \in Seq(Message)
      BY <1>2, <3>1, <3>2, ScenarioIsOf
    <3> QED
      BY <3>3
  <2> QED
    BY <2>2, <2>3, QueueMoves
<1>5. \E s \in Seq(Message) : out' = Queue(out, s)
  <2> HIDE DEF messages
  <2>1. PICK taken \in Taken(result, messages) : out' = Queue(out, first \o taken)
    BY <1>3
  <2>2. taken \in Seq(Message)
    <3>1. <<>> \in Seq(Message)
      OBVIOUS
    <3> QED
      BY <1>4, <2>1, <3>1, Removed DEF Taken, Outcome
  <2> QED
    BY <2>1, <2>2, QueueMoves
<1>6. /\ out \in [unacked : Seq(Message), sent : Nat] /\ out.unacked \in Seq(Message)
      /\ out.sent \in Nat /\ out.sent <= Len(out.unacked)
  BY ClientQueues DEF TypeOK, OutTypes, Client
<1>7. \A m : OnWay(m) => OnWay(m)'
  <2>1. PICK s \in Seq(Message) : out' = Queue(out, s)
    BY <1>5
  <2>2. out'.unacked = out.unacked \o s /\ out'.sent = out.sent
    BY <1>6, <2>1 DEF Queue
  <2>3. \A m : Ahead(out.unacked, out.sent, m) => Ahead(out'.unacked, out'.sent, m)
    BY <1>6, <2>2, AheadMoves
  <2> QED
    BY <2>3 DEF OnWay, Ahead, Tried, Row
<1> SUFFICES ASSUME NEW k \in DOMAIN fireEvents', IsLast(k)', ~ lost'[fireEvents'[k].zone],
                    NEW m \in Scenario(k)'
             PROVE  OnWay(m)'
  BY DEF AuditInv, LastTried
<1>8. /\ DOMAIN fireEvents = 1 .. Len(fireEvents)
      /\ result # "failed" => /\ DOMAIN fireEvents' = 1 .. e /\ fireEvents'[e] = r
                              /\ \A i \in 1 .. Len(fireEvents) : fireEvents'[i] = fireEvents[i]
      /\ result = "failed" => fireEvents' = fireEvents
  BY <1>1, <1>3
<1> HIDE DEF e
<1>9. CASE k \in DOMAIN fireEvents
  <2>1. fireEvents'[k] = fireEvents[k] /\ fireEvents[k] \in [zone : Zone, on : BOOLEAN]
    <3> DEFINE R == [zone : Zone, on : BOOLEAN]
    <3>1. fireEvents \in Seq(R)
      BY <1>1
    <3> HIDE DEF R
    <3>2. fireEvents[k] \in R
      BY <1>9, <3>1
    <3>3. fireEvents'[k] = fireEvents[k]
      <4> HIDE DEF r
      <4> QED
        BY <1>8, <1>9
    <3> QED
      BY <3>2, <3>3 DEF R
  <2>2. fireEvents[k].zone # y
    <3>1. CASE result = "failed"
      BY <1>1, <1>3, <2>1, <3>1
    <3>2. CASE result # "failed"
      <4>1. e \in DOMAIN fireEvents' /\ e > k
        BY <1>2, <1>8, <1>9, <3>2 DEF e
      <4>2. fireEvents'[e].zone # fireEvents'[k].zone
        BY <4>1 DEF IsLast
      <4> QED
        BY <1>8, <2>1, <3>2, <4>2
    <3> QED
      BY <3>1, <3>2
  <2>3. ~ lost[fireEvents[k].zone]
    BY <1>1, <1>3, <2>1, <2>2
  <2>4. IsLast(k)
    <3>1. \A i \in DOMAIN fireEvents : i \in DOMAIN fireEvents' /\ fireEvents'[i] = fireEvents[i]
      BY <1>2, <1>8 DEF e
    <3> QED
      BY <2>1, <3>1 DEF IsLast
  <2>5. m \in Scenario(k)
    BY <2>1 DEF Scenario
  <2>6. OnWay(m)
    BY <1>9, <2>3, <2>4, <2>5 DEF AuditInv, LastTried
  <2> QED
    BY <1>7, <2>6
<1>10. CASE k \notin DOMAIN fireEvents
  <2>1. result # "failed" /\ k = e
    BY <1>2, <1>8, <1>10 DEF e
  <2>2. result = "stored"
    <3>1. fireEvents'[k] = r
      <4> HIDE DEF r
      <4> QED
        BY <1>8, <2>1
    <3>2. fireEvents'[k].zone = y
      BY <3>1
    <3>3. ~ lost'[y]
      BY <3>2
    <3>4. lost'[y] = (result # "stored")
      BY <1>1, <1>3, Zenon
    <3> QED
      BY <3>3, <3>4
  <2>3. m \in ToSet(scenario)
    BY <1>8, <2>1 DEF Scenario
  <2> HIDE DEF scenario
  <2>4. PICK i \in DOMAIN scenario : scenario[i] = m
    BY <2>3 DEF ToSet
  <2>5. i \in Nat \ {0} /\ i + 1 \in DOMAIN messages /\ messages[i + 1] = m
    BY <1>4, <2>4
  <2>6. out' = Queue(out, first \o messages)
    BY <1>3, <2>2 DEF Taken
  <2> HIDE DEF messages
  <2>7. out'.unacked = out.unacked \o (first \o messages) /\ out'.sent = out.sent
    BY <1>6, <2>6 DEF Queue
  <2> DEFINE j == Len(first) + (i + 1)
             u == first \o messages
  <2>8. u \in Seq(Message) /\ j \in DOMAIN u /\ u[j] = m /\ j \in Nat \ {0}
    BY <1>4, <2>5
  <2> HIDE DEF j, u
  <2>9. Len(out.unacked) + j \in DOMAIN (out.unacked \o u) /\ (out.unacked \o u)[Len(out.unacked) + j] = m
        /\ Len(out.unacked) + j > out.sent
    BY <1>6, <2>8
  <2>10. Ahead(out'.unacked, out'.sent, m)
    BY <2>7, <2>9 DEF Ahead, u
  <2> QED
    BY <2>10 DEF OnWay
<1> QED
  BY <1>9, <1>10

LEMMA DecisionAudits ==
  ASSUME TypeOK, AuditInv, \E z \in Zone, r \in Outcome : ClearFire(z, r) \/ \E due \in BOOLEAN : Confirm(z, r, due)
  PROVE  AuditInv'
<1>1. ASSUME NEW y \in Zone, NEW r \in Outcome, NEW due \in BOOLEAN, Confirm(y, r, due) PROVE AuditInv'
  <2> DEFINE first == IF due THEN <<Display(FireZones \cup {y})>> ELSE <<>>
  <2>1. first \in Seq(Message)
    <3>1. FireZones \cup {y} \in SUBSET Zone /\ <<>> \in Seq(Message)
      BY DEF FireZones
    <3> QED
      BY <3>1, SingleDisplay
  <2>2. Act(y, TRUE, r, first) /\ UNCHANGED <<inbox, audit, unrecorded>>
    BY <1>1 DEF Confirm, dispatch
  <2> HIDE DEF first
  <2> QED
    BY <2>1, <2>2, ActAudits
<1>2. ASSUME NEW y \in Zone, NEW r \in Outcome, ClearFire(y, r) PROVE AuditInv'
  <2>1. UNCHANGED <<inbox, audit, unrecorded>>
    BY <1>2 DEF ClearFire, dispatch
  <2>2. CASE alarm[y] = "FIRE"
    <3>1. Act(y, FALSE, r, <<>>)
      BY <1>2, <2>2, Zenon DEF ClearFire
    <3>2. <<>> \in Seq(Message)
      OBVIOUS
    <3> QED
      BY <2>1, <3>1, <3>2, ActAudits
  <2>3. CASE alarm[y] # "FIRE"
    <3>1. UNCHANGED <<fireEvents, out, lost>>
      BY <1>2, <2>3, Zenon DEF ClearFire
    <3> QED
      BY <2>1, <3>1, ClientAudits
  <2> QED
    BY <2>2, <2>3
<1> QED
  BY <1>1, <1>2

LEMMA AuditStep == TypeOK /\ AuditInv /\ [Next]_vars => AuditInv'
<1> SUFFICES ASSUME TypeOK, AuditInv, [Next]_vars PROVE AuditInv'
  OBVIOUS
<1>1. CASE BootRead \/ UNCHANGED vars
  <2>1. UNCHANGED <<fireEvents, inbox, audit, unrecorded, out, lost>>
    BY <1>1 DEF BootRead, vars, decision, dispatch, field, history
  <2> QED
    BY <2>1, ClientAudits
<1>2. CASE BootPublish \/ Refresh
  <2>1. FireZones \in SUBSET Zone /\ boot.bitmap \in SUBSET Zone
    BY DEF FireZones, TypeOK, DecisionTypes
  <2>2. \E b \in SUBSET Zone : out' = Queue(out, <<Display(b)>>) /\ <<Display(b)>> \in Seq(Message)
    BY <1>2, <2>1, SingleDisplay DEF BootPublish, Refresh
  <2>3. UNCHANGED <<fireEvents, inbox, audit, unrecorded, lost>>
    BY <1>2 DEF BootPublish, Refresh, decision, dispatch, history
  <2> QED
    BY <2>2, <2>3, ClientAudits
<1>3. CASE DecisionReconnect \/ DecisionAcked
  <2>1. UNCHANGED <<fireEvents, inbox, audit, unrecorded, lost>>
    BY <1>3 DEF DecisionReconnect, DecisionAcked, decision, dispatch, history
  <2> QED
    BY <1>3, <2>1, ClientAudits DEF DecisionReconnect, DecisionAcked
<1>4. CASE DecisionSend
  BY <1>4, SendAudits
<1>5. ASSUME NEW p \in BOOLEAN, NEW r \in BOOLEAN, on_fire_cmd(p, r) PROVE AuditInv'
  BY <1>5, CmdAudits
<1>6. CASE DecisionCrash \/ \E crash \in BOOLEAN : DispatchDown(crash)
  BY <1>6, DownAudits
<1>7. CASE \E z \in Zone, r \in Outcome : ClearFire(z, r) \/ \E due \in BOOLEAN : Confirm(z, r, due)
  BY <1>7, DecisionAudits
<1>8. CASE DispatchSend \/ DispatchAcked \/ DispatchUp
  <2>1. UNCHANGED <<fireEvents, inbox, audit, unrecorded, out>>
    BY <1>8 DEF DispatchSend, DispatchAcked, DispatchUp, decision
  <2>2. UNCHANGED lost \/ \E S : lost' = Missed(S)
    BY <1>8 DEF DispatchSend, DispatchAcked, DispatchUp, history
  <2> QED
    BY <2>1, <2>2, MissedGrows, ClientAudits
<1>9. ASSUME NEW z \in Zone,
             \/ NodeUp(z) \/ \E crash \in BOOLEAN : NodeDown(z, crash)
             \/ \E ok \in BOOLEAN : NodeReceive(z, ok)
             \/ \E c \in Actuator \cap Followed, on \in BOOLEAN : ManualCommand(z, c, on)
      PROVE  AuditInv'
  <2>1. UNCHANGED <<fireEvents, inbox, audit, unrecorded, out>>
    BY <1>9 DEF NodeUp, NodeDown, NodeReceive, ManualCommand, decision, dispatch
  <2>2. UNCHANGED lost \/ \E S : lost' = Missed(S)
    BY <1>9 DEF NodeUp, NodeDown, NodeReceive, ManualCommand, history
  <2> QED
    BY <2>1, <2>2, MissedGrows, ClientAudits
<1> QED
  BY <1>1, <1>2, <1>3, <1>4, <1>5, <1>6, <1>7, <1>8, <1>9 DEF Next

(* Whatever is sent twice, refused, crashes or reconnects: once no command *)
(* of a zone is on its way and none of its last transition was lost, each  *)
(* command of that transition has its fire_event_command row, or its       *)
(* insert failed (on_fire_cmd and db_write_command of rpib_dispatch).      *)
THEOREM AuditMissesNothing == Spec => []AuditIsComplete
<1>1. TypeOK /\ AuditInv => AuditIsComplete
  <2> SUFFICES ASSUME TypeOK, AuditInv, NEW e \in DOMAIN fireEvents, IsLast(e),
                      NothingFor(fireEvents[e].zone), ~ lost[fireEvents[e].zone], NEW m \in Scenario(e)
               PROVE  Tried(m)
    BY DEF AuditIsComplete, Tried
  <2>1. OnWay(m)
    BY DEF AuditInv, LastTried
  <2>2. IsCmd(m) /\ m.zone = fireEvents[e].zone
    BY ScenarioMessages, Kinds
  <2>3. m \notin ToSet(out.unacked) /\ m \notin ToSet(inbox)
    BY <2>2 DEF NothingFor, InFlight
  <2> QED
    BY <2>1, <2>3 DEF OnWay, Ahead, ToSet
<1>2. Init => AuditInv
  <2>1. Init => DOMAIN fireEvents = {}
    BY DEF Init
  <2> QED
    BY <2>1 DEF AuditInv
<1>3. TypeOK /\ AuditInv /\ [Next]_vars => AuditInv'
  BY AuditStep
<1> QED
  BY <1>1, <1>2, <1>3, ServiceTypes, PTL DEF Spec

==============================================================================
