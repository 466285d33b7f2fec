------------------------------ MODULE LedPanel ------------------------------
(***************************************************************************)
(* What the STM32 draws on the LED matrix.  Behind the Modbus task of      *)
(* ModbusSlave, two more FreeRTOS tasks:                                   *)
(*                                                                         *)
(*   - the UI task copies the registers every 100 ms and decides what is   *)
(*     on the screen;                                                      *)
(*   - the Render task, which has a higher priority and runs every         *)
(*     millisecond, draws when the signature of the screen has changed.    *)
(*                                                                         *)
(* Frames arrive as the line delivers them: for every block in the order   *)
(* of their publication, some of them more than once, some never           *)
(* (MatrixLink shows that they come like that).                            *)
(***************************************************************************)
EXTENDS ModbusSlave

CONSTANTS
  Screens,         \* what modbus_test may write to register 130
  MaxArrivals      \* bound: frames that arrive

ASSUME PanelAssumption == Screens \subseteq 0..3 /\ MaxArrivals \in Nat

VARIABLES
  sent,      \* the publication of every block that arrived last
  arrivals,  \* frames that arrived
  select,    \* SCREEN_SELECT: 0 rotates screens 1 and 2, 1..3 fixes one
  ui,        \* the UI task: where it is, what it read in this pass, its statics
  due,       \* SCREEN_PERIOD_MS have passed since the last change of screen
  g,         \* g_screen_idx, g_fire, g_fire_zone
  revised,   \* g_data_revision differs from the one in sig_last
  shown,     \* display_zone_sensor and display_intruder_track
  drawn      \* the rest of sig_last, and the data the screen was drawn from

panelVars == <<select, ui, due, g, revised, shown, drawn>>
lineVars == <<sent, arrivals>>
allVars == <<slaveVars, panelVars, lineVars>>

NothingRead ==
  [select |-> 0, fire |-> {},
   zone |-> [s \in ZoneSlot |-> Both(Blank(s))], track |-> Blank(SLOT_TRACK)]
NewUi == [at |-> "sleep", read |-> NothingRead, auto |-> 0, previous |-> 255]
NewG == [screen |-> 0, fire |-> FALSE, zone |-> 0]
NewShown == [zone |-> [s \in ZoneSlot |-> Both(Blank(s))], track |-> Blank(SLOT_TRACK)]
NewDrawn == [sig |-> NewG, data |-> NewShown]

InitPanel ==
  /\ SlaveInit
  /\ sent = [s \in Slot |-> Blank(s)] /\ arrivals = 0
  /\ select = 0 /\ due = FALSE /\ ui = NewUi
  /\ g = NewG /\ revised = TRUE /\ shown = NewShown /\ drawn = NewDrawn

----------------------------------------------------------------------------
(* The UI task.  It sleeps 100 ms between two passes, in which the Render  *)
(* task has run: a pass starts when the picture is up to date.             *)

UpToDate == ~revised /\ drawn.sig = g

\* A pass reads the screen selected and the fire bitmap, then the sensors a word
\* at a time.
UiReads ==
  /\ ui.at = "sleep" /\ UpToDate
  /\ ui' = [ui EXCEPT !.at = "sensors", !.read.select = select,
                      !.read.fire = reg[SLOT_FIRE][1].c,
                      !.read.zone = [s \in ZoneSlot |-> <<reg[s][1], Blank(s)>>]]
  /\ UNCHANGED <<select, due, g, revised, shown, drawn>>

\* The track is read in a critical section.  The screen is the one selected, or
\* rotates between the first two every SCREEN_PERIOD_MS.
UiChoosesScreen ==
  /\ ui.at = "sensors"
  /\ LET auto == IF ui.read.select = 0 /\ due THEN 1 - ui.auto ELSE ui.auto
     IN /\ ui' = [ui EXCEPT !.at = "screen", !.auto = auto,
                            !.read.zone = [s \in ZoneSlot |-> <<@[s][1], reg[s][2]>>],
                            !.read.track = reg[SLOT_TRACK][1]]
        /\ g' = [g EXCEPT !.screen = IF ui.read.select = 0 THEN auto ELSE ui.read.select - 1]
  /\ due' = FALSE
  /\ UNCHANGED <<select, revised, shown, drawn>>

\* Screen 2 uses the data of the screen 1 before it.
\* Slip: data are taken for the first screen only.
Captures_Once == ui.previous = 255

Captures ==
  \/ ui.previous = 255
  \/ g.screen = 0
  \/ g.screen = 1 /\ ui.previous # 0

Snapshot ==
  IF Captures THEN [zone |-> ui.read.zone, track |-> ui.read.track] ELSE shown

\* When the screen changes the data it is drawn from may be renewed.
UiCaptures ==
  /\ ui.at = "screen"
  /\ ui' = [ui EXCEPT !.at = IF g.screen # ui.previous THEN "revision" ELSE "fire"]
  /\ shown' = IF g.screen # ui.previous THEN Snapshot ELSE shown
  /\ UNCHANGED <<select, due, g, revised, drawn>>

\* The revision makes the Render task draw them.
\* Slip: it is counted only when the data were renewed for screen 1.
UiCounts_ScreenOne ==
  /\ ui.at = "revision"
  /\ ui' = [ui EXCEPT !.at = "fire", !.previous = g.screen]
  /\ revised' = (revised \/ g.screen = 0)
  /\ UNCHANGED <<select, due, g, shown, drawn>>

UiCounts ==
  /\ ui.at = "revision"
  /\ ui' = [ui EXCEPT !.at = "fire", !.previous = g.screen]
  /\ revised' = TRUE
  /\ UNCHANGED <<select, due, g, shown, drawn>>

\* The lowest burning zone is shown; without a fire the last one stays.  The
\* next pass reads everything again.
UiShowsFire ==
  /\ ui.at = "fire"
  /\ g' = [g EXCEPT !.fire = ui.read.fire # {},
                    !.zone = IF ui.read.fire = {} THEN @ ELSE Min(ui.read.fire)]
  /\ ui' = [ui EXCEPT !.at = "sleep", !.read = NothingRead]
  /\ UNCHANGED <<select, due, revised, shown, drawn>>

UiPass == UiReads \/ UiChoosesScreen \/ UiCaptures \/ UiCounts \/ UiShowsFire

\* SCREEN_PERIOD_MS is many passes long: the change before has been captured.
PeriodElapses ==
  /\ select = 0 /\ ~due /\ ui.previous = g.screen
  /\ due' = TRUE
  /\ UNCHANGED <<select, ui, g, revised, shown, drawn>>

(* The Render task draws when its signature of the screen has changed.     *)
Render ==
  /\ ~UpToDate
  /\ drawn' = [sig |-> g, data |-> shown] /\ revised' = FALSE
  /\ UNCHANGED <<select, ui, due, g, shown>>

----------------------------------------------------------------------------
(* Frames, time and the whole.                                             *)

\* The frame of a new publication, or of the last one again.
Arrives(s) ==
  /\ arrivals < MaxArrivals /\ arrivals' = arrivals + 1
  /\ \/ \E c \in Contents(s) : sent' = [sent EXCEPT ![s] = [n |-> @.n + 1, c |-> c]]
     \/ sent[s].n > 0 /\ UNCHANGED sent
  /\ QueueFrame([slot |-> s, value |-> sent'[s]])
  /\ UNCHANGED <<handling, reg, aged, panelVars>>

\* modbus_test selects a screen.
Selects ==
  /\ arrivals < MaxArrivals /\ arrivals' = arrivals + 1
  /\ \E v \in Screens : v # select /\ select' = v
  /\ UNCHANGED <<slaveVars, sent, ui, due, g, revised, shown, drawn>>

Modbus == (Answering \/ Silent) /\ UNCHANGED <<panelVars, lineVars>>
Ui == UiPass /\ UNCHANGED <<slaveVars, lineVars>>
Draw == Render /\ UNCHANGED <<slaveVars, lineVars>>
Rotate == PeriodElapses /\ UNCHANGED <<slaveVars, lineVars>>
TrackAges == TenSecondsPass /\ UNCHANGED <<panelVars, lineVars>>

NextPanel == Modbus \/ Ui \/ Draw \/ Rotate \/ TrackAges \/ Selects \/ \E s \in Slot : Arrives(s)

SpecPanel == InitPanel /\ [][NextPanel]_allVars

\* The tasks go on and time passes.
FairSpecPanel ==
  /\ SpecPanel
  /\ WF_allVars(Modbus) /\ WF_allVars(Ui) /\ WF_allVars(Draw) /\ WF_allVars(Rotate) /\ WF_allVars(TrackAges)

----------------------------------------------------------------------------
(* Properties.                                                             *)

\* Screen 3 shows the lowest burning zone, whatever the screen selected.
ShowsFire == drawn.sig.fire

\* The dots of a track are on screen 2 only.
ShowsPoint == ~ShowsFire /\ drawn.sig.screen = 1 /\ IsPoint(drawn.data.track)

TypeOKPanel ==
  LET Signature == [screen : 0..2, fire : BOOLEAN, zone : Bits]
      Data(d) == /\ \A s \in ZoneSlot : d.zone[s] \in Word(s) \X Word(s)
                 /\ d.track \in Word(SLOT_TRACK)
  IN /\ SlaveTypeOK
     /\ {due, revised} \subseteq BOOLEAN /\ select \in 0..3
     /\ ui.at \in {"sleep", "sensors", "screen", "revision", "fire"} /\ ui.read.fire \in SUBSET Bits /\ ui.read.select \in 0..3
     /\ g \in Signature /\ drawn.sig \in Signature
     /\ Data(shown) /\ Data(drawn.data) /\ Data(ui.read)

\* Whenever the Render task has nothing to draw, and the UI task is not between
\* the copy of the data and the count of their revision, the picture is made from
\* the snapshot the UI task took: a picture drawn in between, with the new screen
\* and either data, never stays because the signature did not change.
NoStalePicture ==
  ui.at # "revision" /\ UpToDate => drawn.data = shown

\* When no more frames come, and the screens rotate, the panel shows for good
\* whether there is a fire and which is the lowest zone that burns, and of every
\* zone the temperature and the humidity the registers hold, although both may
\* have been read while they were written.  A track that is not renewed leaves
\* the panel, whether it was cleared, its clearing was lost or its sender died.
PanelFollows ==
  LET fire == reg[SLOT_FIRE][1].c
  IN <>[](/\ ShowsFire = (fire # {})
          /\ fire # {} => drawn.sig.zone = Min(fire)
          /\ select = 0 => ~ShowsPoint /\ \A s \in ZoneSlot : drawn.data.zone[s] = reg[s])

\* A track that is not renewed leaves whatever screen is selected: "the UI clears both points in its next
\* 100 ms cycle" (modbus_slave.c:478).
PointLeaves == <>[]~ShowsPoint

=============================================================================
