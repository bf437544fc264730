---------------------------- MODULE ProceduresProofs ----------------------------
(***************************************************************************)
(* What the panel and the procedures promise, for every set of procedures  *)
(* and every queue size: types, the single-active slot, the radar, the     *)
(* spawn of a test, the stop latch of the tests, the announcement of a     *)
(* completed calibration and room in the event channels.                   *)
(***************************************************************************)
EXTENDS Procedures, TLAPS

--------------------------------------------------------------------------------
(* The invariant, in the parts that change together.                       *)

Stage == {"Running", "Complete", "Failed"}
ScreenTypes ==
    /\ screen \in Screen
    /\ view \in [parent : {"MainMenu"} \cup Submenu, finished : BOOLEAN]
    /\ press \in {"none", "Back", "Stop", "Cancel", "Save"} \cup Procedure
                 \cup Submenu \cup ScreenEntry
    /\ uiAt \in {"loop", "sending"}
    \* the main menu has no header button
    /\ press \in {"Back", "Stop", "Cancel", "Save"} => screen # "MainMenu"
ActivityType == activity \in [of : Procedure \cup {"Idle"}, stage : Stage]
FlagTypes == testStop \in BOOLEAN /\ calStop \in BOOLEAN /\ distanceRequest \in BOOLEAN
SlotTypes ==
    /\ testmodeActive \in BOOLEAN /\ roomScanWanted \in BOOLEAN
    /\ testCommands \in Seq(Tests) /\ Len(testCommands) <= CommandCap
    /\ testAt \in [Tests -> TestPlaces] /\ stage \in Nat
CalibrationTypes ==
    /\ driveInbox \in Seq(Inline) /\ Len(driveInbox) <= CommandCap
    /\ driveInterrupt \in BOOLEAN
    /\ driveAt \in Inline \cup {"idle", "intent", "lingering"}
    /\ distanceAt \in {"idle", "countdown", "leg", "settle"}
Completions == {"TestingCompleted", "CalibrationCompleted"}
QueueTypes ==
    /\ events \in Seq(Completions) /\ Len(events) <= EventCap
    /\ uiEvents \in Seq(Completions \cup {"DistanceDriveFinished"})
    /\ Len(uiEvents) <= EventCap

(* A test is in the queue or in its task, never in both; there is at most  *)
(* one, and none while the Room Scan holds the slot.                       *)
AllOff == \A p \in Tests : testAt[p] = "off"
SlotInv ==
    /\ Len(testCommands) <= 1
    /\ testCommands # <<>> => AllOff
    /\ \A p, q \in Tests : testAt[p] # "off" /\ testAt[q] # "off" => p = q
    /\ roomScanWanted => testCommands = <<>> /\ AllOff
    /\ testmodeActive <=> (roomScanWanted \/ testCommands # <<>> \/ ~AllOff)

MovingType == moving \in BOOLEAN

LEMMA TypeParts ==
    ASSUME ScreenTypes, ActivityType, FlagTypes, SlotTypes, CalibrationTypes, QueueTypes,
           MovingType
    PROVE  TypeOK
<1>1. /\ screen \in Screen
      /\ view \in [parent : {"MainMenu"} \cup Submenu, finished : BOOLEAN]
      /\ press \in {"none", "Back", "Stop", "Cancel", "Save"} \cup Procedure
                   \cup Submenu \cup ScreenEntry
      /\ uiAt \in {"loop", "sending"}
  BY DEF ScreenTypes
<1>2. activity \in [of : Procedure \cup {"Idle"}, stage : {"Running", "Complete", "Failed"}]
  BY DEF ActivityType, Stage
<1>3. testStop \in BOOLEAN /\ calStop \in BOOLEAN /\ distanceRequest \in BOOLEAN
  BY DEF FlagTypes
<1>4. /\ testmodeActive \in BOOLEAN /\ roomScanWanted \in BOOLEAN
      /\ testCommands \in Seq(Tests) /\ Len(testCommands) <= CommandCap
      /\ testAt \in [Tests -> TestPlaces] /\ stage \in Nat
  BY DEF SlotTypes
<1>5. /\ driveInbox \in Seq(Inline) /\ Len(driveInbox) <= CommandCap
      /\ moving \in BOOLEAN /\ driveInterrupt \in BOOLEAN
      /\ driveAt \in Inline \cup {"idle", "intent", "lingering"}
      /\ distanceAt \in {"idle", "countdown", "leg", "settle"}
  BY DEF CalibrationTypes, MovingType
<1>6. /\ events \in Seq({"TestingCompleted", "CalibrationCompleted"})
      /\ uiEvents \in Seq({"TestingCompleted", "CalibrationCompleted",
                           "DistanceDriveFinished"})
      /\ Len(events) <= EventCap /\ Len(uiEvents) <= EventCap
  <2>1. Completions \cup {"DistanceDriveFinished"}
        = {"TestingCompleted", "CalibrationCompleted", "DistanceDriveFinished"}
    BY DEF Completions
  <2> QED
    BY <2>1, Zenon DEF QueueTypes, Completions
<1> QED
  BY <1>1, <1>2, <1>3, <1>4, <1>5, <1>6, Zenon DEF TypeOK

--------------------------------------------------------------------------------
(* The menu.                                                               *)

NoRadar == Screen \ {"RoomScan"}

LEMMA ParentType ==
    \A p \in Procedure \cup {"RoomScan"} :
        Parent(p) \in {"MainMenu"} \cup Submenu
  BY DEF Procedure, Tests, Completing, Interactive, Calibrations, Inline, DriveModes,
         Parent, Submenu

LEMMA ViewTypes ==
    ASSUME NEW a \in [of : Procedure \cup {"Idle"}, stage : Stage]
    PROVE  StatusView(a) \in [parent : {"MainMenu"} \cup Submenu, finished : BOOLEAN]
  BY ParentType DEF StatusView, Stage

LEMMA ForProcedureType ==
    ASSUME NEW p \in Procedure
    PROVE  ForProcedure(p) \in [parent : {"MainMenu"} \cup Submenu, finished : BOOLEAN]
  BY ParentType DEF ForProcedure

LEMMA NewViewType == NewView \in [parent : {"MainMenu"} \cup Submenu, finished : BOOLEAN]
  BY DEF NewView

LEMMA ScreenNames ==
    /\ {"MainMenu"} \cup Submenu \subseteq NoRadar
    /\ {"Status", "DistanceEntry", "StraightEntry", "SystemInfo"} \subseteq NoRadar
    /\ NoRadar \subseteq Screen
    /\ "RoomScan" \in Screen
  BY DEF NoRadar, Screen, Submenu, ScreenEntry, ValueFlow

(* No header button leads to the radar.                                    *)
LEMMA ScreenParentType ==
    ASSUME ScreenTypes, screen # "MainMenu"
    PROVE  ScreenParent \in NoRadar
<1>1. view.parent \in {"MainMenu"} \cup Submenu
  BY DEF ScreenTypes
<1>2. Parent(screen) \in NoRadar \/ screen \in {"Status", "DistanceEntry", "StraightEntry"}
  BY DEF ScreenTypes, Screen, NoRadar, Submenu, ScreenEntry, ValueFlow, Parent,
         Calibrations, Inline, DriveModes, Tests, Completing, Interactive
<1>3. CASE screen = "Status"
  BY <1>1, <1>3, ScreenNames DEF ScreenParent
<1>4. CASE screen \in {"DistanceEntry", "StraightEntry"}
  BY <1>4 DEF ScreenParent, NoRadar, Screen, Submenu
<1>5. CASE screen \notin {"Status", "DistanceEntry", "StraightEntry"}
  <2>1. ScreenParent = Parent(screen)
    BY <1>5, Zenon DEF ScreenParent
  <2> QED
    BY <1>2, <1>5, <2>1
<1> QED
  BY <1>3, <1>4, <1>5

LEMMA FinishedLandingType ==
    ASSUME ActivityType
    PROVE  FinishedLanding \in NoRadar
  BY ParentType, ScreenNames DEF ActivityType, FinishedLanding

LEMMA HitTestType ==
    ASSUME ScreenTypes
    PROVE  HitTest \subseteq {"none", "Back", "Stop", "Cancel", "Save"} \cup Procedure
                             \cup Submenu \cup ScreenEntry
  BY OfferedAssumption DEF HitTest, HeaderAction, Items, ScreenEntry, Procedure,
     Calibrations

LEMMA ActivityChanges ==
    ASSUME ActivityType
    PROVE  /\ Idle \in [of : Procedure \cup {"Idle"}, stage : Stage]
           /\ \A p \in Procedure : Begin(p) \in [of : Procedure \cup {"Idle"}, stage : Stage]
           /\ \A s \in Stage : SetStage(s) \in [of : Procedure \cup {"Idle"}, stage : Stage]
  BY DEF ActivityType, Idle, Begin, SetStage, Stage

--------------------------------------------------------------------------------
(* What each group of actions does to the parts it does not leave alone.   *)

slotState == <<testmodeActive, roomScanWanted, testCommands, testAt, stage>>
calState == <<driveInbox, driveInterrupt, driveAt, distanceAt>>
ActivityRange == [of : Procedure \cup {"Idle"}, stage : Stage]

(* A status that needs no announcement.                                    *)
Quiet(a) == a.stage = "Complete" => a.of \notin Calibrations
Announced ==
    \E q \in {events, uiEvents} : \E i \in DOMAIN q : q[i] \in Completions
AnnouncedInv == Quiet(activity) \/ Announced

IInv ==
    /\ ScreenTypes /\ ActivityType /\ FlagTypes /\ SlotTypes
    /\ CalibrationTypes /\ QueueTypes
    /\ SlotInv /\ RadarHoldsSlot /\ AnnouncedInv

LEMMA SlotFrame ==
    ASSUME IInv, UNCHANGED slotState, screen' \in {screen} \cup NoRadar
    PROVE  SlotTypes' /\ SlotInv' /\ RadarHoldsSlot'
<1>1. SlotTypes'
  BY DEF IInv, SlotTypes, slotState
<1>2. SlotInv'
  BY DEF IInv, SlotInv, AllOff, slotState
<1>3. RadarHoldsSlot'
  BY DEF IInv, RadarHoldsSlot, slotState, NoRadar
<1> QED
  BY <1>1, <1>2, <1>3

LEMMA PanelFrame ==
    ASSUME IInv, UNCHANGED uiVars
    PROVE  ScreenTypes' /\ screen' = screen
  BY DEF IInv, ScreenTypes, uiVars

LEMMA CalibrationFrame ==
    ASSUME IInv, UNCHANGED calState
    PROVE  CalibrationTypes'
  BY DEF IInv, CalibrationTypes, calState

LEMMA QueueFrame ==
    ASSUME IInv, UNCHANGED <<events, uiEvents>>
    PROVE  QueueTypes'
  BY DEF IInv, QueueTypes

LEMMA QuietActivities ==
    ASSUME ActivityType
    PROVE  /\ Idle \in ActivityRange /\ Quiet(Idle)
           /\ \A p \in Procedure : Begin(p) \in ActivityRange /\ Quiet(Begin(p))
           /\ SetRunning \in ActivityRange /\ Quiet(SetRunning)
           /\ Failed \in ActivityRange /\ Quiet(Failed)
           /\ Completed \in ActivityRange
<1>1. Idle \in ActivityRange /\ Quiet(Idle)
  BY DEF ActivityRange, Idle, Quiet, Stage
<1>2. \A p \in Procedure : Begin(p) \in ActivityRange /\ Quiet(Begin(p))
  BY DEF ActivityRange, Begin, Quiet, Stage
<1>3. \A s \in Stage : SetStage(s) \in ActivityRange
  BY DEF ActivityType, ActivityRange, SetStage, Stage
<1>4. SetStage("Running") \in ActivityRange /\ Quiet(SetStage("Running"))
  <2>1. activity.of # "Idle" => SetStage("Running").stage = "Running"
    BY DEF ActivityType, SetStage
  <2>2. activity.of = "Idle" => Quiet(activity)
    BY DEF Quiet, Calibrations, Inline
  <2> QED
    BY <1>3, <2>1, <2>2 DEF Quiet, SetStage, Stage
<1>5. SetStage("Failed") \in ActivityRange /\ Quiet(SetStage("Failed"))
  <2>1. activity.of # "Idle" => SetStage("Failed").stage = "Failed"
    BY DEF ActivityType, SetStage
  <2>2. activity.of = "Idle" => Quiet(activity)
    BY DEF Quiet, Calibrations, Inline
  <2> QED
    BY <1>3, <2>1, <2>2 DEF Quiet, SetStage, Stage
<1>6. SetStage("Complete") \in ActivityRange
  BY <1>3 DEF Stage
<1> QED
  BY <1>1, <1>2, <1>4, <1>5, <1>6 DEF SetRunning, Failed, Completed

(* With the queues left alone, a new status needs no announcement unless   *)
(* it is the old one.                                                      *)
LEMMA AnnouncedFrame ==
    ASSUME IInv, UNCHANGED <<events, uiEvents>>,
           \/ activity' = activity
           \/ activity' \in {Idle, SetRunning, Failed} \cup {Begin(p) : p \in Procedure}
    PROVE  ActivityType' /\ AnnouncedInv'
<1>1. ActivityType' /\ (activity' = activity \/ Quiet(activity'))
  BY QuietActivities DEF IInv, ActivityType, ActivityRange
<1>2. Announced' <=> Announced
  BY DEF Announced
<1> QED
  BY <1>1, <1>2, Zenon DEF IInv, AnnouncedInv, Quiet

(* A completion that is raised announces itself.                           *)
LEMMA RaisingAnnounces ==
    ASSUME IInv, NEW e \in Completions, Len(events) < EventCap,
           events' = Append(events, e), uiEvents' = uiEvents,
           activity' \in {Completed, Failed}
    PROVE  ActivityType' /\ AnnouncedInv' /\ QueueTypes'
<1>1. ActivityType'
  BY QuietActivities DEF IInv, ActivityType, ActivityRange
<1>2. QueueTypes'
  BY CapAssumption DEF IInv, QueueTypes
<1>3. Announced'
  <2>1. Len(events)+1 \in DOMAIN events' /\ events'[Len(events)+1] = e
    BY DEF IInv, QueueTypes
  <2> QED
    BY <2>1 DEF Announced
<1> QED
  BY <1>1, <1>2, <1>3 DEF AnnouncedInv

--------------------------------------------------------------------------------
(* The panel.                                                              *)

LEMMA PressKeeps ==
    ASSUME IInv, (\E h \in HitTest : PenDown(h)) \/ PenUpElsewhere
    PROVE  IInv'
<1>1. /\ UNCHANGED <<screen, view, uiAt, activity, testStop, calStop, distanceRequest>>
      /\ UNCHANGED slotState /\ UNCHANGED calState /\ UNCHANGED <<events, uiEvents>>
  BY DEF PenDown, PenUpElsewhere, PressOnly, testVars, calVars, driveVars, slotState, calState
<1>2. press' \in HitTest \cup {"none"}
  BY DEF PenDown, PenUpElsewhere
<1>3. ScreenTypes'
  <2>1. screen = "MainMenu" => press' \notin {"Back", "Stop", "Cancel", "Save"}
    BY <1>2 DEF HitTest, HeaderAction, Items, Submenu, ValueFlow
  <2> QED
    BY <1>1, <1>2, <2>1, HitTestType DEF IInv, ScreenTypes
<1>4. FlagTypes'
  BY <1>1 DEF IInv, FlagTypes
<1>5. SlotTypes' /\ SlotInv' /\ RadarHoldsSlot'
  BY <1>1, SlotFrame
<1>6. CalibrationTypes' /\ QueueTypes'
  BY <1>1, CalibrationFrame, QueueFrame
<1>7. ActivityType' /\ AnnouncedInv'
  BY <1>1, AnnouncedFrame
<1> QED
  BY <1>3, <1>4, <1>5, <1>6, <1>7 DEF IInv

(* A gesture or a tick that leaves slot and queues alone.                  *)
LEMMA NavigationKeeps ==
    ASSUME IInv, ScreenTypes', FlagTypes', CalibrationTypes',
           screen' \in {screen} \cup NoRadar, UNCHANGED slotState,
           UNCHANGED <<events, uiEvents>>,
           activity' \in {activity, Idle}
    PROVE  IInv'
<1>1. SlotTypes' /\ SlotInv' /\ RadarHoldsSlot'
  BY SlotFrame
<1>2. QueueTypes'
  BY QueueFrame
<1>3. ActivityType' /\ AnnouncedInv'
  BY AnnouncedFrame
<1> QED
  BY <1>1, <1>2, <1>3 DEF IInv

LEMMA OpenMenuKeeps ==
    ASSUME IInv, NEW i \in Submenu \cup {"SystemInfo", "AttemptStraight"}, OpenMenu(i)
    PROVE  IInv'
<1>1. Destination(i) \in NoRadar
  BY DEF Destination, Submenu, ScreenEntry, NoRadar, Screen, ValueFlow
<1>2. ScreenTypes' /\ screen' \in NoRadar
  BY <1>1, ScreenNames DEF IInv, ScreenTypes, OpenMenu, Activate
<1>3. FlagTypes' /\ CalibrationTypes'
  BY DEF IInv, FlagTypes, CalibrationTypes, OpenMenu, calVars, driveVars
<1>4. UNCHANGED slotState /\ UNCHANGED <<events, uiEvents, activity>>
  BY DEF OpenMenu, testVars, slotState
<1> QED
  BY <1>2, <1>3, <1>4, NavigationKeeps

LEMMA RefuseTestKeeps ==
    ASSUME IInv, NEW p \in Tests, RefuseTest(p)
    PROVE  IInv'
<1>1. Parent(p) \in NoRadar
  BY ParentType, ScreenNames DEF Procedure
<1>2. ScreenTypes' /\ screen' \in NoRadar
  BY <1>1, ScreenNames DEF IInv, ScreenTypes, RefuseTest, Activate
<1>3. FlagTypes' /\ CalibrationTypes'
  BY DEF IInv, FlagTypes, CalibrationTypes, RefuseTest, calVars, driveVars
<1>4. UNCHANGED slotState /\ UNCHANGED <<events, uiEvents, activity>>
  BY DEF RefuseTest, testVars, slotState
<1> QED
  BY <1>2, <1>3, <1>4, NavigationKeeps

LEMMA StartInlineKeeps ==
    ASSUME IInv, NEW p \in Inline, StartInline(p)
    PROVE  IInv'
<1>1. ForProcedure(p) \in [parent : {"MainMenu"} \cup Submenu, finished : BOOLEAN]
  BY ForProcedureType DEF Procedure, Calibrations
<1>2. ScreenTypes' /\ screen' \in NoRadar
  BY <1>1, ScreenNames DEF IInv, ScreenTypes, StartInline, Activate
<1>3. FlagTypes'
  BY DEF IInv, FlagTypes, StartInline
<1>4. CalibrationTypes'
  BY CapAssumption DEF IInv, CalibrationTypes, StartInline
<1>5. UNCHANGED slotState /\ UNCHANGED <<events, uiEvents, activity>>
  BY DEF StartInline, testVars, slotState
<1> QED
  BY <1>2, <1>3, <1>4, <1>5, NavigationKeeps

LEMMA StartDistanceKeeps ==
    ASSUME IInv, StartDistance
    PROVE  IInv'
<1>1. ForProcedure("DistanceCalibration")
        \in [parent : {"MainMenu"} \cup Submenu, finished : BOOLEAN]
  BY ForProcedureType DEF Procedure, Calibrations
<1>2. ScreenTypes' /\ screen' \in NoRadar
  BY <1>1, ScreenNames DEF IInv, ScreenTypes, StartDistance
<1>3. FlagTypes' /\ CalibrationTypes'
  BY DEF IInv, FlagTypes, CalibrationTypes, StartDistance, driveVars
<1>4. UNCHANGED slotState /\ UNCHANGED <<events, uiEvents, activity>>
  BY DEF StartDistance, testVars, slotState
<1> QED
  BY <1>2, <1>3, <1>4, NavigationKeeps

LEMMA SendDistanceKeeps ==
    ASSUME IInv, SendDistance
    PROVE  IInv'
<1>1. ScreenTypes' /\ screen' = screen
  BY DEF IInv, ScreenTypes, SendDistance
<1>2. FlagTypes' /\ CalibrationTypes'
  BY DEF IInv, FlagTypes, CalibrationTypes, SendDistance, driveVars
<1>3. UNCHANGED slotState /\ UNCHANGED <<events, uiEvents, activity>>
  BY DEF SendDistance, testVars, slotState
<1> QED
  BY <1>1, <1>2, <1>3, NavigationKeeps

LEMMA TickKeeps ==
    ASSUME IInv, Tick
    PROVE  IInv'
<1>1. StatusView(activity) \in [parent : {"MainMenu"} \cup Submenu, finished : BOOLEAN]
  BY ViewTypes DEF IInv, ActivityType
<1>2. ScreenTypes' /\ screen' = screen
  BY <1>1 DEF IInv, ScreenTypes, Tick
<1>3. FlagTypes' /\ CalibrationTypes'
  BY DEF IInv, FlagTypes, CalibrationTypes, Tick, calVars, driveVars
<1>4. UNCHANGED slotState /\ UNCHANGED <<events, uiEvents, activity>>
  BY DEF Tick, testVars, slotState
<1> QED
  BY <1>2, <1>3, <1>4, NavigationKeeps

(* A header button was pressed, so there is a screen above.                *)
LEMMA LeaveValueKeeps ==
    ASSUME IInv, LeaveValue
    PROVE  IInv'
<1>1. ScreenTypes' /\ screen' \in NoRadar
  BY ScreenParentType, ScreenNames DEF IInv, ScreenTypes, LeaveValue, Activate
<1>2. FlagTypes' /\ CalibrationTypes'
  BY DEF IInv, FlagTypes, CalibrationTypes, LeaveValue, calVars, driveVars
<1>3. UNCHANGED slotState /\ UNCHANGED <<events, uiEvents>> /\ activity' \in {activity, Idle}
  BY DEF LeaveValue, testVars, slotState
<1> QED
  BY <1>1, <1>2, <1>3, NavigationKeeps

LEMMA StopRunningKeeps ==
    ASSUME IInv, StopRunning
    PROVE  IInv'
<1>1. ScreenTypes' /\ screen' \in NoRadar
  BY ScreenParentType, ScreenNames DEF IInv, ScreenTypes, StopRunning, Activate
<1>2. FlagTypes'
  BY DEF IInv, FlagTypes, StopRunning
<1>3. CalibrationTypes'
  BY CapAssumption DEF IInv, CalibrationTypes, StopRunning
<1>4. UNCHANGED slotState /\ UNCHANGED <<events, uiEvents>> /\ activity' = Idle
  BY DEF StopRunning, testVars, slotState
<1> QED
  BY <1>1, <1>2, <1>3, <1>4, NavigationKeeps

(* The gestures that claim or free the slot.                               *)
LEMMA EnterRoomScanKeeps ==
    ASSUME IInv, EnterRoomScan
    PROVE  IInv'
<1>1. Parent("RoomScan") \in NoRadar
  BY ParentType, ScreenNames
<1>2. ScreenTypes'
  BY <1>1, ScreenNames DEF IInv, ScreenTypes, EnterRoomScan, Activate
<1>3. FlagTypes' /\ CalibrationTypes'
  BY DEF IInv, FlagTypes, CalibrationTypes, EnterRoomScan, calVars, driveVars
<1>4. SlotTypes'
  BY DEF IInv, SlotTypes, EnterRoomScan
<1>5. SlotInv'
  BY DEF IInv, SlotInv, SlotTypes, AllOff, EnterRoomScan, SlotFree
<1>6. RadarHoldsSlot'
  BY <1>1 DEF IInv, RadarHoldsSlot, EnterRoomScan, SlotFree, NoRadar
<1>7. UNCHANGED <<events, uiEvents>> /\ activity' = activity
  BY DEF EnterRoomScan
<1>8. QueueTypes'
  BY <1>7, QueueFrame
<1>9. ActivityType' /\ AnnouncedInv'
  BY <1>7, AnnouncedFrame
<1> QED
  BY <1>2, <1>3, <1>4, <1>5, <1>6, <1>8, <1>9 DEF IInv

LEMMA GoBackKeeps ==
    ASSUME IInv, GoBack
    PROVE  IInv'
<1>1. ScreenTypes' /\ screen' \in NoRadar
  BY ScreenParentType, ScreenNames DEF IInv, ScreenTypes, GoBack, Activate
<1>2. FlagTypes' /\ CalibrationTypes'
  BY DEF IInv, FlagTypes, CalibrationTypes, GoBack, calVars, driveVars
<1>3. SlotTypes'
  BY DEF IInv, SlotTypes, GoBack
<1>4. SlotInv'
  <2>1. CASE screen = "RoomScan"
    BY <2>1 DEF IInv, SlotInv, SlotTypes, RadarHoldsSlot, AllOff, GoBack
  <2>2. CASE screen # "RoomScan"
    BY <2>2 DEF IInv, SlotInv, SlotTypes, AllOff, GoBack
  <2> QED
    BY <2>1, <2>2
<1>5. RadarHoldsSlot'
  BY <1>1 DEF RadarHoldsSlot, NoRadar
<1>6. UNCHANGED <<events, uiEvents>> /\ activity' \in {activity, Idle}
  BY DEF GoBack
<1>7. QueueTypes'
  BY <1>6, QueueFrame
<1>8. ActivityType' /\ AnnouncedInv'
  BY <1>6, AnnouncedFrame
<1> QED
  BY <1>1, <1>2, <1>3, <1>4, <1>5, <1>7, <1>8 DEF IInv

LEMMA StartTestKeeps ==
    ASSUME IInv, NEW p \in Tests, StartTest(p)
    PROVE  IInv'
<1>1. p \in Procedure
  BY DEF Procedure
<1>2. Begin(p) \in ActivityRange
  BY <1>1, QuietActivities DEF IInv
<1>3. StatusView(Begin(p)) \in [parent : {"MainMenu"} \cup Submenu, finished : BOOLEAN]
  BY <1>2, ViewTypes DEF ActivityRange
<1>4. ScreenTypes' /\ screen' \in NoRadar
  BY <1>3, ScreenNames DEF IInv, ScreenTypes, StartTest, Activate
<1>5. FlagTypes' /\ CalibrationTypes'
  BY DEF IInv, FlagTypes, CalibrationTypes, StartTest, calVars, driveVars
<1>6. testCommands = <<>> /\ AllOff /\ ~roomScanWanted
  BY DEF IInv, SlotInv, SlotTypes, StartTest, SlotFree
<1>7. SlotTypes'
  BY <1>6, CapAssumption DEF IInv, SlotTypes, StartTest
<1>8. SlotInv'
  BY <1>6 DEF IInv, SlotInv, AllOff, SlotTypes, StartTest
<1>9. RadarHoldsSlot'
  BY <1>4 DEF RadarHoldsSlot, NoRadar
<1>10. UNCHANGED <<events, uiEvents>> /\ activity' = Begin(p)
  BY DEF StartTest
<1>11. QueueTypes'
  BY <1>10, QueueFrame
<1>12. ActivityType' /\ AnnouncedInv'
  BY <1>1, <1>10, AnnouncedFrame
<1> QED
  BY <1>4, <1>5, <1>7, <1>8, <1>9, <1>11, <1>12 DEF IInv

--------------------------------------------------------------------------------
(* Events.                                                                 *)

LEMMA OrchestrateKeeps ==
    ASSUME IInv, Orchestrate
    PROVE  IInv'
<1>1. ScreenTypes' /\ screen' = screen
  BY PanelFrame DEF Orchestrate
<1>2. FlagTypes' /\ CalibrationTypes'
  BY DEF IInv, FlagTypes, CalibrationTypes, Orchestrate, calVars, driveVars
<1>3. UNCHANGED slotState
  BY DEF Orchestrate, testVars, slotState
<1>4. SlotTypes' /\ SlotInv' /\ RadarHoldsSlot'
  BY <1>1, <1>3, SlotFrame
<1> DEFINE e == Head(events)
<1>5. /\ e \in Completions /\ Tail(events) \in Seq(Completions)
      /\ Len(Tail(events)) <= EventCap
  BY CapAssumption DEF IInv, QueueTypes, Orchestrate
<1>6. /\ uiEvents' = Append(uiEvents, e) /\ Len(uiEvents) < EventCap
      /\ events' = Tail(events) /\ activity' = activity
  BY DEF Orchestrate
<1> HIDE DEF e
<1>7. QueueTypes'
  BY <1>5, <1>6, CapAssumption DEF IInv, QueueTypes
<1>8. ActivityType'
  BY <1>6 DEF IInv, ActivityType
<1>9. Announced'
  <2>1. Len(uiEvents)+1 \in DOMAIN uiEvents' /\ uiEvents'[Len(uiEvents)+1] = e
    BY <1>6 DEF IInv, QueueTypes
  <2> QED
    BY <1>5, <2>1 DEF Announced
<1> QED
  BY <1>1, <1>2, <1>4, <1>7, <1>8, <1>9 DEF IInv, AnnouncedInv

(* What is left of the UI's queue once its head is taken.                  *)
LEMMA TakeEventKeeps ==
    ASSUME IInv, NEW e, TakeEvent(e)
    PROVE  /\ FlagTypes' /\ CalibrationTypes' /\ QueueTypes' /\ UNCHANGED slotState
           /\ uiAt' = uiAt /\ press' = press /\ press = "none"
<1>1. FlagTypes' /\ CalibrationTypes'
  BY DEF IInv, FlagTypes, CalibrationTypes, TakeEvent, calVars, driveVars
<1>2. QueueTypes'
  BY CapAssumption DEF IInv, QueueTypes, TakeEvent
<1>3. UNCHANGED slotState
  BY DEF TakeEvent, testVars, slotState
<1> QED
  BY <1>1, <1>2, <1>3 DEF TakeEvent

LEMMA UiEventKeeps ==
    ASSUME IInv, HandleTestingCompleted \/ HoldOrLeaveCalibration \/ EnterDistanceEntry
    PROVE  IInv'
<1>1. PICK e : TakeEvent(e)
  BY DEF HandleTestingCompleted, HoldOrLeaveCalibration, EnterDistanceEntry
<1>2. /\ FlagTypes' /\ CalibrationTypes' /\ QueueTypes' /\ UNCHANGED slotState
      /\ uiAt' = uiAt /\ press' = press /\ press = "none"
  BY <1>1, TakeEventKeeps
<1>3. FinishedLanding \in NoRadar
  BY FinishedLandingType DEF IInv
<1>4. screen' \in {screen} \cup NoRadar
  BY <1>3, ScreenNames DEF HandleTestingCompleted, HoldOrLeaveCalibration, EnterDistanceEntry
<1>5. view' \in {view, NewView, StatusView(activity)}
  BY DEF HandleTestingCompleted, HoldOrLeaveCalibration, EnterDistanceEntry
<1>6. view' \in [parent : {"MainMenu"} \cup Submenu, finished : BOOLEAN]
  BY <1>5, ViewTypes, NewViewType DEF IInv, ScreenTypes, ActivityType
<1>7. ScreenTypes'
  BY <1>2, <1>4, <1>6, ScreenNames DEF IInv, ScreenTypes
<1>8. SlotTypes' /\ SlotInv' /\ RadarHoldsSlot'
  BY <1>2, <1>4, SlotFrame
<1>9. ActivityType'
  BY QuietActivities DEF IInv, ActivityType, ActivityRange,
     HandleTestingCompleted, HoldOrLeaveCalibration, EnterDistanceEntry
<1>10. AnnouncedInv'
  <2>1. CASE activity' = Idle
    BY <2>1, QuietActivities DEF IInv, AnnouncedInv
  <2>2. CASE HoldOrLeaveCalibration /\ activity' = activity
    BY <2>2, QuietActivities
       DEF IInv, AnnouncedInv, Quiet, HoldOrLeaveCalibration, Idle
  <2>3. CASE EnterDistanceEntry
    <3>1. activity' = activity
      BY <2>3 DEF EnterDistanceEntry
    <3>2. /\ uiEvents # <<>> /\ Head(uiEvents) = "DistanceDriveFinished"
          /\ uiEvents' = Tail(uiEvents) /\ events' = events
      BY <2>3 DEF EnterDistanceEntry, TakeEvent
    <3>3. Announced => Announced'
      <4> SUFFICES ASSUME Announced PROVE Announced'
        OBVIOUS
      <4>1. CASE \E j \in DOMAIN events : events[j] \in Completions
        BY <3>2, <4>1 DEF Announced
      <4>2. ASSUME NEW j \in DOMAIN uiEvents, uiEvents[j] \in Completions
            PROVE  Announced'
        <5>1. j \in 1 .. Len(uiEvents) /\ j # 1
          BY <3>2, <4>2 DEF IInv, QueueTypes, Completions
        <5>2. j - 1 \in DOMAIN Tail(uiEvents) /\ Tail(uiEvents)[j - 1] = uiEvents[j]
          BY <3>2, <5>1 DEF IInv, QueueTypes
        <5> QED
          BY <3>2, <4>2, <5>2 DEF Announced
      <4> QED
        BY <4>1, <4>2 DEF Announced
    <3> QED
      BY <3>1, <3>3 DEF IInv, AnnouncedInv, Quiet
  <2> QED
    BY <2>1, <2>2, <2>3 DEF HandleTestingCompleted, HoldOrLeaveCalibration
<1> QED
  BY <1>2, <1>7, <1>8, <1>9, <1>10 DEF IInv

--------------------------------------------------------------------------------
(* The test modes.                                                         *)

LEMMA SpawnTestKeeps ==
    ASSUME IInv, SpawnTest
    PROVE  IInv'
<1>1. ScreenTypes' /\ screen' = screen
  BY PanelFrame DEF SpawnTest
<1>2. FlagTypes' /\ CalibrationTypes'
  BY DEF IInv, FlagTypes, CalibrationTypes, SpawnTest, calVars, driveVars
<1>3. UNCHANGED <<events, uiEvents>> /\ activity' = activity
  BY DEF SpawnTest
<1>4. QueueTypes'
  BY <1>3, QueueFrame
<1>5. ActivityType' /\ AnnouncedInv'
  BY <1>3, AnnouncedFrame
<1> DEFINE p == Head(testCommands)
           place == IF p \in Completing THEN "countdown" ELSE "running"
<1>6. /\ p \in Tests /\ Tail(testCommands) = <<>> /\ Tail(testCommands) \in Seq(Tests)
      /\ Len(Tail(testCommands)) <= CommandCap /\ AllOff
  BY CapAssumption DEF IInv, SlotInv, SlotTypes, SpawnTest
<1>7. /\ place \in TestPlaces /\ place # "off"
      /\ testAt' = [testAt EXCEPT ![p] = place]
      /\ testCommands' = Tail(testCommands) /\ stage' = 0
      /\ UNCHANGED <<testmodeActive, roomScanWanted>>
      /\ testCommands # <<>>
  BY DEF SpawnTest, TestPlaces
<1> HIDE DEF p, place
<1>8. SlotTypes'
  BY <1>6, <1>7 DEF IInv, SlotTypes
<1>9. SlotInv'
  BY <1>6, <1>7 DEF IInv, SlotInv, SlotTypes, AllOff
<1>10. RadarHoldsSlot'
  BY <1>1, <1>7 DEF IInv, RadarHoldsSlot
<1> QED
  BY <1>1, <1>2, <1>4, <1>5, <1>8, <1>9, <1>10 DEF IInv

(* A task that runs: it stays, moving on, or frees the slot it holds.      *)
LEMMA RunningTestKeepsSlot ==
    ASSUME IInv, NEW p \in Tests, testAt[p] # "off",
           UNCHANGED <<testCommands, roomScanWanted>>, screen' = screen,
           stage' \in {stage, stage + 1},
           \/ Release(p)
           \/ testmodeActive' = testmodeActive /\ testAt' = testAt
           \/ /\ testmodeActive' = testmodeActive
              /\ \E place \in {"leg", "settle"} : testAt' = [testAt EXCEPT ![p] = place]
    PROVE  SlotTypes' /\ SlotInv' /\ RadarHoldsSlot'
<1>1. SlotTypes'
  <2>1. testAt' \in [Tests -> TestPlaces]
    BY DEF IInv, SlotTypes, TestPlaces, Release
  <2>2. testmodeActive' \in BOOLEAN
    BY Zenon DEF IInv, SlotTypes, Release
  <2>3. roomScanWanted' \in BOOLEAN
    BY Zenon DEF IInv, SlotTypes
  <2>4. stage' \in Nat
    BY DEF IInv, SlotTypes
  <2> QED
    BY <2>1, <2>2, <2>3, <2>4 DEF IInv, SlotTypes
<1>2. testCommands = <<>> /\ ~roomScanWanted /\ testmodeActive
  BY DEF IInv, SlotInv, SlotTypes, AllOff
<1>3. \A q \in Tests : q # p => testAt[q] = "off" /\ testAt'[q] = "off"
  BY DEF IInv, SlotInv, SlotTypes, Release
<1>4. CASE Release(p)
  <2>1. AllOff'
    BY <1>3, <1>4 DEF IInv, SlotTypes, AllOff, Release
  <2> QED
    BY <1>1, <1>2, <1>4, <2>1 DEF IInv, SlotInv, AllOff, Release, RadarHoldsSlot
<1>5. CASE testmodeActive' = testmodeActive /\ testAt'[p] # "off"
  <2>1. ~AllOff'
    BY <1>5 DEF AllOff
  <2> QED
    BY <1>1, <1>2, <1>3, <1>5, <2>1 DEF IInv, SlotInv, RadarHoldsSlot
<1>6. testAt'[p] # "off" \/ Release(p)
  BY DEF IInv, SlotTypes
<1> QED
  BY <1>4, <1>5, <1>6

(* What the steps of a test have in common.                                *)
LEMMA TestFrame ==
    ASSUME IInv, TestOnly
    PROVE  /\ ScreenTypes' /\ screen' = screen /\ FlagTypes' /\ CalibrationTypes'
           /\ UNCHANGED <<testCommands, roomScanWanted, uiEvents>>
<1>1. ScreenTypes' /\ screen' = screen
  BY PanelFrame DEF TestOnly
<1>2. FlagTypes' /\ CalibrationTypes'
  BY DEF IInv, FlagTypes, CalibrationTypes, TestOnly, calVars, driveVars
<1> QED
  BY <1>1, <1>2 DEF TestOnly

(* The ways a running test goes on, and their effects.                     *)
LEMMA QuietTestStep ==
    ASSUME IInv, TestOnly, NEW p \in Tests, testAt[p] # "off",
           StageStops(p) \/ StageDrives(p) \/ StageRefused(p) \/ Settles(p)
    PROVE  IInv'
<1>1. /\ ScreenTypes' /\ screen' = screen /\ FlagTypes' /\ CalibrationTypes'
      /\ UNCHANGED <<testCommands, roomScanWanted, uiEvents>>
  BY TestFrame
<1>2. UNCHANGED events /\ activity' \in {activity, SetRunning, Failed}
      /\ stage' \in {stage, stage + 1}
  BY DEF StageStops, StageDrives, StageRefused, Settles
<1>3. \/ Release(p)
      \/ /\ testmodeActive' = testmodeActive
         /\ \E place \in {"leg", "settle"} : testAt' = [testAt EXCEPT ![p] = place]
  BY DEF StageStops, StageDrives, StageRefused, Settles
<1>4. SlotTypes' /\ SlotInv' /\ RadarHoldsSlot'
  BY <1>1, <1>2, <1>3, RunningTestKeepsSlot
<1>5. QueueTypes'
  BY <1>1, <1>2, QueueFrame
<1>6. ActivityType' /\ AnnouncedInv'
  BY <1>1, <1>2, AnnouncedFrame
<1> QED
  BY <1>1, <1>4, <1>5, <1>6 DEF IInv

LEMMA CompletingTestStep ==
    ASSUME IInv, TestOnly, NEW p \in Tests, testAt[p] # "off", Complete(p)
    PROVE  IInv'
<1>1. /\ ScreenTypes' /\ screen' = screen /\ FlagTypes' /\ CalibrationTypes'
      /\ UNCHANGED <<testCommands, roomScanWanted, uiEvents>>
  BY TestFrame
<1>2. SlotTypes' /\ SlotInv' /\ RadarHoldsSlot'
  BY <1>1, RunningTestKeepsSlot DEF Complete
<1>3. "TestingCompleted" \in Completions
  BY DEF Completions
<1>4. ActivityType' /\ AnnouncedInv' /\ QueueTypes'
  BY <1>1, <1>3, RaisingAnnounces DEF Complete
<1> QED
  BY <1>1, <1>2, <1>4 DEF IInv

LEMMA TestStepKeeps ==
    ASSUME IInv,
           \/ \E p \in Completing : CountdownEnds(p) \/ LegEnds(p) \/ SettleEnds(p)
           \/ \E p \in Interactive : InteractivePhase(p) \/ InteractiveEnds(p)
    PROVE  IInv'
<1>1. ASSUME NEW p \in Completing, CountdownEnds(p) \/ LegEnds(p) \/ SettleEnds(p)
      PROVE  IInv'
  <2>1. p \in Tests /\ testAt[p] # "off" /\ TestOnly
    BY <1>1 DEF Tests, CountdownEnds, LegEnds, SettleEnds
  <2>2. StageStops(p) \/ StageDrives(p) \/ StageRefused(p) \/ Settles(p) \/ Complete(p)
    <3>1. CASE CountdownEnds(p)
      BY <3>1, Zenon DEF CountdownEnds
    <3>2. CASE SettleEnds(p)
      BY <3>2, Zenon DEF SettleEnds, NextStage
    <3>3. CASE LegEnds(p)
      <4>1. CASE p = "Turns" /\ stage < StageCount[p]
        <5>1. NextStage(p)
          BY <3>3, <4>1, Zenon DEF LegEnds
        <5> QED
          BY <5>1, Zenon DEF NextStage
      <4>2. CASE p = "ArcDrive"
        BY <3>3, <4>2, Zenon DEF LegEnds
      <4>3. CASE ~(p = "Turns" /\ stage < StageCount[p]) /\ p # "ArcDrive"
        BY <3>3, <4>3, Zenon DEF LegEnds
      <4> QED
        BY <4>1, <4>2, <4>3, Zenon
    <3> QED
      BY <1>1, <3>1, <3>2, <3>3, Zenon
  <2> QED
    BY <2>1, <2>2, QuietTestStep, CompletingTestStep
<1>2. ASSUME NEW p \in Interactive, InteractivePhase(p)
      PROVE  IInv'
  <2>1. p \in Tests /\ testAt[p] # "off" /\ TestOnly
    BY <1>2 DEF Tests, InteractivePhase
  <2>2. /\ ScreenTypes' /\ screen' = screen /\ FlagTypes' /\ CalibrationTypes'
        /\ UNCHANGED <<testCommands, roomScanWanted, uiEvents>>
    BY <2>1, TestFrame
  <2>3. /\ UNCHANGED <<testmodeActive, testAt, stage, events>> /\ activity' = SetRunning
    BY <1>2 DEF InteractivePhase
  <2>4. SlotTypes' /\ SlotInv' /\ RadarHoldsSlot'
    BY <2>2, <2>3, SlotFrame DEF slotState
  <2>5. QueueTypes'
    BY <2>2, <2>3, QueueFrame
  <2>6. ActivityType' /\ AnnouncedInv'
    BY <2>2, <2>3, AnnouncedFrame
  <2> QED
    BY <2>2, <2>4, <2>5, <2>6 DEF IInv
<1>3. ASSUME NEW p \in Interactive, InteractiveEnds(p)
      PROVE  IInv'
  <2>1. p \in Tests /\ testAt[p] # "off" /\ TestOnly
    BY <1>3 DEF Tests, InteractiveEnds
  <2> QED
    BY <1>3, <2>1, QuietTestStep DEF InteractiveEnds
<1> QED
  BY <1>1, <1>2, <1>3

--------------------------------------------------------------------------------
(* The calibrations.                                                       *)

LEMMA CalibrationStepFrame ==
    ASSUME IInv, CalibrationOnly
    PROVE  ScreenTypes' /\ SlotTypes' /\ SlotInv' /\ RadarHoldsSlot' /\ testStop' \in BOOLEAN
<1>1. ScreenTypes' /\ screen' = screen
  BY PanelFrame DEF CalibrationOnly
<1>2. UNCHANGED slotState
  BY DEF CalibrationOnly, testVars, slotState
<1>3. testStop' \in BOOLEAN
  BY DEF IInv, FlagTypes, CalibrationOnly
<1> QED
  BY <1>1, <1>2, <1>3, SlotFrame

LEMMA RunInlineKeeps ==
    ASSUME IInv, RunInline
    PROVE  IInv'
<1>1. ScreenTypes' /\ SlotTypes' /\ SlotInv' /\ RadarHoldsSlot' /\ testStop' \in BOOLEAN
  BY CalibrationStepFrame DEF RunInline
<1>2. CalibrationTypes' /\ driveAt' \in Inline
  BY CapAssumption DEF IInv, CalibrationTypes, RunInline
<1>3. driveAt' \in Procedure
  BY <1>2 DEF Procedure, Calibrations
<1>4. FlagTypes'
  BY <1>1 DEF IInv, FlagTypes, RunInline
<1>5. UNCHANGED <<events, uiEvents>> /\ activity' = Begin(driveAt')
  BY DEF RunInline
<1>6. QueueTypes'
  BY <1>5, QueueFrame
<1>7. ActivityType' /\ AnnouncedInv'
  BY <1>3, <1>5, AnnouncedFrame
<1> QED
  BY <1>1, <1>2, <1>4, <1>6, <1>7 DEF IInv

LEMMA DriveTaskKeeps ==
    ASSUME IInv, TakeMovement \/ IntentEnds \/ HandleInterrupt \/ Linger
    PROVE  IInv'
<1>1. DriveOnly
  BY DEF TakeMovement, IntentEnds, HandleInterrupt, Linger
<1>2. ScreenTypes' /\ SlotTypes' /\ SlotInv' /\ RadarHoldsSlot' /\ testStop' \in BOOLEAN
  BY <1>1, CalibrationStepFrame DEF DriveOnly
<1>3. CalibrationTypes'
  <2>1. distanceAt' = distanceAt /\ driveAt' \in {"idle", "intent"}
    BY <1>1 DEF DriveOnly, TakeMovement, IntentEnds, HandleInterrupt, Linger
  <2>2. CASE TakeMovement \/ IntentEnds \/ Linger
    <3>1. UNCHANGED <<driveInbox, driveInterrupt>>
      BY <2>2 DEF TakeMovement, IntentEnds, Linger
    <3> QED
      BY <2>1, <3>1 DEF IInv, CalibrationTypes
  <2>3. CASE HandleInterrupt
    <3>1. driveInbox' = <<>> /\ driveInterrupt' \in BOOLEAN
      BY <2>3 DEF HandleInterrupt
    <3> QED
      BY <2>1, <3>1, CapAssumption DEF IInv, CalibrationTypes
  <2> QED
    BY <2>2, <2>3
<1>4. FlagTypes'
  BY <1>1, <1>2 DEF IInv, FlagTypes, DriveOnly
<1>5. UNCHANGED <<events, uiEvents>> /\ activity' = activity
  BY <1>1 DEF DriveOnly
<1>6. QueueTypes' /\ ActivityType' /\ AnnouncedInv'
  BY <1>5, QueueFrame, AnnouncedFrame
<1> QED
  BY <1>2, <1>3, <1>4, <1>6 DEF IInv

LEMMA InlineKeeps ==
    ASSUME IInv, InlinePhase \/ InlineStops
    PROVE  IInv'
<1>1. ScreenTypes' /\ SlotTypes' /\ SlotInv' /\ RadarHoldsSlot' /\ testStop' \in BOOLEAN
  BY CalibrationStepFrame DEF InlinePhase, InlineStops, EndsOnly
<1>2. CalibrationTypes'
  BY DEF IInv, CalibrationTypes, InlinePhase, InlineStops, EndsOnly, calVars, driveVars
<1>3. FlagTypes'
  BY <1>1 DEF IInv, FlagTypes, InlinePhase, InlineStops, EndsOnly, calVars, driveVars
<1>4. UNCHANGED <<events, uiEvents>> /\ activity' \in {activity, SetRunning, Idle}
  BY DEF InlinePhase, InlineStops, EndsOnly
<1>5. QueueTypes'
  BY <1>4, QueueFrame
<1>6. ActivityType' /\ AnnouncedInv'
  BY <1>4, AnnouncedFrame
<1> QED
  BY <1>1, <1>2, <1>3, <1>5, <1>6 DEF IInv

LEMMA InlineFinishesKeeps ==
    ASSUME IInv, NEW o, NEW next \in {"idle", "lingering"}, InlineFinishes(o, next),
           activity' \in {Completed, Failed}
    PROVE  IInv'
<1>1. ScreenTypes' /\ SlotTypes' /\ SlotInv' /\ RadarHoldsSlot' /\ testStop' \in BOOLEAN
  BY CalibrationStepFrame DEF InlineFinishes, EndsOnly
<1>2. CalibrationTypes'
  BY DEF IInv, CalibrationTypes, InlineFinishes, EndsOnly
<1>3. FlagTypes'
  BY <1>1 DEF IInv, FlagTypes, InlineFinishes, EndsOnly
<1>4. "CalibrationCompleted" \in Completions
  BY DEF Completions
<1>5. ActivityType' /\ AnnouncedInv' /\ QueueTypes'
  BY <1>4, RaisingAnnounces DEF InlineFinishes, EndsOnly
<1> QED
  BY <1>1, <1>2, <1>3, <1>5 DEF IInv

LEMMA DistanceKeeps ==
    ASSUME IInv, DistanceStep
    PROVE  IInv'
<1>1. DistanceOnly \/ TakeDistanceRequest
  BY DEF DistanceStep, DistanceCountdown, DistanceLegEnds, DistanceSettles
<1>2. CalibrationOnly /\ UNCHANGED <<driveInbox, driveInterrupt, driveAt, events>>
  BY <1>1 DEF DistanceOnly, TakeDistanceRequest
<1>3. ScreenTypes' /\ SlotTypes' /\ SlotInv' /\ RadarHoldsSlot' /\ testStop' \in BOOLEAN
  BY <1>2, CalibrationStepFrame
<1>4. CASE TakeDistanceRequest
  <2>1. CalibrationTypes' /\ FlagTypes'
    BY <1>2, <1>3, <1>4 DEF IInv, CalibrationTypes, FlagTypes, TakeDistanceRequest
  <2>2. UNCHANGED <<events, uiEvents>> /\ activity' = Begin("DistanceCalibration")
    BY <1>2, <1>4 DEF TakeDistanceRequest
  <2>3. "DistanceCalibration" \in Procedure
    BY DEF Procedure, Calibrations
  <2>4. QueueTypes' /\ ActivityType' /\ AnnouncedInv'
    BY <2>2, <2>3, QueueFrame, AnnouncedFrame
  <2> QED
    BY <1>3, <2>1, <2>4 DEF IInv
<1>5. CASE DistanceCountdown \/ DistanceLegEnds \/ DistanceSettles
  <2>1. \/ DistanceStopped \/ DistanceFailed \/ DistanceDrove
        \/ \E place \in {"leg", "settle"} : DistanceAdvances(place)
    BY <1>5 DEF DistanceCountdown, DistanceLegEnds, DistanceSettles
  <2>2. CalibrationTypes' /\ FlagTypes'
    BY <1>2, <1>3, <2>1 DEF IInv, CalibrationTypes, FlagTypes, DistanceStopped,
       DistanceFailed, DistanceDrove, DistanceAdvances
  <2>3. activity' \in {Idle, Failed, SetRunning}
    BY <2>1 DEF DistanceStopped, DistanceFailed, DistanceDrove, DistanceAdvances
  <2>4. ActivityType' /\ Quiet(activity')
    BY <2>3, QuietActivities DEF IInv, ActivityType, ActivityRange
  <2>5. QueueTypes'
    <3>1. \/ uiEvents' = uiEvents
          \/ Len(uiEvents) < EventCap /\ uiEvents' = Append(uiEvents, "DistanceDriveFinished")
      BY <2>1 DEF DistanceStopped, DistanceFailed, DistanceDrove, DistanceAdvances
    <3> QED
      BY <1>2, <3>1, CapAssumption DEF IInv, QueueTypes
  <2>6. AnnouncedInv'
    BY <2>4 DEF AnnouncedInv, Quiet
  <2> QED
    BY <1>3, <2>2, <2>4, <2>5, <2>6 DEF IInv
<1> QED
  BY <1>4, <1>5 DEF DistanceStep

--------------------------------------------------------------------------------
(* The theorems.                                                           *)

LEMMA InitKeeps ==
    ASSUME Init
    PROVE  IInv
<1>1. ScreenTypes
  BY NewViewType DEF Init, ScreenTypes, Screen
<1>2. ActivityType /\ FlagTypes
  BY DEF Init, ActivityType, FlagTypes, Idle, Stage
<1>3. SlotTypes
  <2>1. testmodeActive \in BOOLEAN /\ roomScanWanted \in BOOLEAN
    BY DEF Init
  <2>2. testCommands \in Seq(Tests) /\ Len(testCommands) <= CommandCap
    BY CapAssumption DEF Init
  <2>3. testAt \in [Tests -> TestPlaces] /\ stage \in Nat
    BY DEF Init, TestPlaces
  <2> QED
    BY <2>1, <2>2, <2>3 DEF SlotTypes
<1>4. CalibrationTypes /\ QueueTypes
  <2>1. driveInbox = <<>> /\ driveAt = "idle" /\ distanceAt = "idle"
        /\ driveInterrupt \in BOOLEAN
    BY DEF Init
  <2>2. CalibrationTypes
    BY <2>1, CapAssumption DEF CalibrationTypes
  <2>3. QueueTypes
    BY CapAssumption DEF Init, QueueTypes
  <2> QED
    BY <2>2, <2>3
<1>5. SlotInv /\ RadarHoldsSlot
  BY DEF Init, SlotInv, AllOff, RadarHoldsSlot
<1>6. AnnouncedInv
  BY DEF Init, AnnouncedInv, Quiet, Idle
<1> QED
  BY <1>1, <1>2, <1>3, <1>4, <1>5, <1>6 DEF IInv

LEMMA StepKeeps ==
    ASSUME IInv, [Next]_vars
    PROVE  IInv'
<1>1. CASE Gesture
  <2>1. CASE PenUpElsewhere
    BY <2>1, PressKeeps
  <2>2. CASE \E i \in Submenu \cup {"SystemInfo", "AttemptStraight"} : OpenMenu(i)
    BY <2>2, OpenMenuKeeps
  <2>3. CASE \E p \in Tests : StartTest(p) \/ RefuseTest(p)
    BY <2>3, StartTestKeeps, RefuseTestKeeps
  <2>4. CASE \E p \in Inline : StartInline(p)
    BY <2>4, StartInlineKeeps
  <2>5. CASE EnterRoomScan \/ StartDistance \/ GoBack \/ LeaveValue \/ StopRunning
    BY <2>5, EnterRoomScanKeeps, StartDistanceKeeps, GoBackKeeps, LeaveValueKeeps,
       StopRunningKeeps
  <2> QED
    BY <1>1, <2>1, <2>2, <2>3, <2>4, <2>5, Zenon DEF Gesture
<1>2. CASE (\E h \in HitTest : PenDown(h)) \/ Tick \/ UiEvent \/ Orchestrate \/ SpawnTest
  <2>1. CASE \E h \in HitTest : PenDown(h)
    BY <2>1, PressKeeps
  <2>2. CASE Tick \/ Orchestrate \/ SpawnTest \/ SendDistance
    BY <2>2, TickKeeps, OrchestrateKeeps, SpawnTestKeeps, SendDistanceKeeps
  <2>3. CASE HandleTestingCompleted \/ HoldOrLeaveCalibration \/ EnterDistanceEntry
    BY <2>3, UiEventKeeps
  <2> QED
    BY <1>2, <2>1, <2>2, <2>3, Zenon DEF UiEvent
<1>3. CASE \/ \E p \in Completing : CountdownEnds(p) \/ LegEnds(p) \/ SettleEnds(p)
           \/ \E p \in Interactive : InteractivePhase(p) \/ InteractiveEnds(p)
  BY <1>3, TestStepKeeps, Zenon
<1>4. CASE InlineCompletes
  <2>1. \E next \in {"idle", "lingering"} : InlineFinishes(Completed, next)
    BY <1>4 DEF InlineCompletes
  <2>2. activity' = Completed
    BY <2>1 DEF InlineFinishes
  <2> QED
    BY <2>1, <2>2, InlineFinishesKeeps
<1>5. CASE InlineFails
  <2>1. InlineFinishes(Failed, "idle") /\ activity' = Failed
    BY <1>5 DEF InlineFails, InlineFinishes
  <2> QED
    BY <2>1, InlineFinishesKeeps
<1>6. CASE \/ RunInline \/ InlinePhase \/ InlineStops \/ DistanceStep
           \/ TakeMovement \/ IntentEnds \/ HandleInterrupt \/ Linger
  BY <1>6, RunInlineKeeps, InlineKeeps, DriveTaskKeeps, DistanceKeeps, Zenon
<1>7. CASE UNCHANGED vars
  <2>1. /\ UNCHANGED <<screen, view, press, uiAt>> /\ UNCHANGED slotState
        /\ UNCHANGED calState /\ UNCHANGED <<events, uiEvents, activity>>
        /\ UNCHANGED <<testStop, calStop, distanceRequest>>
    BY <1>7 DEF vars, uiVars, testVars, calVars, driveVars, slotState, calState
  <2>2. ScreenTypes' /\ FlagTypes' /\ CalibrationTypes'
    BY <2>1, CalibrationFrame DEF IInv, ScreenTypes, FlagTypes
  <2> QED
    BY <2>1, <2>2, NavigationKeeps
<1>8. Next \/ UNCHANGED vars
  OBVIOUS
<1> QED
  BY <1>1, <1>2, <1>3, <1>4, <1>5, <1>6, <1>7, <1>8, Zenon DEF Next

LEMMA InvariantHolds == Spec => []IInv
<1>1. Init => IInv
  BY InitKeeps
<1>2. IInv /\ [Next]_vars => IInv'
  BY StepKeeps
<1> QED
  BY <1>1, <1>2, PTL DEF Spec

LEMMA MovingStays ==
    ASSUME MovingType, [Next]_vars
    PROVE  MovingType'
<1>1. CASE \/ UNCHANGED vars \/ (\E h \in HitTest : PenDown(h)) \/ Gesture \/ Tick
           \/ UiEvent \/ Orchestrate \/ SpawnTest
  <2>1. UNCHANGED moving
    BY <1>1 DEF vars, calVars, driveVars, PenDown, PressOnly, Gesture, PenUpElsewhere,
       OpenMenu, EnterRoomScan, StartTest, RefuseTest, StartInline, StartDistance, GoBack,
       LeaveValue, StopRunning, Tick, UiEvent, HandleTestingCompleted,
       HoldOrLeaveCalibration, EnterDistanceEntry, SendDistance, TakeEvent, Orchestrate,
       SpawnTest
  <2> QED
    BY <2>1 DEF MovingType
<1>2. CASE \/ \E p \in Completing : CountdownEnds(p) \/ LegEnds(p) \/ SettleEnds(p)
           \/ \E p \in Interactive : InteractivePhase(p) \/ InteractiveEnds(p)
  <2>1. UNCHANGED moving \/ \E p \in Completing : SendsMovement(p)
    BY <1>2, Zenon DEF CountdownEnds, LegEnds, SettleEnds, InteractivePhase, InteractiveEnds
  <2> QED
    BY <2>1, Zenon DEF SendsMovement, MovingType
<1>3. CASE TakeMovement
  <2>1. moving' \in {FALSE, Driving}
    BY <1>3, Zenon DEF TakeMovement
  <2> QED
    BY <2>1, Zenon DEF Driving, MovingType
<1>4. CASE IntentEnds \/ HandleInterrupt \/ RunInline \/ InlinePhase \/ InlineStops
           \/ InlineCompletes \/ InlineFails \/ Linger
  BY <1>4 DEF IntentEnds, HandleInterrupt, RunInline, InlinePhase, InlineStops,
     InlineCompletes, InlineFails, InlineFinishes, Linger, EndsOnly, calVars, driveVars,
     MovingType
<1>5. CASE DistanceStep
  BY <1>5 DEF DistanceStep, TakeDistanceRequest, DistanceCountdown, DistanceLegEnds,
     DistanceSettles, DistanceStopped, DistanceFailed, DistanceDrove, DistanceAdvances,
     MovingType
<1>6. Next \/ UNCHANGED vars
  OBVIOUS
<1> QED
  BY <1>1, <1>2, <1>3, <1>4, <1>5, <1>6, Zenon DEF Next

(* Screens, statuses, slots and queues keep their types, whatever is       *)
(* tapped and completes in whatever order (ui/mod.rs, procedure/mod.rs).   *)
THEOREM PanelTypeCorrect == Spec => []TypeOK
<1>1. Init => MovingType
  BY DEF Init, MovingType
<1>2. MovingType /\ [Next]_vars => MovingType'
  BY MovingStays
<1>3. IInv /\ MovingType => TypeOK
  BY TypeParts DEF IInv
<1> QED
  BY <1>1, <1>2, <1>3, InvariantHolds, PTL DEF Spec

(* The single-active slot has one holder, and its flag says so: the tests  *)
(* and the Room Scan never run together, and none frees the slot under     *)
(* another (testmode/mod.rs, claim_testmode and release_testmode).         *)
THEOREM OneHolder == Spec => []SlotIsExclusive
<1>1. IInv => SlotIsExclusive
  <2> SUFFICES ASSUME IInv PROVE SlotIsExclusive
    OBVIOUS
  <2>1. /\ Len(testCommands) <= 1 /\ testCommands \in Seq(Tests)
        /\ testCommands # <<>> => AllOff
    BY DEF IInv, SlotInv, SlotTypes
  <2>2. \A i, j \in DOMAIN testCommands : i = j
    BY <2>1
  <2>3. testCommands # <<>> => testCommands[1] \in Tests /\ 1 \in DOMAIN testCommands
    BY <2>1
  <2>4. \A p \in Tests :
           Live(p) <=> \/ testAt[p] # "off"
                       \/ testCommands # <<>> /\ testCommands[1] = p
    BY <2>2, <2>3 DEF Live
  <2>5. (\E p \in Tests : Live(p)) <=> (testCommands # <<>> \/ ~AllOff)
    BY <2>3, <2>4 DEF AllOff
  <2>6. \A p, q \in Tests : Live(p) /\ Live(q) => p = q
    BY <2>1, <2>4 DEF IInv, SlotInv, AllOff
  <2>7. roomScanWanted => \A p \in Tests : ~Live(p)
    BY <2>5, Zenon DEF IInv, SlotInv
  <2>8. testmodeActive <=> (roomScanWanted \/ \E p \in Tests : Live(p))
    BY <2>5, Zenon DEF IInv, SlotInv
  <2> QED
    BY <2>1, <2>6, <2>7, <2>8, Zenon DEF SlotIsExclusive
<1> QED
  BY <1>1, InvariantHolds, PTL

(* The radar is only drawn by a screen that holds the slot and the sensor, *)
(* since a refused entry shows the menu instead (ui/mod.rs).               *)
THEOREM RadarIsHeld == Spec => []RadarHoldsSlot
<1>1. IInv => RadarHoldsSlot
  BY DEF IInv
<1> QED
  BY <1>1, InvariantHolds, PTL

(* A test is only spawned when its task has ended, so the spawn's unwrap   *)
(* never panics (testmode/mod.rs).                                         *)
THEOREM SpawnNeverPanics == Spec => []SpawnFindsFreeTask
<1>1. IInv => SpawnFindsFreeTask
  <2> SUFFICES ASSUME IInv, testCommands # <<>>
               PROVE  testAt[Head(testCommands)] = "off"
    BY DEF SpawnFindsFreeTask
  <2>1. AllOff /\ Head(testCommands) \in Tests
    BY DEF IInv, SlotInv, SlotTypes
  <2> QED
    BY <2>1 DEF AllOff
<1> QED
  BY <1>1, InvariantHolds, PTL

(* A calibration that says it is complete has an event on its way that     *)
(* makes the panel leave it, whoever wrote that status                     *)
(* (procedure/mod.rs, ui/mod.rs).                                          *)
THEOREM CompletionReachesPanel == Spec => []CompletionIsAnnounced
<1>1. IInv => CompletionIsAnnounced
  BY DEF IInv, AnnouncedInv, Quiet, Announced, Completions, CompletionIsAnnounced
<1> QED
  BY <1>1, InvariantHolds, PTL

(* Only the start of a test clears the stop latch of the tests, and it     *)
(* finds no other test alive: a stop given to a test is never lost under   *)
(* it (procedure/mod.rs, start; ui/mod.rs).                                *)
THEOREM StopsAreKept == Spec => StopStands
<1> DEFINE Step == testStop /\ ~testStop' => \A p \in Tests : ~Live(p)
<1>1. IInv /\ [Next]_vars => [Step]_vars
  <2> SUFFICES ASSUME IInv, Next, testStop, ~testStop'
               PROVE  \A p \in Tests : ~Live(p)
    OBVIOUS
  <2>1. PICK p \in Tests : StartTest(p)
    <3>1. \/ testStop' \in {testStop, TRUE}
          \/ \E p \in Tests : StartTest(p)
      <4>1. CASE Gesture
        BY <4>1 DEF Gesture, PenUpElsewhere, PressOnly, OpenMenu, EnterRoomScan,
           RefuseTest, StartInline, StartDistance, GoBack, LeaveValue, StopRunning
      <4>2. CASE (\E h \in HitTest : PenDown(h)) \/ Tick \/ UiEvent
        BY <4>2 DEF PenDown, PressOnly, Tick, UiEvent, HandleTestingCompleted,
           HoldOrLeaveCalibration, EnterDistanceEntry, SendDistance, TakeEvent
      <4>3. CASE Orchestrate \/ SpawnTest
        BY <4>3 DEF Orchestrate, SpawnTest
      <4>4. CASE \/ \E p \in Completing : CountdownEnds(p) \/ LegEnds(p) \/ SettleEnds(p)
                 \/ \E p \in Interactive : InteractivePhase(p) \/ InteractiveEnds(p)
        <5>1. TestOnly
          BY <4>4 DEF CountdownEnds, LegEnds, SettleEnds, InteractivePhase, InteractiveEnds
        <5> QED
          BY <5>1 DEF TestOnly
      <4>5. CASE \/ TakeMovement \/ IntentEnds \/ HandleInterrupt
                 \/ RunInline \/ InlinePhase \/ InlineStops \/ InlineCompletes
                 \/ InlineFails \/ Linger \/ DistanceStep
        <5>1. CalibrationOnly
          BY <4>5 DEF TakeMovement, IntentEnds, HandleInterrupt, DriveOnly, EndsOnly, RunInline, InlinePhase, InlineStops, InlineCompletes, InlineFails,
             InlineFinishes, Linger, DistanceStep, TakeDistanceRequest, DistanceCountdown,
             DistanceLegEnds, DistanceSettles, DistanceOnly
        <5> QED
          BY <5>1 DEF CalibrationOnly
      <4> QED
        BY <4>1, <4>2, <4>3, <4>4, <4>5, Zenon DEF Next
    <3> QED
      BY <3>1
  <2>2. testCommands = <<>> /\ AllOff
    BY <2>1 DEF IInv, SlotInv, SlotTypes, StartTest, SlotFree
  <2> QED
    BY <2>2 DEF Live, AllOff
<1> QED
  BY <1>1, InvariantHolds, PTL DEF Spec, StopStands

--------------------------------------------------------------------------------
(* Room for the completions.  What can still raise a completion, and what  *)
(* has been raised and not been handled, is one count: every step passes   *)
(* it on or uses it up, and only a finger that comes down adds to it, when *)
(* every completion raised so far has been handled.                        *)

Token(b) == IF b THEN 1 ELSE 0
Testing == testCommands # <<>> \/ ~AllOff
Raised == Len(events) + Len(uiEvents)
Calibrating == Len(driveInbox) + Token(driveAt \in Inline)
Measuring == Token(distanceAt # "idle") + Token(distanceRequest)
Tapped == Token(uiAt = "sending") + Token(press # "none")
Pending == Raised + Calibrating + Measuring + Token(Testing) + Tapped
CountInv == Pending <= CommandCap + 5

LEMMA TokenRange ==
    ASSUME NEW b \in BOOLEAN
    PROVE  Token(b) \in 0..1
  BY DEF Token

(* The parts of the count are numbers, and none exceeds its capacity.      *)
Parts ==
    /\ Len(events) \in Nat /\ Len(uiEvents) \in Nat /\ Raised \in Nat
    /\ Calibrating \in Nat /\ Calibrating <= CommandCap + 1
    /\ Measuring \in 0..2 /\ Token(Testing) \in 0..1 /\ Tapped \in 0..2

LEMMA PartsAreNumbers == IInv => Parts
<1> SUFFICES ASSUME IInv PROVE Parts
  OBVIOUS
<1>1. Len(events) \in Nat /\ Len(uiEvents) \in Nat
  BY DEF IInv, QueueTypes
<1>2. Len(driveInbox) \in Nat /\ Len(driveInbox) <= CommandCap
  BY DEF IInv, CalibrationTypes
<1>3. Calibrating \in Nat /\ Calibrating <= CommandCap + 1
  BY <1>2, CapAssumption DEF Calibrating, Token
<1> QED
  BY <1>1, <1>3 DEF Parts, Raised, Measuring, Tapped, Token

LEMMA PartsStayNumbers == IInv' => Parts'
  BY PartsAreNumbers, PTL

(* What leaves the queues, the slot and the calibrations alone leaves      *)
(* their parts of the count alone.                                         *)
LEMMA CountFrame ==
    /\ UNCHANGED <<events, uiEvents>> => Raised' = Raised
    /\ UNCHANGED <<driveInbox, driveAt>> => Calibrating' = Calibrating
    /\ UNCHANGED <<distanceAt, distanceRequest>> => Measuring' = Measuring
    /\ UNCHANGED <<testCommands, testAt>> => Token(Testing)' = Token(Testing)
    /\ UNCHANGED <<uiAt, press>> => Tapped' = Tapped
<1>1. UNCHANGED <<testCommands, testAt>> => (Testing' <=> Testing)
  BY DEF Testing, AllOff
<1> QED
  BY <1>1 DEF Raised, Calibrating, Measuring, Tapped, Token

(* A finger comes down only when all that was raised has been handled.     *)
LEMMA PenDownCounts ==
    ASSUME IInv, IInv', NEW h, PenDown(h)
    PROVE  CountInv'
<1>1. Raised' = 0
  <2>1. events' = <<>> /\ uiEvents' = <<>>
    BY DEF PenDown, Settled, PressOnly
  <2> QED
    BY <2>1 DEF Raised
<1>2. Tapped' <= 1
  <2>1. uiAt' = "loop"
    BY DEF PenDown, PressOnly
  <2> QED
    BY <2>1 DEF Tapped, Token
<1>3. /\ Calibrating' \in Nat /\ Calibrating' <= CommandCap + 1
      /\ Measuring' \in 0..2 /\ Token(Testing)' \in 0..1 /\ Tapped' \in 0..2
  BY PartsStayNumbers DEF Parts
<1> QED
  BY <1>1, <1>2, <1>3, CapAssumption DEF CountInv, Pending

LEMMA Exchange ==
    \A a, b, c, d, e, f, g \in Nat :
        a + b <= c + d => /\ a + e + b + f + g <= c + e + d + f + g
                          /\ e + f + a + g + b <= e + f + c + g + d
  OBVIOUS

LEMMA CountStays ==
    ASSUME IInv, IInv', CountInv,
           Raised' + Calibrating' + Measuring' + Token(Testing)' + Tapped'
           <= Raised + Calibrating + Measuring + Token(Testing) + Tapped
    PROVE  CountInv'
<1>1. /\ Raised \in Nat /\ Calibrating \in Nat /\ Measuring \in 0..2
      /\ Token(Testing) \in 0..1 /\ Tapped \in 0..2
  BY PartsAreNumbers DEF Parts
<1>2. /\ Raised' \in Nat /\ Calibrating' \in Nat /\ Measuring' \in 0..2
      /\ Token(Testing)' \in 0..1 /\ Tapped' \in 0..2
  BY PartsStayNumbers DEF Parts
<1> QED
  BY <1>1, <1>2, CapAssumption DEF CountInv, Pending

(* A gesture ends with at most one start, of what then can raise one.      *)
LEMMA GestureCounts ==
    ASSUME IInv, IInv', CountInv, Gesture
    PROVE  CountInv'
<1>1. UNCHANGED <<events, uiEvents>>
  BY DEF Gesture, PenUpElsewhere, OpenMenu, EnterRoomScan, StartTest, RefuseTest,
     StartInline, StartDistance, GoBack, LeaveValue, StopRunning, PressOnly
<1>2. /\ Raised' = Raised /\ Raised \in Nat
      /\ Calibrating \in Nat /\ Measuring \in 0..2
      /\ Token(Testing) \in 0..1 /\ Tapped \in 0..2
  BY <1>1, CountFrame, PartsAreNumbers DEF Parts
<1>3. press # "none" /\ press' = "none"
  BY DEF Gesture, PenUpElsewhere, OpenMenu, EnterRoomScan, StartTest, RefuseTest,
     StartInline, StartDistance, GoBack, LeaveValue, StopRunning, Activate, Procedure,
     Tests, Completing, Interactive, Calibrations, Inline, Submenu
<1>4. UNCHANGED uiAt => Tapped' = Tapped - 1
  BY <1>3 DEF Tapped, Token
<1>5. CASE \E p \in Tests : StartTest(p)
  <2>1. ~Testing
    BY <1>5 DEF StartTest, SlotFree, IInv, SlotInv, Testing
  <2>2. Token(Testing) = 0 /\ Token(Testing)' \in 0..1
    BY <2>1 DEF Token
  <2>3. UNCHANGED <<uiAt, driveInbox, driveAt, distanceAt, distanceRequest>>
    BY <1>5 DEF StartTest, Activate, calVars, driveVars
  <2> QED
    BY <1>2, <1>4, <2>2, <2>3, CountFrame, CountStays
<1>6. CASE \E p \in Inline : StartInline(p)
  <2>1. /\ UNCHANGED <<uiAt, driveAt, distanceAt, distanceRequest, testCommands, testAt>>
        /\ Len(driveInbox') = Len(driveInbox) + 1
    BY <1>6 DEF StartInline, Activate, testVars, IInv, CalibrationTypes
  <2>2. Calibrating' = Calibrating + 1
    BY <2>1 DEF Calibrating, Token, IInv, CalibrationTypes
  <2> QED
    BY <1>2, <1>4, <2>1, <2>2, CountFrame, CountStays
<1>7. CASE StartDistance
  <2>1. UNCHANGED <<driveInbox, driveAt, distanceAt, testCommands, testAt>>
    BY <1>7 DEF StartDistance, testVars, driveVars
  <2>2. Measuring' + Tapped' <= Measuring + Tapped
    BY <1>3, <1>7 DEF StartDistance, Measuring, Tapped, Token
  <2>3. Measuring' \in 0..2 /\ Tapped' \in 0..2
    BY DEF Measuring, Tapped, Token
  <2>4. Calibrating' = Calibrating /\ Token(Testing)' = Token(Testing)
    BY <2>1, CountFrame
  <2>5. Raised' + Calibrating' + Measuring' + Token(Testing)' + Tapped'
        <= Raised + Calibrating + Measuring + Token(Testing) + Tapped
    <3>1. /\ Raised \in Nat /\ Calibrating \in Nat /\ Token(Testing) \in Nat
          /\ Measuring \in Nat /\ Measuring' \in Nat /\ Tapped \in Nat /\ Tapped' \in Nat
      BY <1>2, <2>3
    <3>2. Raised + Calibrating + Measuring' + Token(Testing) + Tapped'
          <= Raised + Calibrating + Measuring + Token(Testing) + Tapped
      BY <2>2, <3>1, Exchange
    <3> QED
      BY <1>2, <2>4, <3>2, Zenon
  <2> QED
    BY <2>5, CountStays
<1>8. CASE \/ PenUpElsewhere
           \/ \E i \in Submenu \cup {"SystemInfo", "AttemptStraight"} : OpenMenu(i)
           \/ EnterRoomScan \/ (\E p \in Tests : RefuseTest(p)) \/ GoBack \/ LeaveValue
           \/ StopRunning
  <2>1. UNCHANGED <<uiAt, driveInbox, driveAt, distanceAt, distanceRequest, testCommands,
                    testAt>>
    BY <1>8 DEF PenUpElsewhere, OpenMenu, EnterRoomScan, RefuseTest, GoBack, LeaveValue,
       StopRunning, PressOnly, Activate, testVars, calVars, driveVars
  <2> QED
    BY <1>2, <1>4, <2>1, CountFrame, CountStays
<1> QED
  BY <1>5, <1>6, <1>7, <1>8, Zenon DEF Gesture

(* The orchestrator hands an event on, the panel handles one.              *)
LEMMA EventsCount ==
    ASSUME IInv, IInv', CountInv, Orchestrate \/ UiEvent \/ Tick
    PROVE  CountInv'
<1>1. UNCHANGED <<driveInbox, driveAt, distanceAt, testCommands, testAt, press>>
  BY DEF Orchestrate, UiEvent, Tick, HandleTestingCompleted, HoldOrLeaveCalibration,
     EnterDistanceEntry, SendDistance, TakeEvent, testVars, calVars, driveVars, uiVars
<1>2. /\ Raised \in Nat /\ Calibrating' = Calibrating /\ Calibrating \in Nat
      /\ Measuring \in 0..2 /\ Tapped \in 0..2
      /\ Token(Testing)' = Token(Testing) /\ Token(Testing) \in 0..1
  BY <1>1, CountFrame, PartsAreNumbers DEF Parts
<1>3. CASE SendDistance
  <2>1. UNCHANGED <<events, uiEvents>>
    BY <1>3 DEF SendDistance
  <2>2. Measuring' = Measuring + 1 /\ Tapped' = Tapped - 1
    BY <1>1, <1>3 DEF SendDistance, Measuring, Tapped, Token
  <2> QED
    BY <1>2, <2>1, <2>2, CountFrame, CountStays
<1>4. CASE \/ Orchestrate \/ Tick
           \/ \E e \in Completions \cup {"DistanceDriveFinished"} : TakeEvent(e)
  <2>1. UNCHANGED <<uiAt, distanceRequest>>
    BY <1>4 DEF Orchestrate, Tick, TakeEvent, calVars, driveVars, uiVars
  <2>2. Raised' \in Nat /\ Raised' <= Raised
    BY <1>4 DEF Raised, Orchestrate, Tick, TakeEvent, IInv, QueueTypes
  <2> QED
    BY <1>1, <1>2, <2>1, <2>2, CountFrame, CountStays
<1>5. UiEvent => \/ SendDistance
                 \/ \E e \in Completions \cup {"DistanceDriveFinished"} : TakeEvent(e)
  BY DEF UiEvent, HandleTestingCompleted, HoldOrLeaveCalibration, EnterDistanceEntry,
     Completions
<1> QED
  BY <1>3, <1>4, <1>5, Zenon

(* A test completes with its release.                                      *)
LEMMA TestsCount ==
    ASSUME IInv, IInv', CountInv,
           \/ SpawnTest
           \/ \E p \in Completing : CountdownEnds(p) \/ LegEnds(p) \/ SettleEnds(p)
           \/ \E p \in Interactive : InteractivePhase(p) \/ InteractiveEnds(p)
    PROVE  CountInv'
<1>1. UNCHANGED <<uiAt, press, driveInbox, driveAt, distanceAt, distanceRequest, uiEvents>>
  BY DEF SpawnTest, CountdownEnds, LegEnds, SettleEnds, InteractivePhase, InteractiveEnds,
     TestOnly, calVars, driveVars, uiVars
<1>2. /\ Raised \in Nat /\ Calibrating' = Calibrating /\ Calibrating \in Nat
      /\ Measuring' = Measuring /\ Measuring \in 0..2
      /\ Tapped' = Tapped /\ Tapped \in 0..2
  BY <1>1, CountFrame, PartsAreNumbers DEF Parts
<1>3. Testing
  <2>1. CASE SpawnTest
    BY <2>1 DEF SpawnTest, Testing
  <2>2. CASE \E p \in Tests : testAt[p] # "off"
    BY <2>2 DEF Testing, AllOff
  <2> QED
    BY <2>1, <2>2 DEF CountdownEnds, LegEnds, SettleEnds, InteractivePhase, InteractiveEnds,
       Tests
<1>4. Token(Testing) = 1 /\ Token(Testing)' \in 0..1
  BY <1>3 DEF Token
<1>5. CASE UNCHANGED events
  <2>1. Raised' = Raised
    BY <1>1, <1>5 DEF Raised
  <2> QED
    BY <1>2, <1>4, <2>1, CountStays
<1>6. CASE \E p \in Completing : testAt[p] # "off" /\ Complete(p) /\ TestOnly
  <2>1. PICK p \in Completing : testAt[p] # "off" /\ Complete(p) /\ TestOnly
    BY <1>6
  <2>2. p \in Tests
    BY DEF Tests
  <2>3. testCommands = <<>> /\ \A q \in Tests : q # p => testAt[q] = "off"
    BY <2>1, <2>2 DEF IInv, SlotInv, AllOff
  <2>4. testCommands' = <<>> /\ testAt' = [testAt EXCEPT ![p] = "off"]
    BY <2>1, <2>3 DEF Complete, Release, TestOnly
  <2>5. ~Testing'
    BY <2>2, <2>3, <2>4 DEF Testing, AllOff, IInv, SlotTypes
  <2>6. Token(Testing)' = 0
    BY <2>5 DEF Token
  <2>7. Raised' = Raised + 1
    BY <1>1, <2>1 DEF Complete, Raised, IInv, QueueTypes
  <2> QED
    BY <1>2, <1>4, <2>6, <2>7, CountStays
<1>7. UNCHANGED events \/ \E p \in Completing : testAt[p] # "off" /\ Complete(p) /\ TestOnly
  <2>1. CASE SpawnTest
    BY <2>1 DEF SpawnTest
  <2>2. ASSUME NEW p \in Completing, CountdownEnds(p)
        PROVE  UNCHANGED events
    BY <2>2 DEF CountdownEnds, StageStops, StageDrives, StageRefused
  <2>3. ASSUME NEW p \in Interactive, InteractivePhase(p) \/ InteractiveEnds(p)
        PROVE  UNCHANGED events
    BY <2>3 DEF InteractivePhase, InteractiveEnds, StageStops
  <2>4. ASSUME NEW p \in Completing, NextStage(p) \/ Settles(p) \/ StageRefused(p)
        PROVE  UNCHANGED events
    BY <2>4 DEF NextStage, Settles, StageStops, StageDrives, StageRefused
  <2>5. ASSUME NEW p \in Completing, LegEnds(p) \/ SettleEnds(p)
        PROVE  \/ NextStage(p) \/ Settles(p) \/ StageRefused(p)
               \/ testAt[p] # "off" /\ Complete(p) /\ TestOnly
    <3>1. testAt[p] # "off" /\ TestOnly
      BY <2>5 DEF LegEnds, SettleEnds
    <3>2. NextStage(p) \/ Settles(p) \/ StageRefused(p) \/ Complete(p)
      BY <2>5 DEF LegEnds, SettleEnds
    <3> QED
      BY <3>1, <3>2
  <2> QED
    BY <2>1, <2>2, <2>3, <2>4, <2>5
<1> QED
  BY <1>5, <1>6, <1>7

(* A calibration raises one event, and has then ended.                     *)
LEMMA CalibrationsCount ==
    ASSUME IInv, IInv', CountInv,
           \/ TakeMovement \/ IntentEnds \/ HandleInterrupt
           \/ RunInline \/ InlinePhase \/ InlineStops \/ InlineCompletes
           \/ InlineFails \/ Linger
    PROVE  CountInv'
<1>1. UNCHANGED <<uiAt, press, distanceAt, distanceRequest, uiEvents, testCommands, testAt>>
  BY DEF TakeMovement, IntentEnds, HandleInterrupt, DriveOnly, EndsOnly, RunInline,
     InlinePhase, InlineStops, InlineCompletes, InlineFails, InlineFinishes, Linger,
     CalibrationOnly, calVars, driveVars, uiVars, testVars
<1>2. /\ Raised \in Nat /\ Calibrating \in Nat
      /\ Measuring' = Measuring /\ Measuring \in 0..2
      /\ Tapped' = Tapped /\ Tapped \in 0..2
      /\ Token(Testing)' = Token(Testing) /\ Token(Testing) \in 0..1
  BY <1>1, CountFrame, PartsAreNumbers DEF Parts
<1>3. driveInbox \in Seq(Inline) /\ events \in Seq(Completions) /\ Len(uiEvents) \in Nat
  BY DEF IInv, CalibrationTypes, QueueTypes
<1>4. "idle" \notin Inline /\ "intent" \notin Inline /\ "lingering" \notin Inline
  BY DEF Inline
<1>5. CASE InlineCompletes \/ InlineFails
  <2>1. /\ driveAt \in Inline /\ driveAt' \in {"idle", "lingering"}
        /\ driveInbox' = driveInbox
        /\ events' = Append(events, "CalibrationCompleted")
    BY <1>5 DEF InlineCompletes, InlineFails, InlineFinishes, EndsOnly
  <2>2. Raised' = Raised + 1
    BY <1>1, <1>3, <2>1 DEF Raised
  <2>3. Calibrating' = Calibrating - 1
    BY <1>3, <1>4, <2>1 DEF Calibrating, Token
  <2> QED
    BY <1>2, <2>2, <2>3, CountStays
<1>6. CASE \/ RunInline \/ InlinePhase \/ InlineStops
           \/ TakeMovement \/ IntentEnds \/ HandleInterrupt \/ Linger
  <2>1. Raised' = Raised
    BY <1>1, <1>6 DEF RunInline, InlinePhase, InlineStops, EndsOnly, TakeMovement, IntentEnds,
       HandleInterrupt, Linger, DriveOnly, Raised
  <2>2. Calibrating' <= Calibrating /\ Calibrating' \in Nat
    <3>1. CASE RunInline
      BY <1>3, <1>4, <3>1 DEF RunInline, Calibrating, Token
    <3>2. CASE InlinePhase
      BY <1>2, <3>2 DEF InlinePhase, Calibrating, Token, calVars, driveVars
    <3>3. CASE InlineStops \/ TakeMovement \/ IntentEnds \/ Linger
      <4>1. driveInbox' = driveInbox /\ driveAt' \notin Inline
        BY <1>4, <3>3 DEF InlineStops, EndsOnly, TakeMovement, IntentEnds, Linger
      <4> QED
        BY <1>3, <4>1 DEF Calibrating, Token
    <3>4. CASE HandleInterrupt
      BY <1>3, <1>4, <3>4 DEF HandleInterrupt, Calibrating, Token
    <3> QED
      BY <1>6, <3>1, <3>2, <3>3, <3>4
  <2> QED
    BY <1>2, <2>1, <2>2, CountStays
<1> QED
  BY <1>5, <1>6

(* The distance calibration is taken once for each request.                *)
LEMMA DistanceCounts ==
    ASSUME IInv, IInv', CountInv, DistanceStep
    PROVE  CountInv'
<1>1. UNCHANGED <<uiAt, press, driveInbox, driveAt, events, testCommands, testAt>>
  BY DEF DistanceStep, TakeDistanceRequest, DistanceCountdown, DistanceLegEnds,
     DistanceSettles, DistanceOnly, CalibrationOnly, uiVars, testVars
<1>2. /\ Raised \in Nat /\ Calibrating' = Calibrating /\ Calibrating \in Nat
      /\ Tapped' = Tapped /\ Tapped \in 0..2
      /\ Token(Testing)' = Token(Testing) /\ Token(Testing) \in 0..1
  BY <1>1, CountFrame, PartsAreNumbers DEF Parts
<1>3. Raised' + Measuring' <= Raised + Measuring /\ Raised' \in Nat /\ Measuring' \in 0..2
  <2>1. Len(events) \in Nat /\ Len(uiEvents) \in Nat
        /\ uiEvents \in Seq(Completions \cup {"DistanceDriveFinished"})
    BY DEF IInv, QueueTypes
  <2>2. CASE TakeDistanceRequest
    BY <1>1, <2>1, <2>2 DEF TakeDistanceRequest, Raised, Measuring, Token
  <2>3. CASE /\ distanceAt # "idle" /\ UNCHANGED distanceRequest
             /\ \/ UNCHANGED uiEvents
                \/ distanceAt' = "idle" /\ uiEvents' = Append(uiEvents, "DistanceDriveFinished")
    BY <1>1, <2>1, <2>3 DEF Raised, Measuring, Token
  <2> QED
    BY <2>2, <2>3 DEF DistanceStep, DistanceCountdown, DistanceLegEnds, DistanceSettles,
       DistanceStopped, DistanceFailed, DistanceDrove, DistanceAdvances
<1> QED
  <2>1. Measuring \in 0..2
    BY PartsAreNumbers DEF Parts
  <2>2. Raised' + Calibrating' + Measuring' + Token(Testing)' + Tapped'
        <= Raised + Calibrating + Measuring + Token(Testing) + Tapped
    <3>1. /\ Raised \in Nat /\ Calibrating \in Nat /\ Token(Testing) \in Nat
          /\ Measuring \in Nat /\ Measuring' \in Nat /\ Raised' \in Nat /\ Tapped \in Nat
      BY <1>2, <1>3, <2>1
    <3>2. Raised' + Measuring' <= Raised + Measuring
      BY <1>3
    <3>3. Raised' + Calibrating + Measuring' + Token(Testing) + Tapped
          <= Raised + Calibrating + Measuring + Token(Testing) + Tapped
      BY <3>1, <3>2, Exchange
    <3> QED
      BY <1>2, <3>3, Zenon
  <2> QED
    BY <2>2, CountStays

LEMMA InitCounts == Init => CountInv
<1> SUFFICES ASSUME Init PROVE CountInv
  OBVIOUS
<1>1. Raised = 0
  BY DEF Init, Raised
<1>2. Calibrating = 0
  BY DEF Init, Calibrating, Token, Inline
<1>3. Measuring = 0 /\ Tapped = 0
  BY DEF Init, Measuring, Tapped, Token
<1>4. Token(Testing) = 0
  BY DEF Init, Testing, AllOff, Token
<1> QED
  BY <1>1, <1>2, <1>3, <1>4, CapAssumption DEF CountInv, Pending

LEMMA CountStep ==
    ASSUME IInv, IInv', CountInv, [Next]_vars
    PROVE  CountInv'
<1>1. CASE UNCHANGED vars
  <2>1. UNCHANGED <<uiAt, press, driveInbox, driveAt, distanceAt, distanceRequest, events,
                    uiEvents, testCommands, testAt>>
    BY <1>1 DEF vars, uiVars, testVars, calVars, driveVars
  <2> QED
    BY <2>1, CountFrame DEF CountInv, Pending
<1>2. CASE Next
  BY <1>2, PenDownCounts, GestureCounts, EventsCount, TestsCount, CalibrationsCount,
     DistanceCounts, Zenon DEF Next
<1> QED
  BY <1>1, <1>2

(* The channels of the events never fill, however the procedures are       *)
(* started, stopped and completed: with room for more than the drive       *)
(* queue's commands and five (64, against 16, in event.rs, ui/mod.rs and   *)
(* drive/api.rs) no producer waits in its completion with its slot already *)
(* released.                                                               *)
THEOREM EventsAlwaysFindRoom ==
    ASSUME CommandCap + 5 < EventCap
    PROVE  Spec => []EventsFindRoom
<1>1. Init => CountInv
  BY InitCounts
<1>2. IInv /\ IInv' /\ CountInv /\ [Next]_vars => CountInv'
  BY CountStep
<1>3. IInv /\ CountInv => EventsFindRoom
  <2> SUFFICES ASSUME IInv, CountInv PROVE EventsFindRoom
    OBVIOUS
  <2>1. Raised <= CommandCap + 5
    BY PartsAreNumbers, CapAssumption DEF CountInv, Pending, Parts
  <2>2. Len(events) < EventCap /\ Len(uiEvents) < EventCap
    BY <2>1, PartsAreNumbers, CapAssumption DEF Raised, Parts
  <2> QED
    BY <2>2 DEF EventsFindRoom
<1> QED
  BY <1>1, <1>2, <1>3, InvariantHolds, PTL DEF Spec

=================================================================================
