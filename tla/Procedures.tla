------------------------------ MODULE Procedures ------------------------------
(***************************************************************************)
(* The touch panel's menu and the procedures it starts: the UI task, the   *)
(* orchestrator that forwards completions, the test modes with their       *)
(* single slot, the calibrations, and the shared activity state and stop   *)
(* latches they meet through; coast-and-avoid is LidarModes'               *)
(* (src/src/task/ui, src/src/task/procedure, src/src/task/testmode,        *)
(* src/src/system/state/activity.rs, src/touch-ui).                        *)
(*                                                                         *)
(* All these tasks share core 0 and give way only at an await, so one      *)
(* action is the code between two awaits that can wait: locks are never    *)
(* contended.  The UI handles no event and no tick between pen down and    *)
(* pen up; what the finger was put on is in "press" meanwhile.             *)
(***************************************************************************)
EXTENDS Naturals, Sequences, FiniteSets

CONSTANTS Offered,      \* the procedures the operator taps
          EventCap,     \* capacity of EVENT_CHANNEL and UI_EVENT_CHANNEL
          CommandCap    \* capacity of TESTMODE_COMMAND and DRIVE_QUEUE

Completing == {"Turns", "StraightDrive", "ArcDrive"}
StageCount == [p \in Completing |->
                  CASE p = "Turns" -> 4 [] p = "StraightDrive" -> 2 [] OTHER -> 1]
Interactive == {"BasicMotor", "Imu6Axis", "Imu9Axis"}
Tests == Completing \cup Interactive
Inline == {"MotorCalibration", "MagCalibration"}
Calibrations == Inline \cup {"DistanceCalibration"}
DriveModes == {"AttemptStraight"}   \* coast-and-avoid: LidarModes
Procedure == Tests \cup Calibrations \cup DriveModes
Submenu == {"Calibrate", "DriveMode", "TestMode"}
ScreenEntry == {"SystemInfo", "RoomScan"}
ValueFlow == {"DistanceEntry", "StraightEntry"}
Screen == {"MainMenu", "Status"} \cup Submenu \cup ScreenEntry \cup ValueFlow

ASSUME OfferedAssumption == Offered \subseteq Procedure
ASSUME CapAssumption == EventCap \in Nat \ {0} /\ CommandCap \in Nat \ {0}

VARIABLES
    screen,         \* Ui.screen
    view,           \* the status view's parent and finished flag
    press,          \* what the pen is down on, "none" when it is up
    uiAt,           \* "loop", or "sending" on a full DISTANCE_DRIVE_REQUEST
    activity,       \* ACTIVITY_STATE: whose, and its stage
    testStop, calStop,        \* TEST_STOP and CALIBRATION_STOP
    testmodeActive,           \* TESTMODE_ACTIVE, the family's slot
    roomScanWanted,           \* ROOM_SCAN_WANTED
    testCommands,             \* TESTMODE_COMMAND
    testAt, stage,  \* where each test's task is, the stage of the running one
    driveInbox,     \* calibrations waiting in DRIVE_QUEUE
    moving,         \* movements wait there too: a leg's steps, a coast or a brake
    driveInterrupt, \* DRIVE_INTERRUPT is signalled
    driveAt,        \* the drive task: "idle", in an "intent", in the calibration it
                    \* runs inline, or "lingering" after one has completed
    distanceRequest, distanceAt,  \* DISTANCE_DRIVE_REQUEST and its task
    events, uiEvents              \* EVENT_CHANNEL and UI_EVENT_CHANNEL

uiVars == <<screen, view, press, uiAt>>
testVars == <<testmodeActive, testCommands, testAt, stage>>
driveVars == <<driveInbox, moving, driveInterrupt, driveAt>>
calVars == <<driveVars, distanceRequest, distanceAt>>
vars == <<uiVars, activity, testStop, calStop, roomScanWanted, testVars,
          calVars, events, uiEvents>>

Idle == [of |-> "Idle", stage |-> "Running"]
NewView == [parent |-> "MainMenu", finished |-> FALSE]
TestPlaces == {"off", "countdown", "leg", "settle", "running"}

TypeOK ==
    /\ screen \in Screen
    /\ view \in [parent : {"MainMenu"} \cup Submenu, finished : BOOLEAN]
    /\ press \in {"none", "Back", "Stop", "Cancel", "Save"} \cup Procedure
                 \cup Submenu \cup ScreenEntry
    /\ uiAt \in {"loop", "sending"}
    /\ activity \in [of : Procedure \cup {"Idle"},
                     stage : {"Running", "Complete", "Failed"}]
    /\ testStop \in BOOLEAN /\ calStop \in BOOLEAN
    /\ testmodeActive \in BOOLEAN /\ roomScanWanted \in BOOLEAN
    /\ testCommands \in Seq(Tests) /\ Len(testCommands) <= CommandCap
    /\ testAt \in [Tests -> TestPlaces] /\ stage \in Nat
    /\ driveInbox \in Seq(Inline) /\ Len(driveInbox) <= CommandCap
    /\ moving \in BOOLEAN /\ driveInterrupt \in BOOLEAN
    /\ driveAt \in Inline \cup {"idle", "intent", "lingering"}
    /\ distanceRequest \in BOOLEAN
    /\ distanceAt \in {"idle", "countdown", "leg", "settle"}
    /\ events \in Seq({"TestingCompleted", "CalibrationCompleted"})
    /\ uiEvents \in Seq({"TestingCompleted", "CalibrationCompleted",
                         "DistanceDriveFinished"})
    /\ Len(events) <= EventCap /\ Len(uiEvents) <= EventCap

Init ==
    /\ screen = "MainMenu" /\ view = NewView /\ press = "none" /\ uiAt = "loop"
    /\ activity = Idle /\ testStop = FALSE /\ calStop = FALSE
    /\ testmodeActive = FALSE /\ roomScanWanted = FALSE
    /\ testCommands = <<>> /\ testAt = [p \in Tests |-> "off"] /\ stage = 0
    /\ driveInbox = <<>> /\ moving = FALSE
    /\ driveInterrupt = FALSE /\ driveAt = "idle"
    /\ distanceRequest = FALSE /\ distanceAt = "idle"
    /\ events = <<>> /\ uiEvents = <<>>

-----------------------------------------------------------------------------
(* The menu: what each entry opens and where it returns to.                *)

Destination(item) ==
    CASE item \in Submenu \cup ScreenEntry -> item
      [] item = "DistanceCalibration" -> "DistanceEntry"
      [] item = "AttemptStraight" -> "StraightEntry"
      [] OTHER -> "Status"

Parent(item) ==
    CASE item \in Submenu \cup {"SystemInfo"} -> "MainMenu"
      [] item \in Calibrations -> "Calibrate"
      [] item \in DriveModes -> "DriveMode"
      [] item \in Tests \cup {"RoomScan"} -> "TestMode"

Items(s) ==
    CASE s = "MainMenu" -> Submenu \cup {"SystemInfo"}
      [] s = "Calibrate" -> Offered \cap Calibrations
      [] s = "DriveMode" -> Offered \cap DriveModes
      [] s = "TestMode" -> (Offered \cap Tests) \cup {"RoomScan"}
      [] OTHER -> {}

\* Screen::parent through the entry that names the screen; the running
\* screen's parent comes from its view.
ScreenParent ==
    CASE screen = "Status" -> view.parent
      [] screen = "DistanceEntry" -> "Calibrate"
      [] screen = "StraightEntry" -> "DriveMode"
      [] OTHER -> Parent(screen)

HeaderAction ==
    CASE screen = "MainMenu" -> {}
      [] screen \in ValueFlow -> {"Cancel"}
      [] screen = "Status" -> IF view.finished THEN {"Back"} ELSE {"Stop"}
      [] OTHER -> {"Back"}

HitTest == HeaderAction \cup Items(screen)
           \cup (IF screen \in ValueFlow THEN {"Save"} ELSE {})

-----------------------------------------------------------------------------
(* The activity state: one snapshot, written by whoever calls.             *)

Begin(p) == [of |-> p, stage |-> "Running"]
SetStage(s) == IF activity.of = "Idle" THEN activity
               ELSE [activity EXCEPT !.stage = s]
SetRunning == SetStage("Running")
Completed == SetStage("Complete")
Failed == SetStage("Failed")

ForProcedure(p) == [parent |-> Parent(p), finished |-> FALSE]
StatusView(a) ==
    [parent |-> IF a.of = "Idle" THEN "MainMenu" ELSE Parent(a.of),
     finished |-> a.stage \in {"Complete", "Failed"}]

-----------------------------------------------------------------------------
(* The panel.                                                              *)

\* The executor polls every task that is ready before time passes, and run_ui
\* looks at its events before the pen: a finger comes down with them drained,
\* with the requests of the last tap taken by the tasks that wait for them, with
\* no task left waiting on a latch that is set, and with the drive task's queue
\* and interrupt taken unless it is busy.
Settled ==
    /\ events = <<>> /\ uiEvents = <<>> /\ testCommands = <<>>
    /\ distanceRequest => distanceAt # "idle"
    /\ testStop => \A p \in Tests : testAt[p] # "countdown"
    /\ calStop => distanceAt \notin {"countdown", "settle"}
    /\ driveAt = "idle" => driveInbox = <<>> /\ ~moving /\ ~driveInterrupt

PressOnly == UNCHANGED <<screen, view, uiAt, activity, testStop, calStop,
                         roomScanWanted, testVars, calVars, events, uiEvents>>

PenDown(h) ==
    /\ uiAt = "loop" /\ press = "none" /\ Settled
    /\ h \in HitTest
    /\ press' = h
    /\ PressOnly

\* The gesture ends in a drag, off its target, or too soon for a tap.
PenUpElsewhere ==
    /\ press # "none" /\ press' = "none"
    /\ PressOnly

Activate(h) == press = h /\ press' = "none" /\ UNCHANGED uiAt

OpenMenu(i) ==
    /\ Activate(i) /\ i \in Submenu \cup {"SystemInfo", "AttemptStraight"}
    /\ screen' = Destination(i)
    /\ UNCHANGED <<view, activity, testStop, calStop, roomScanWanted, testVars,
                   calVars, events, uiEvents>>
\* Mutant: the claim does not look.
SlotAlwaysFree == TRUE

\* claim_testmode, which the Room Scan shares, finds the slot free.
SlotFree == ~testmodeActive
\* Mutant: a refused entry leaves the radar on screen.
EnterRoomScanRefusedStays ==
    /\ Activate("RoomScan")
    /\ screen' = "RoomScan"
    /\ testmodeActive' = TRUE
    /\ roomScanWanted' = (roomScanWanted \/ SlotFree)
    /\ UNCHANGED <<view, activity, testStop, calStop, testCommands, testAt, stage,
                   calVars, events, uiEvents>>

EnterRoomScan ==
    /\ Activate("RoomScan")
    /\ IF SlotFree
       THEN /\ screen' = "RoomScan"
            /\ testmodeActive' = TRUE /\ roomScanWanted' = TRUE
       ELSE /\ screen' = Parent("RoomScan")
            /\ UNCHANGED <<testmodeActive, roomScanWanted>>
    /\ UNCHANGED <<view, activity, testStop, calStop, testCommands, testAt, stage,
                   calVars, events, uiEvents>>

StartTest(p) ==
    /\ Activate(p) /\ p \in Tests /\ SlotFree
    /\ Len(testCommands) < CommandCap
    /\ testmodeActive' = TRUE
    /\ testStop' = FALSE
    /\ activity' = Begin(p)
    /\ testCommands' = Append(testCommands, p)
    /\ screen' = "Status" /\ view' = StatusView(activity')
    /\ UNCHANGED <<calStop, roomScanWanted, testAt, stage, calVars,
                   events, uiEvents>>
\* Mutant: the latch is armed before the slot is claimed.
RefuseTestArmed(p) ==
    /\ Activate(p) /\ p \in Tests /\ ~SlotFree
    /\ screen' = Parent(p) /\ testStop' = FALSE
    /\ UNCHANGED <<view, activity, calStop, roomScanWanted, testVars, calVars,
                   events, uiEvents>>

RefuseTest(p) ==
    /\ Activate(p) /\ p \in Tests /\ ~SlotFree
    /\ screen' = Parent(p)
    /\ UNCHANGED <<view, activity, testStop, calStop, roomScanWanted, testVars,
                   calVars, events, uiEvents>>

StartInline(p) ==
    /\ Activate(p) /\ p \in Inline
    /\ Len(driveInbox) < CommandCap
    /\ driveInbox' = Append(driveInbox, p)
    /\ screen' = "Status" /\ view' = ForProcedure(p)
    /\ UNCHANGED <<activity, testStop, calStop, roomScanWanted, testVars, moving,
                   driveInterrupt, driveAt, distanceRequest, distanceAt,
                   events, uiEvents>>

StartDistance ==
    /\ press = "DistanceCalibration" /\ press' = "none"
    /\ screen' = "Status" /\ view' = ForProcedure("DistanceCalibration")
    /\ distanceRequest' = TRUE
    /\ uiAt' = IF distanceRequest THEN "sending" ELSE "loop"
    /\ UNCHANGED <<activity, testStop, calStop, roomScanWanted, testVars,
                   driveVars, distanceAt, events, uiEvents>>

\* The send finds room once the step's task has taken the earlier request.
SendDistance ==
    /\ uiAt = "sending" /\ ~distanceRequest
    /\ distanceRequest' = TRUE /\ uiAt' = "loop"
    /\ UNCHANGED <<screen, view, press, activity, testStop, calStop,
                   roomScanWanted, testVars, driveVars, distanceAt,
                   events, uiEvents>>

\* Back on the radar leaves the scan; Back on a finished running screen forgets
\* the activity; elsewhere it only navigates.
GoBack ==
    /\ Activate("Back")
    /\ screen' = ScreenParent
    /\ activity' = IF screen = "Status" THEN Idle ELSE activity
    /\ testmodeActive' = (testmodeActive /\ screen # "RoomScan")
    /\ roomScanWanted' = (roomScanWanted /\ screen # "RoomScan")
    /\ UNCHANGED <<view, testStop, calStop, testCommands, testAt, stage,
                   calVars, events, uiEvents>>

\* A Save or Cancel of the distance entry forgets the calibration.
LeaveValue ==
    /\ \E h \in {"Cancel", "Save"} : Activate(h)
    /\ screen' = ScreenParent
    /\ activity' = IF screen = "DistanceEntry" THEN Idle ELSE activity
    /\ UNCHANGED <<view, testStop, calStop, roomScanWanted, testVars, calVars, events, uiEvents>>
\* Mutant: the panel frees the slot with the stop.
StopRunningFrees ==
    /\ Activate("Stop")
    /\ screen' = ScreenParent
    /\ testStop' = TRUE /\ calStop' = TRUE /\ driveInterrupt' = TRUE
    /\ activity' = Idle /\ testmodeActive' = FALSE
    /\ UNCHANGED <<view, roomScanWanted, testCommands, testAt, stage, driveInbox,
                   moving, driveAt, distanceRequest, distanceAt, events, uiEvents>>

\* Every latch is set; the drive task is only signalled.
StopRunning ==
    /\ Activate("Stop")
    /\ screen' = ScreenParent
    /\ testStop' = TRUE /\ calStop' = TRUE /\ driveInterrupt' = TRUE
    /\ activity' = Idle
    /\ UNCHANGED <<view, roomScanWanted, testVars, driveInbox, moving, driveAt,
                   distanceRequest, distanceAt, events, uiEvents>>

Tick ==
    /\ uiAt = "loop" /\ press = "none"
    /\ screen = "Status" /\ activity.of # "Idle"
    /\ view' = StatusView(activity)
    /\ UNCHANGED <<screen, press, uiAt, activity, testStop, calStop,
                   roomScanWanted, testVars, calVars, events, uiEvents>>

-----------------------------------------------------------------------------
(* Events.                                                                 *)

Orchestrate ==
    /\ events # <<>> /\ Len(uiEvents) < EventCap
    /\ uiEvents' = Append(uiEvents, Head(events)) /\ events' = Tail(events)
    /\ UNCHANGED <<uiVars, activity, testStop, calStop, roomScanWanted, testVars,
                   calVars>>

TakeEvent(e) ==
    /\ uiAt = "loop" /\ press = "none"
    /\ uiEvents # <<>> /\ Head(uiEvents) = e
    /\ uiEvents' = Tail(uiEvents)
    /\ UNCHANGED <<press, uiAt, testStop, calStop, roomScanWanted, testVars,
                   calVars, events>>

FinishedLanding == IF activity.of = "Idle" THEN "MainMenu" ELSE Parent(activity.of)

HandleTestingCompleted ==
    /\ TakeEvent("TestingCompleted")
    /\ screen' = FinishedLanding /\ view' = NewView /\ activity' = Idle

HoldOrLeaveCalibration ==
    /\ TakeEvent("CalibrationCompleted")
    /\ IF activity.of \notin Calibrations THEN UNCHANGED <<screen, view, activity>>
       ELSE IF activity.stage = "Failed"
       THEN /\ view' = IF screen = "Status" THEN StatusView(activity) ELSE view
            /\ UNCHANGED <<screen, activity>>
       ELSE screen' = FinishedLanding /\ view' = NewView /\ activity' = Idle

EnterDistanceEntry ==
    /\ TakeEvent("DistanceDriveFinished")
    /\ UNCHANGED activity
    /\ IF activity.of = "Idle" THEN UNCHANGED <<screen, view>>
       ELSE IF activity.stage = "Failed"
       THEN /\ view' = IF screen = "Status" THEN StatusView(activity) ELSE view
            /\ UNCHANGED screen
       ELSE screen' = "DistanceEntry" /\ UNCHANGED view

-----------------------------------------------------------------------------
(* The test modes.                                                         *)

Release(p) == testAt' = [testAt EXCEPT ![p] = "off"] /\ testmodeActive' = FALSE

\* spawn().unwrap(): the task's only slot must be free.
SpawnTest ==
    /\ testCommands # <<>>
    /\ LET p == Head(testCommands) IN
       /\ testAt[p] = "off"
       /\ testAt' = [testAt EXCEPT ![p] =
                        IF p \in Completing THEN "countdown" ELSE "running"]
    /\ testCommands' = Tail(testCommands)
    /\ stage' = 0
    /\ UNCHANGED <<uiVars, activity, testStop, calStop, testmodeActive,
                   roomScanWanted, calVars, events, uiEvents>>

TestOnly == UNCHANGED <<uiVars, testStop, calStop, roomScanWanted, testCommands,
                        driveInbox, driveInterrupt, driveAt, distanceRequest,
                        distanceAt, uiEvents>>

\* A leg and a settle queue are movements; a coast follows every turn and the
\* last straight leg.
SendsMovement(p) ==
    moving' = \/ moving
              \/ testAt'[p] \in {"leg", "settle"}
              \/ p = "Turns" /\ testAt[p] = "leg"
              \/ p = "StraightDrive" /\ events' # events

StageStops(p) == testStop /\ Release(p) /\ UNCHANGED <<stage, activity, events>>

\* A stage publishes its phase and submits its queue, which may be refused.
StageDrives(p) ==
    /\ stage' = stage + 1
    /\ testAt' = [testAt EXCEPT ![p] = "leg"]
    /\ activity' = SetRunning
    /\ UNCHANGED <<testmodeActive, events>>

StageRefused(p) ==
    /\ Release(p)
    /\ activity' = Failed
    /\ UNCHANGED <<stage, events>>

\* Lifecycle::complete, its event OnSuccess.
Complete(p) ==
    /\ Len(events) < EventCap
    /\ activity' = Completed
    /\ Release(p)
    /\ events' = Append(events, "TestingCompleted")
    /\ UNCHANGED stage

\* The countdown's wait is the first of the two places a stop is looked for.
CountdownEnds(p) ==
    /\ testAt[p] = "countdown"
    /\ \/ StageStops(p)
       \/ ~testStop /\ (StageDrives(p) \/ StageRefused(p))
    /\ SendsMovement(p) /\ TestOnly

NextStage(p) ==
    \/ StageStops(p)
    \/ ~testStop /\ (StageDrives(p) \/ StageRefused(p))

Settles(p) ==
    /\ testAt' = [testAt EXCEPT ![p] = "settle"]
    /\ UNCHANGED <<stage, activity, testmodeActive, events>>

\* The queue is answered, however the leg ended: the Turns go on to the next
\* stage and settle after the last, each straight leg is followed by its
\* settle queue, the one arc ends the test.
LegEnds(p) ==
    /\ testAt[p] = "leg"
    /\ CASE p = "Turns" /\ stage < StageCount[p] -> NextStage(p)
         [] p = "ArcDrive" -> Complete(p)
         [] OTHER -> Settles(p) \/ (p = "StraightDrive" /\ StageRefused(p))
    /\ SendsMovement(p) /\ TestOnly

\* The wait after the last turn ignores what it returns.
SettleEnds(p) ==
    /\ testAt[p] = "settle"
    /\ IF stage < StageCount[p] THEN NextStage(p) ELSE Complete(p)
    /\ SendsMovement(p) /\ TestOnly

\* An interactive test cycles until it sees the stop, then leaves silently.
InteractivePhase(p) ==
    /\ testAt[p] = "running" /\ ~testStop
    /\ activity' = SetRunning
    /\ UNCHANGED <<testmodeActive, testAt, stage, moving, events>> /\ TestOnly

InteractiveEnds(p) ==
    /\ testAt[p] = "running"
    /\ StageStops(p) /\ UNCHANGED moving /\ TestOnly

-----------------------------------------------------------------------------
(* The drive task: its queue and interrupt, and the calibrations it runs.   *)

CalibrationOnly == UNCHANGED <<uiVars, testStop, roomScanWanted, testVars>>
DriveOnly == CalibrationOnly /\ UNCHANGED <<activity, calStop, distanceRequest,
                                           distanceAt, events, uiEvents>>

\* Some procedure has a queue with the executor, or has just had one.
Driving == \/ \E p \in Completing : testAt[p] \in {"leg", "settle"}
           \/ distanceAt \in {"leg", "settle"}

\* Idle, the task takes its queue before a pending interrupt.  Calibrations and
\* movements that wait together are taken in any order; a second movement waits
\* behind the first only while a procedure drives.
TakeMovement ==
    /\ driveAt = "idle" /\ moving
    /\ driveAt' = "intent" /\ moving' \in {FALSE, Driving}
    /\ DriveOnly /\ UNCHANGED <<driveInbox, driveInterrupt>>

IntentEnds ==
    /\ driveAt = "intent" /\ driveAt' = "idle"
    /\ DriveOnly /\ UNCHANGED <<driveInbox, moving, driveInterrupt>>

\* handle_interrupt cancels the intent and drains the queue; an intent looks for
\* the interrupt first, the idle task only once its queue is empty.
HandleInterrupt ==
    /\ driveInterrupt
    /\ driveAt = "intent" \/ (driveAt = "idle" /\ driveInbox = <<>> /\ ~moving)
    /\ driveInterrupt' = FALSE /\ driveAt' = "idle"
    /\ driveInbox' = <<>> /\ moving' = FALSE
    /\ DriveOnly

\* The drive task takes the command and Lifecycle::start re-arms the latch.
RunInline ==
    /\ driveAt = "idle" /\ driveInbox # <<>>
    /\ driveAt' = Head(driveInbox) /\ driveInbox' = Tail(driveInbox)
    /\ calStop' = FALSE
    /\ activity' = Begin(driveAt')
    /\ CalibrationOnly
    /\ UNCHANGED <<moving, driveInterrupt, distanceRequest, distanceAt, events, uiEvents>>

InlinePhase ==
    /\ driveAt \in Inline /\ activity' = SetRunning
    /\ CalibrationOnly /\ UNCHANGED <<calStop, calVars, events, uiEvents>>

\* What a calibration that ends leaves alone.
EndsOnly == CalibrationOnly /\ UNCHANGED <<calStop, driveInbox, moving,
                driveInterrupt, distanceRequest, distanceAt, uiEvents>>

\* Lifecycle::abandon: the activity is cleared whoever it names.
InlineStops ==
    /\ driveAt \in Inline /\ calStop
    /\ driveAt' = "idle" /\ activity' = Idle
    /\ EndsOnly /\ UNCHANGED events

\* Lifecycle::complete and ::fail, the event OnBoth.  The motor calibration
\* looks for its stop after its last wait; the magnetometer's averages, save
\* and last waits are over a second long and end as they began.
InlineFinishes(outcome, next) ==
    /\ driveAt \in Inline /\ Len(events) < EventCap
    /\ driveAt = "MotorCalibration" => ~calStop
    /\ driveAt' = next /\ activity' = outcome
    /\ events' = Append(events, "CalibrationCompleted")
    /\ EndsOnly

\* Mutant: a calibration that has failed goes on.
InlineFailsOn == InlineFinishes(Failed, driveAt)

InlineFails == InlineFinishes(Failed, "idle")

\* Mutant: the family raises nothing on success.
InlineCompletesSilently ==
    /\ driveAt \in Inline
    /\ driveAt' = "idle" /\ activity' = Completed
    /\ EndsOnly /\ UNCHANGED events

\* The magnetometer calibration stays two seconds after it has completed.
InlineCompletes ==
    InlineFinishes(Completed,
                   IF driveAt = "MagCalibration" THEN "lingering" ELSE "idle")

Linger ==
    /\ driveAt = "lingering" /\ driveAt' = "idle"
    /\ DriveOnly /\ UNCHANGED <<driveInbox, moving, driveInterrupt>>

-----------------------------------------------------------------------------
(* The distance calibration, on a task of its own.                         *)

DistanceOnly == CalibrationOnly /\ UNCHANGED <<driveInbox, driveInterrupt, driveAt, events>>

TakeDistanceRequest ==
    /\ distanceRequest /\ distanceAt = "idle"
    /\ distanceRequest' = FALSE /\ distanceAt' = "countdown"
    /\ calStop' = FALSE
    /\ activity' = Begin("DistanceCalibration")
    /\ DistanceOnly /\ UNCHANGED <<moving, uiEvents>>

\* stopped(): abort and abandon, no event.
DistanceStopped ==
    /\ distanceAt' = "idle" /\ activity' = Idle
    /\ UNCHANGED <<calStop, moving, distanceRequest, uiEvents>>

DistanceFailed ==
    /\ Len(uiEvents) < EventCap
    /\ distanceAt' = "idle" /\ activity' = Failed
    /\ uiEvents' = Append(uiEvents, "DistanceDriveFinished")
    /\ UNCHANGED <<calStop, moving, distanceRequest>>

DistanceDrove ==
    /\ Len(uiEvents) < EventCap
    /\ distanceAt' = "idle" /\ activity' = SetRunning
    /\ uiEvents' = Append(uiEvents, "DistanceDriveFinished")
    /\ UNCHANGED <<calStop, moving, distanceRequest>>

\* On to the drive, whose queue is submitted, or to the brake and the settling.
DistanceAdvances(place) ==
    /\ distanceAt' = place /\ activity' = SetRunning /\ moving' = TRUE
    /\ UNCHANGED <<calStop, distanceRequest, uiEvents>>

DistanceCountdown ==
    /\ distanceAt = "countdown"
    /\ \/ calStop /\ DistanceStopped
       \/ ~calStop /\ (DistanceAdvances("leg") \/ DistanceFailed)
    /\ DistanceOnly

\* Success, Cancelled and Failed, as the queue answers.
DistanceLegEnds ==
    /\ distanceAt = "leg"
    /\ DistanceAdvances("settle") \/ DistanceStopped \/ DistanceFailed
    /\ DistanceOnly

DistanceSettles ==
    /\ distanceAt = "settle"
    /\ IF calStop THEN DistanceStopped ELSE DistanceDrove
    /\ DistanceOnly

-----------------------------------------------------------------------------
Gesture ==
    \/ PenUpElsewhere
    \/ \E i \in Submenu \cup {"SystemInfo", "AttemptStraight"} : OpenMenu(i)
    \/ EnterRoomScan
    \/ \E p \in Tests : StartTest(p) \/ RefuseTest(p)
    \/ \E p \in Inline : StartInline(p)
    \/ StartDistance \/ GoBack \/ LeaveValue \/ StopRunning

UiEvent == HandleTestingCompleted \/ HoldOrLeaveCalibration \/ EnterDistanceEntry
      \/ SendDistance

DistanceStep == TakeDistanceRequest \/ DistanceCountdown \/ DistanceLegEnds
                \/ DistanceSettles

Next ==
    \/ \E h \in HitTest : PenDown(h)
    \/ Gesture \/ Tick \/ UiEvent \/ Orchestrate \/ SpawnTest
    \/ \E p \in Completing : CountdownEnds(p) \/ LegEnds(p) \/ SettleEnds(p)
    \/ \E p \in Interactive : InteractivePhase(p) \/ InteractiveEnds(p)
    \/ TakeMovement \/ IntentEnds \/ HandleInterrupt
    \/ RunInline \/ InlinePhase \/ InlineStops \/ InlineCompletes
    \/ InlineFails \/ Linger
    \/ DistanceStep

Spec == Init /\ [][Next]_vars

-----------------------------------------------------------------------------
(* What the panel promises.                                                *)

\* A test is live from its start to its release of the slot.
Live(p) == testAt[p] # "off" \/ \E i \in DOMAIN testCommands : testCommands[i] = p

\* The single-active slot is held by exactly one test or by the Room Scan, and
\* the flag says so: two procedures never command the motors as tests at once,
\* and a test that ends never frees the slot under another holder.
SlotIsExclusive ==
    /\ testmodeActive <=> (roomScanWanted \/ \E p \in Tests : Live(p))
    /\ \A p, q \in Tests : Live(p) /\ Live(q) => p = q
    /\ roomScanWanted => \A p \in Tests : ~Live(p)
    /\ Len(testCommands) <= 1

\* The radar is only drawn by a screen that holds the slot and the sensor.
RadarHoldsSlot == screen = "RoomScan" => roomScanWanted

\* The controller's spawn finds the task's slot free, so its unwrap holds.
SpawnFindsFreeTask == testCommands # <<>> => testAt[Head(testCommands)] = "off"

\* Completions never fill the event channels, so no producer waits inside its
\* completion with the slot already released.
EventsFindRoom == Len(events) < EventCap /\ Len(uiEvents) < EventCap

\* A stop the operator gave a test stands until that test has ended: nothing
\* re-arms the latch under it.
StopStands == [][testStop /\ ~testStop' => \A p \in Tests : ~Live(p)]_vars

\* A finished calibration never looks hung (procedure/mod.rs:83): while the
\* activity says a calibration is complete, an event is on its way that makes
\* the UI leave the running screen, even when another procedure's late
\* completion wrote it.
CompletionIsAnnounced ==
    activity.stage = "Complete" /\ activity.of \in Calibrations =>
        \E q \in {events, uiEvents} : \E i \in DOMAIN q :
            q[i] \in {"TestingCompleted", "CalibrationCompleted"}

\* ui/mod.rs:613-615: setting every latch "leaves no running procedure
\* unstoppable": whatever runs and has not been stopped has its Stop on screen.
Unstopped ==
    \/ \E p \in Tests : Live(p) /\ ~testStop
    \/ (driveAt \in Inline \/ distanceAt # "idle") /\ ~calStop
RunningIsStoppable == Unstopped => screen = "Status"

\* ui/mod.rs:524: leave_room_scan is "called on every exit path", so the sensor
\* is wanted only while the radar is on screen.
SensorWantedOnlyByRadar == roomScanWanted => screen = "RoomScan"

=============
