------------------------------ MODULE LidarModes ------------------------------
(***************************************************************************)
(* The LiDAR task, and the two clients that ask it for the sensor: the     *)
(* coast-and-avoid drive mode and the panel's Room Scan screen.            *)
(*                                                                         *)
(* The LiDAR task runs on core1. Its clients run on core0: an action of    *)
(* theirs is what one task does between two awaits. Commands are one-way,  *)
(* readiness is polled from a status that may lag behind the queue.        *)
(***************************************************************************)
EXTENDS Integers, Sequences

CONSTANTS CommandCap,       \* capacity of the LiDAR's command channel
          BringupAttempts   \* BRINGUP_ATTEMPTS: power cycles per bring-up

ASSUME LidarAssumption ==
    /\ CommandCap \in Nat \ {0}
    /\ BringupAttempts \in Nat \ {0}

Clients == {"coast", "room"}
Commands == {"Enable", "Disable"}

VARIABLES
    lidar,          \* where lidar_task is
    attempt,        \* the bring-up attempt under way
    powered,        \* LIDAR_PWR
    status,         \* LIDAR_STATUS
    cloud,          \* a point cloud is published
    obstacle,       \* LIDAR_OBSTACLE
    commands,       \* COMMAND
    client,         \* per client: where its enable() or its wait is
    coastRequest,   \* COAST_AVOID_REQUEST holds a request
    stopRequested,  \* STOP_REQUESTED
    active,         \* ACTIVE
    autonomous,     \* AUTONOMOUS_MODE_ACTIVE
    spawnQueued,    \* AUTONOMOUS_MODE_COMMAND holds the mode
    coastTask,      \* where coast_obstacle_avoid_task is
    coastState,     \* the state its loop enters next
    driving,        \* the mode has the tracks turning
    roomWanted,     \* ROOM_SCAN_WANTED
    roomSignal,     \* ROOM_SCAN_SIGNAL
    panel,          \* the screen the operator sees
    failure         \* the running screen shows why the mode did not start

sensorVars == <<lidar, attempt, powered, status, cloud, obstacle>>
modeVars == <<active, autonomous, spawnQueued, coastTask, coastState, driving>>
panelVars == <<coastRequest, stopRequested, roomWanted, roomSignal, panel, failure>>
vars == <<sensorVars, commands, client, modeVars, panelVars>>

Init ==
    /\ lidar = "idle"
    /\ attempt = 1
    /\ powered = FALSE
    /\ status = "Off"
    /\ cloud = FALSE
    /\ obstacle = FALSE
    /\ commands = <<>>
    /\ client = [c \in Clients |-> "idle"]
    /\ coastRequest = FALSE
    /\ stopRequested = FALSE
    /\ active = FALSE
    /\ autonomous = FALSE
    /\ spawnQueued = FALSE
    /\ coastTask = "none"
    /\ coastState = "forward"
    /\ driving = FALSE
    /\ roomWanted = FALSE
    /\ roomSignal = FALSE
    /\ panel = "menu"
    /\ failure = FALSE

-----------------------------------------------------------------------------
(* The LiDAR task *)

UnchangedClients == UNCHANGED <<client, modeVars, panelVars>>

Receive(command) ==
    /\ commands # <<>>
    /\ Head(commands) = command
    /\ commands' = Tail(commands)

\* Off: a Disable is inert.
TakeWhileOff ==
    /\ lidar = "idle"
    /\ \/ Receive("Enable") /\ lidar' = "starting"
       \/ Receive("Disable") /\ UNCHANGED lidar
    /\ UNCHANGED <<attempt, powered, status, cloud, obstacle>>
    /\ UnchangedClients

StartBringUp ==
    /\ lidar = "starting"
    /\ lidar' = "powering"
    /\ status' = "Warming"
    /\ attempt' = 1
    /\ UNCHANGED <<powered, cloud, obstacle, commands>>
    /\ UnchangedClients

PowerUp ==
    /\ lidar = "powering"
    /\ lidar' = "warming"
    /\ powered' = TRUE
    /\ UNCHANGED <<attempt, status, cloud, obstacle, commands>>
    /\ UnchangedClients

WarmUpSucceeds ==
    /\ lidar = "warming"
    /\ lidar' = "polling"
    /\ status' = "Streaming"
    /\ UNCHANGED <<attempt, powered, cloud, obstacle, commands>>
    /\ UnchangedClients

\* The attempt fails or times out: the branch is powered down, then tried again.
WarmUpFails ==
    /\ lidar = "warming"
    /\ powered' = FALSE
    /\ IF attempt < BringupAttempts
       THEN /\ lidar' = "powering"
            /\ attempt' = attempt + 1
            /\ UNCHANGED status
       ELSE /\ lidar' = "failing"
            /\ status' = "Failed"
            /\ UNCHANGED attempt
    /\ UNCHANGED <<cloud, obstacle, commands>>
    /\ UnchangedClients

\* Mutant: the point cloud goes, the obstacle flag stays.
ClearCloudOnly ==
    /\ cloud' = FALSE
    /\ UNCHANGED obstacle

ClearStaleState ==
    /\ cloud' = FALSE
    /\ obstacle' = FALSE

ClearAfterFailure ==
    /\ lidar = "failing"
    /\ lidar' = "holding"
    /\ ClearStaleState
    /\ UNCHANGED <<attempt, powered, status, commands>>
    /\ UnchangedClients

\* Failed: an Enable is swallowed, a Disable releases the latch.
TakeWhileFailed ==
    /\ lidar = "holding"
    /\ \/ Receive("Enable") /\ UNCHANGED <<lidar, status>>
       \/ Receive("Disable") /\ lidar' = "idle" /\ status' = "Off"
    /\ UNCHANGED <<attempt, powered, cloud, obstacle>>
    /\ UnchangedClients

\* Commands are looked at between revolutions only; a second Enable is inert.
TakeWhileStreaming ==
    /\ lidar = "polling"
    /\ \/ Receive("Enable") /\ UNCHANGED lidar
       \/ Receive("Disable") /\ lidar' = "closing"
    /\ UNCHANGED <<attempt, powered, status, cloud, obstacle>>
    /\ UnchangedClients

ReadBegins ==
    /\ lidar = "polling"
    /\ commands = <<>>
    /\ lidar' = "reading"
    /\ UNCHANGED <<attempt, powered, status, cloud, obstacle, commands>>
    /\ UnchangedClients

PublishScan ==
    /\ lidar = "reading"
    /\ lidar' = "polling"
    /\ cloud' = TRUE
    /\ obstacle' \in BOOLEAN
    /\ UNCHANGED <<attempt, powered, status, commands>>
    /\ UnchangedClients

\* A read error or two seconds of silence: power down and bring up again. What was
\* published stays.
ReadFails ==
    /\ lidar = "reading"
    /\ lidar' = "starting"
    /\ powered' = FALSE
    /\ UNCHANGED <<attempt, status, cloud, obstacle, commands>>
    /\ UnchangedClients

PowerDown ==
    /\ lidar = "closing"
    /\ lidar' = "clearing"
    /\ powered' = FALSE
    /\ UNCHANGED <<attempt, status, cloud, obstacle, commands>>
    /\ UnchangedClients

ClearAfterDisable ==
    /\ lidar = "clearing"
    /\ lidar' = "idle"
    /\ ClearStaleState
    /\ status' = "Off"
    /\ UNCHANGED <<attempt, powered, commands>>
    /\ UnchangedClients

LidarNext ==
    \/ TakeWhileOff \/ StartBringUp \/ PowerUp \/ WarmUpSucceeds \/ WarmUpFails
    \/ ClearAfterFailure \/ TakeWhileFailed
    \/ TakeWhileStreaming \/ ReadBegins \/ PublishScan \/ ReadFails
    \/ PowerDown \/ ClearAfterDisable

-----------------------------------------------------------------------------
(* The clients' side: enable, disable *)

Send(command) ==
    /\ Len(commands) < CommandCap
    /\ commands' = Append(commands, command)

\* enable: a latched failure is released before the Enable is sent.
EnableResets(c) ==
    /\ client[c] = "enabling"
    /\ status = "Failed"
    /\ Send("Disable")
    /\ client' = [client EXCEPT ![c] = "resetting"]
    /\ UNCHANGED <<sensorVars, modeVars, panelVars>>

EnableSends(c) ==
    /\ client[c] \in {"enabling", "resetting"}
    /\ status # "Failed"
    /\ Send("Enable")
    /\ client' = [client EXCEPT ![c] = IF c = "coast" THEN "polling" ELSE "idle"]
    /\ UNCHANGED <<sensorVars, modeVars, panelVars>>

\* The Room Scan task converges on the screen's latest intent.
RoomScanActs ==
    /\ client["room"] = "idle"
    /\ roomSignal
    /\ roomSignal' = FALSE
    /\ IF roomWanted
       THEN client' = [client EXCEPT !["room"] = "enabling"] /\ UNCHANGED commands
       ELSE Send("Disable") /\ UNCHANGED client
    /\ UNCHANGED <<sensorVars, modeVars, coastRequest, stopRequested, roomWanted, panel, failure>>

-----------------------------------------------------------------------------
(* Coast-and-avoid: start *)

StartBegins ==
    /\ client["coast"] = "idle"
    /\ coastRequest
    /\ coastRequest' = FALSE
    /\ stopRequested' = FALSE
    /\ client' = [client EXCEPT !["coast"] = "enabling"]
    /\ UNCHANGED <<sensorVars, commands, modeVars, roomWanted, roomSignal, panel, failure>>

\* Mutant: an abandoned start leaves the sensor enabled.
KeepEnabled == UNCHANGED commands

DisableSensor == Send("Disable")

\* The helper records the reason while the screen still is the mode's.
RecordFailure == failure' = (panel = "coast")

StartCancelled ==
    /\ client["coast"] = "polling"
    /\ stopRequested
    /\ DisableSensor
    /\ client' = [client EXCEPT !["coast"] = "idle"]
    /\ RecordFailure
    /\ UNCHANGED <<sensorVars, modeVars, coastRequest, stopRequested, roomWanted, roomSignal, panel>>

StartRefused ==
    /\ client["coast"] = "polling"
    /\ ~stopRequested
    /\ status = "Failed"
    /\ DisableSensor
    /\ client' = [client EXCEPT !["coast"] = "idle"]
    /\ RecordFailure
    /\ UNCHANGED <<sensorVars, modeVars, coastRequest, stopRequested, roomWanted, roomSignal, panel>>

\* Mutant: the mode is requested without looking at the slot.
SlotIgnored == TRUE

\* request_start claims the autonomous mode's slot.
SlotFree == ~autonomous

StartAccepted ==
    /\ client["coast"] = "polling"
    /\ ~stopRequested
    /\ status = "Streaming"
    /\ SlotFree
    /\ active' = TRUE
    /\ autonomous' = TRUE
    /\ spawnQueued' = TRUE
    /\ client' = [client EXCEPT !["coast"] = "idle"]
    /\ UNCHANGED <<sensorVars, commands, coastTask, coastState, driving, panelVars>>

\* The slot is taken: ACTIVE is raised and cleared with no await in between.
StartBusy ==
    /\ client["coast"] = "polling"
    /\ ~stopRequested
    /\ status = "Streaming"
    /\ ~SlotFree
    /\ active' = FALSE
    /\ DisableSensor
    /\ client' = [client EXCEPT !["coast"] = "idle"]
    /\ RecordFailure
    /\ UNCHANGED <<sensorVars, autonomous, spawnQueued, coastTask, coastState, driving,
                   coastRequest, stopRequested, roomWanted, roomSignal, panel>>

-----------------------------------------------------------------------------
(* Coast-and-avoid: the mode's task *)

UnchangedOthers == UNCHANGED <<sensorVars, client, panelVars>>

Spawn ==
    /\ spawnQueued
    /\ coastTask = "none"
    /\ spawnQueued' = FALSE
    /\ coastTask' = "loop"
    /\ coastState' = "forward"
    /\ driving' = FALSE
    /\ UNCHANGED <<commands, active, autonomous>>
    /\ UnchangedOthers

\* One turn of the loop: the state's SetTracks.
EnterState ==
    /\ coastTask = "loop"
    /\ active
    /\ coastTask' = coastState
    /\ driving' = TRUE
    /\ UNCHANGED <<commands, active, autonomous, spawnQueued, coastState>>
    /\ UnchangedOthers

LeaveState(next, moving) ==
    /\ coastTask' = "loop"
    /\ coastState' = next
    /\ driving' = moving
    /\ UNCHANGED <<commands, active, autonomous, spawnQueued>>
    /\ UnchangedOthers

\* An early return leaves the tracks turning; the loop ends next and brakes.
StateAbandoned ==
    /\ coastTask \in {"forward", "backing", "turning"}
    /\ ~active
    /\ LeaveState("forward", driving)

\* Mutant: only the floor-drop sensors are looked at.
FloorDropOnly(floorDrop) == floorDrop

AheadBlocked(floorDrop) == obstacle \/ floorDrop

\* Brake on an obstacle the LiDAR flags, or on a floor drop.
ForwardEnds(floorDrop) ==
    /\ coastTask = "forward"
    /\ active
    /\ AheadBlocked(floorDrop)
    /\ LeaveState("backing", FALSE)

BackingEnds ==
    /\ coastTask = "backing"
    /\ active
    /\ LeaveState("turning", FALSE)

TurningEnds ==
    /\ coastTask = "turning"
    /\ active
    /\ LeaveState("forward", FALSE)

\* Mutant: the tracks are left as the state left them.
KeepTracks == driving

TracksAfterLoop == FALSE

LoopEnds ==
    /\ coastTask = "loop"
    /\ ~active
    /\ coastTask' = "stopping"
    /\ driving' = TracksAfterLoop
    /\ UNCHANGED <<commands, active, autonomous, spawnQueued, coastState>>
    /\ UnchangedOthers

CoastEnds ==
    /\ coastTask = "stopping"
    /\ DisableSensor
    /\ autonomous' = FALSE
    /\ coastTask' = "none"
    /\ UNCHANGED <<active, spawnQueued, coastState, driving>>
    /\ UnchangedOthers

-----------------------------------------------------------------------------
(* The panel *)

\* A finger takes longer to come back to the mode than the helper of the last start
\* needs to end it: 50 ms until it looks at its stop latch again.
HelperIsBack == ~coastRequest /\ client["coast"] = "idle"

TapCoast ==
    /\ panel = "menu"
    /\ HelperIsBack
    /\ panel' = "coast"
    /\ coastRequest' = TRUE
    /\ failure' = FALSE
    /\ UNCHANGED <<sensorVars, commands, client, modeVars, stopRequested, roomWanted, roomSignal>>

\* The Stop may meet the helper anywhere in start, but not before the request has
\* woken it.
StopCoast ==
    /\ panel = "coast"
    /\ ~failure
    /\ ~coastRequest
    /\ panel' = "menu"
    /\ active' = FALSE
    /\ stopRequested' = TRUE
    /\ UNCHANGED <<sensorVars, commands, client, autonomous, spawnQueued, coastTask, coastState,
                   driving, coastRequest, roomWanted, roomSignal, failure>>

DismissFailure ==
    /\ panel = "coast"
    /\ failure
    /\ panel' = "menu"
    /\ failure' = FALSE
    /\ UNCHANGED <<sensorVars, commands, client, modeVars, coastRequest, stopRequested,
                   roomWanted, roomSignal>>

EnterRoomScan ==
    /\ panel = "menu"
    /\ panel' = "roomscan"
    /\ roomWanted' = TRUE
    /\ roomSignal' = TRUE
    /\ UNCHANGED <<sensorVars, commands, client, modeVars, coastRequest, stopRequested, failure>>

LeaveRoomScan ==
    /\ panel = "roomscan"
    /\ panel' = "menu"
    /\ roomWanted' = FALSE
    /\ roomSignal' = TRUE
    /\ UNCHANGED <<sensorVars, commands, client, modeVars, coastRequest, stopRequested, failure>>

-----------------------------------------------------------------------------
RoomScanNext == EnableResets("room") \/ EnableSends("room") \/ RoomScanActs
StartNext ==
    \/ EnableResets("coast") \/ EnableSends("coast") \/ StartBegins
    \/ StartCancelled \/ StartRefused \/ StartAccepted \/ StartBusy
CoastNext ==
    \/ Spawn \/ EnterState \/ StateAbandoned \/ ForwardEnds(FALSE)
    \/ BackingEnds \/ TurningEnds \/ LoopEnds \/ CoastEnds
PanelNext == TapCoast \/ StopCoast \/ DismissFailure \/ EnterRoomScan \/ LeaveRoomScan

Next == LidarNext \/ RoomScanNext \/ StartNext \/ CoastNext \/ ForwardEnds(TRUE) \/ PanelNext

Spec == Init /\ [][Next]_vars

\* Both cores run their tasks; a floor drop or a tap never has to come.
FairSpec ==
    /\ Spec
    /\ WF_vars(LidarNext)
    /\ WF_vars(RoomScanNext)
    /\ WF_vars(StartNext)
    /\ WF_vars(CoastNext)

-----------------------------------------------------------------------------
(* Properties *)

\* The range of every variable.
TypeOK ==
    /\ lidar \in {"idle", "starting", "powering", "warming", "failing", "holding",
                  "polling", "reading", "closing", "clearing"}
    /\ attempt \in 1..BringupAttempts
    /\ powered \in BOOLEAN
    /\ status \in {"Off", "Warming", "Streaming", "Failed"}
    /\ cloud \in BOOLEAN
    /\ obstacle \in BOOLEAN
    /\ commands \in Seq(Commands) /\ Len(commands) <= CommandCap
    /\ client \in [Clients -> {"idle", "enabling", "resetting", "polling"}]
    /\ coastRequest \in BOOLEAN
    /\ stopRequested \in BOOLEAN
    /\ active \in BOOLEAN
    /\ autonomous \in BOOLEAN
    /\ spawnQueued \in BOOLEAN
    /\ coastTask \in {"none", "loop", "forward", "backing", "turning", "stopping"}
    /\ coastState \in {"forward", "backing", "turning"}
    /\ driving \in BOOLEAN
    /\ roomWanted \in BOOLEAN
    /\ roomSignal \in BOOLEAN
    /\ panel \in {"menu", "coast", "roomscan"}
    /\ failure \in BOOLEAN

\* A sensor reported off, or held as failed, is unpowered and has left neither a
\* point cloud nor an obstacle behind, by whatever path it got there.
NothingStaleWhenOff ==
    status = "Off" \/ lidar = "holding" => ~powered /\ ~cloud /\ ~obstacle

\* The mode's task is spawned only when its one slot in the task pool is free: the
\* spawn would panic otherwise, however quickly a stop is followed by a start.
SpawnFindsFreeSlot ==
    spawnQueued => coastTask = "none"

\* Tracks turn only while the mode's task runs: every early return, stop and
\* refused start ends with the tracks braked.
TracksTurnOnlyInMode ==
    driving => autonomous /\ coastTask \notin {"none", "stopping"}

\* A stop ends the motion, at whatever point of the start or of the mode it comes
\* and whatever is tapped next.
StopEndsMotion == ~active ~> ~driving

\* Back in the menu for good, the sensor is switched off in the end: no command
\* order leaves it running for nobody.
SensorReleased == <>[](panel = "menu") => <>[]~powered

\* Coasting forward ends when the LiDAR goes on flagging an obstacle.
ObstacleHeeded == coastTask = "forward" /\ obstacle ~> coastTask # "forward" \/ ~obstacle

-----------------------------------------------------------------------------
(* What comments say and the code does not do *)

\* coast_obstacle_avoid.rs: "the mode never drives while the sensor is still
\* warming or unavailable".
DrivesOnlyWhileStreaming == driving => status = "Streaming"

=============================================================================
