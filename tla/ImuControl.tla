----------------------------- MODULE ImuControl -----------------------------
(***************************************************************************)
(* The IMU task, the single-slot signal that commands it, the readiness    *)
(* flag and the feedback channel through which it talks to the drive task, *)
(* and the procedures that command it one after the other.                 *)
(*                                                                         *)
(* All of them run on one cooperative executor: an action of a procedure   *)
(* is what it does between two awaits, so two signals sent without an      *)
(* await in between leave only the second in the slot.                     *)
(***************************************************************************)
EXTENDS Integers, Sequences

CONSTANTS FeedbackCap,      \* capacity of the IMU feedback channel
          MaxFifoFailures   \* consecutive FIFO errors that end the IMU task

ASSUME ImuAssumption ==
    /\ FeedbackCap \in Nat \ {0}
    /\ MaxFifoFailures \in Nat \ {0}

FusionModes == {"axis6", "axis9"}
DefaultMode == "axis6"

Start == [kind |-> "start"]
Stop == [kind |-> "stop"]
SetFusionMode(mode) == [kind |-> "set_mode", mode |-> mode]
ImuCommands == {Start, Stop} \cup {SetFusionMode(mode) : mode \in FusionModes}

NoCommand == [kind |-> "none"]
NoSample == "none"

\* A queued measurement is "current" while it shows the heading the robot has
\* now in the frame the DMP measures in now, and "outdated" once the stream was
\* restarted, switched to another fusion mode, or the robot was carried about.
Samples == {"current", "outdated"}

VARIABLES
    imuTask,        \* where the IMU task is
    fusionMode,     \* fusion_mode, its own variable
    targetMode,     \* new_mode, while a switch is under way
    dmp,            \* what the sensor's motion processor runs: "off" or a mode
    fifoFailures,   \* fifo_failures
    magAvailable,   \* MAG_AVAILABLE
    imuReady,       \* IMU_READY
    imuControl,     \* IMU_CONTROL: the latest command not yet taken
    feedback,       \* IMU_FEEDBACK_CHANNEL
    procedure,      \* where the running procedure is
    movement,       \* the movement it dispatched last
    heading,        \* the last measurement it took, since the movement began
    faulted         \* history: the sensor failed and IMU_READY was not cleared

sensorVars == <<imuTask, fusionMode, targetMode, dmp, fifoFailures, magAvailable>>
clientVars == <<procedure, movement, heading>>
vars == <<sensorVars, clientVars, imuReady, imuControl, feedback, faulted>>

TaskStates == {"boot", "standby", "starting", "streaming", "reading",
               "switching", "restoring", "ended"}
Running == {"streaming", "reading", "switching", "restoring"}
Procedures == {"menu", "between", "waiting", "stabilising", "sensors", "moving",
               "countdown", "test", "streaming_test", "calibrating", "closing"}
Movements == {"rotate", "distance"}

Outdated(channel) == [i \in DOMAIN channel |-> "outdated"]
Newest(channel) == IF channel = <<>> THEN NoSample ELSE channel[Len(channel)]

Init ==
    /\ imuTask = "boot"
    /\ fusionMode = DefaultMode
    /\ targetMode = DefaultMode
    /\ dmp = "off"
    /\ fifoFailures = 0
    /\ magAvailable = FALSE
    /\ imuReady = FALSE
    /\ imuControl = NoCommand
    /\ feedback = <<>>
    /\ procedure = "menu"
    /\ movement = "rotate"
    /\ heading = NoSample
    /\ faulted = FALSE

-----------------------------------------------------------------------------
(* The IMU task *)

EffectiveMode(requested, mag) ==
    IF requested = "axis9" /\ ~mag THEN "axis6" ELSE requested

\* The sensor and the DMP come up, with or without a magnetometer.
BootSucceeds ==
    /\ imuTask = "boot"
    /\ imuTask' = "standby"
    /\ magAvailable' \in BOOLEAN
    /\ UNCHANGED <<fusionMode, targetMode, dmp, fifoFailures, imuReady, imuControl,
                   feedback, clientVars, faulted>>

\* Initialisation gives up, or the DMP firmware cannot be loaded.
BootFails ==
    /\ imuTask = "boot"
    /\ imuTask' = "ended"
    /\ UNCHANGED <<fusionMode, targetMode, dmp, fifoFailures, magAvailable, imuReady,
                   imuControl, feedback, clientVars, faulted>>

\* Mutant: the flag survives the stop.
ClearNothing == /\ imuReady' = imuReady
                /\ faulted' = FALSE

ClearReady == /\ imuReady' = FALSE
              /\ faulted' = FALSE

TakeInStandby ==
    /\ imuTask = "standby"
    /\ imuControl # NoCommand
    /\ imuControl' = NoCommand
    /\ \/ /\ imuControl = Start
          /\ imuTask' = "starting"
          /\ UNCHANGED <<fusionMode, imuReady, faulted>>
       \/ /\ imuControl = Stop
          /\ ClearReady
          /\ UNCHANGED <<imuTask, fusionMode>>
       \/ /\ imuControl.kind = "set_mode"
          /\ fusionMode' = EffectiveMode(imuControl.mode, magAvailable)
          /\ UNCHANGED <<imuTask, imuReady, faulted>>
    /\ UNCHANGED <<targetMode, dmp, fifoFailures, magAvailable, feedback, clientVars>>

\* apply_dmp_config succeeds: the DMP streams anew in the given mode.
Streams(mode) ==
    /\ imuTask' = "streaming"
    /\ dmp' = mode
    /\ fifoFailures' = 0
    /\ feedback' = Outdated(feedback)
    /\ heading' = IF heading = NoSample THEN NoSample ELSE "outdated"

StartResolves ==
    /\ imuTask = "starting"
    /\ \/ Streams(fusionMode)
       \/ /\ imuTask' = "standby"
          /\ UNCHANGED <<dmp, fifoFailures, feedback, heading>>
    /\ UNCHANGED <<fusionMode, targetMode, magAvailable, imuReady, imuControl,
                   procedure, movement, faulted>>

TakeWhileStreaming ==
    /\ imuTask = "streaming"
    /\ imuControl # NoCommand
    /\ imuControl' = NoCommand
    /\ \/ /\ imuControl = Stop
          /\ imuTask' = "standby"
          /\ dmp' = "off"
          /\ ClearReady
          /\ UNCHANGED targetMode
       \/ /\ imuControl.kind = "set_mode"
          /\ targetMode' = EffectiveMode(imuControl.mode, magAvailable)
          /\ IF targetMode' = fusionMode
             THEN UNCHANGED <<imuTask, dmp>>
             ELSE imuTask' = "switching" /\ dmp' = "off"
          /\ UNCHANGED <<imuReady, faulted>>
       \/ /\ imuControl = Start
          /\ UNCHANGED <<imuTask, targetMode, dmp, imuReady, faulted>>
    /\ UNCHANGED <<fusionMode, fifoFailures, magAvailable, feedback, clientVars>>

\* fusion_mode is assigned only after the new configuration was accepted.
SwitchResolves ==
    /\ imuTask = "switching"
    /\ \/ /\ Streams(targetMode)
          /\ fusionMode' = targetMode
       \/ /\ imuTask' = "restoring"
          /\ UNCHANGED <<fusionMode, dmp, fifoFailures, feedback, heading>>
    /\ UNCHANGED <<targetMode, magAvailable, imuReady, imuControl,
                   procedure, movement, faulted>>

\* A restore that fails leaves IMU_READY as it was.
\* Mutant: the configuration that was just refused is built again.
RestoreNewMode == targetMode

RestoredMode == fusionMode

RestoreResolves ==
    /\ imuTask = "restoring"
    /\ \/ /\ Streams(RestoredMode)
          /\ UNCHANGED faulted
       \/ /\ imuTask' = "standby"
          /\ faulted' = imuReady
          /\ UNCHANGED <<dmp, fifoFailures, feedback, heading>>
    /\ UNCHANGED <<fusionMode, targetMode, magAvailable, imuReady, imuControl,
                   procedure, movement>>

\* Mutant: the select polls the timer first.
TimerFirst == TRUE

\* The select looks at the signal first: the FIFO is polled only without one.
SignalFirst == imuControl = NoCommand

PollFifo ==
    /\ imuTask = "streaming"
    /\ SignalFirst
    /\ imuTask' = "reading"
    /\ UNCHANGED <<fusionMode, targetMode, dmp, fifoFailures, magAvailable, imuReady,
                   imuControl, feedback, clientVars, faulted>>

\* Mutant: the channel grows instead of dropping.
\* try_send_imu_measurement: a full channel keeps what it has and drops the new one.
Offer(channel) == IF Len(channel) < FeedbackCap THEN Append(channel, "current") ELSE channel

ReadSample ==
    /\ imuTask = "reading"
    /\ imuTask' = "streaming"
    /\ fifoFailures' = 0
    /\ feedback' = Offer(feedback)
    /\ imuReady' = TRUE
    /\ faulted' = FALSE
    /\ UNCHANGED <<fusionMode, targetMode, dmp, magAvailable, imuControl, clientVars>>

\* The FIFO is empty, or its packet holds no quaternion yet.
ReadNothing ==
    /\ imuTask = "reading"
    /\ imuTask' = "streaming"
    /\ fifoFailures' \in {0, fifoFailures}
    /\ UNCHANGED <<fusionMode, targetMode, dmp, magAvailable, imuReady, imuControl,
                   feedback, clientVars, faulted>>

ReadFails ==
    /\ imuTask = "reading"
    /\ fifoFailures' = fifoFailures + 1
    /\ IF fifoFailures' >= MaxFifoFailures
       THEN imuTask' = "ended" /\ faulted' = imuReady
       ELSE imuTask' = "streaming" /\ UNCHANGED faulted
    /\ UNCHANGED <<fusionMode, targetMode, dmp, magAvailable, imuReady, imuControl,
                   feedback, clientVars>>

-----------------------------------------------------------------------------
(* A movement: the dispatch gate, its start, its control steps, its teardown *)

UnchangedSensor == UNCHANGED <<sensorVars, imuReady, faulted>>

\* start_distance_imu: SetFusionMode and Start with no await in between.
StartDistanceImu == imuControl' = Start

\* Mutant: the measurement the gate took serves as the first reference.
GateHeading == heading

\* A movement begins without a reference.
StartHeading == NoSample

\* What the handlers do after the gate has let the movement through, with the
\* channel as the gate left it.
Launch(kind, channel) ==
    /\ movement' = kind
    /\ heading' = StartHeading
    /\ imuControl' = Start
    /\ \/ /\ kind = "rotate"
          /\ procedure' = "moving"
          /\ feedback' = <<>>
       \/ /\ kind = "distance"
          /\ procedure' = "sensors"
          /\ feedback' = channel

\* The gate finds IMU_READY set and lets the movement through at once.
DispatchReady(kind) ==
    /\ procedure = "between"
    /\ imuReady
    /\ Launch(kind, feedback)
    /\ UnchangedSensor

DispatchNotReady(kind) ==
    /\ procedure = "between"
    /\ ~imuReady
    /\ movement' = kind
    /\ heading' = NoSample
    /\ StartDistanceImu
    /\ procedure' = "waiting"
    /\ UNCHANGED feedback
    /\ UnchangedSensor

GateTakesSample ==
    /\ procedure = "waiting"
    /\ feedback # <<>>
    /\ heading' = Newest(feedback)
    /\ feedback' = <<>>
    /\ procedure' = "stabilising"
    /\ UNCHANGED <<movement, imuControl>>
    /\ UnchangedSensor

GateTimesOut ==
    /\ procedure = "waiting"
    /\ feedback = <<>>
    /\ imuControl' = Stop
    /\ procedure' = "between"
    /\ UNCHANGED <<movement, heading, feedback>>
    /\ UnchangedSensor

\* After the stabilisation wait the gate empties the channel once more.
AfterStabilising == <<>>

GateOpens ==
    /\ procedure = "stabilising"
    /\ Launch(movement, AfterStabilising)
    /\ UnchangedSensor

\* The distance drive takes its reference yaw, or starts without one after 50 ms.
CaptureReference ==
    /\ procedure = "sensors"
    /\ heading' = Newest(feedback)
    /\ feedback' = <<>>
    /\ procedure' = "moving"
    /\ UNCHANGED <<movement, imuControl>>
    /\ UnchangedSensor

\* A control step drains the channel; the first sample is the reference.
ControlStep ==
    /\ procedure = "moving"
    /\ feedback # <<>>
    /\ heading' = IF heading = NoSample THEN Newest(feedback) ELSE heading
    /\ feedback' = <<>>
    /\ UNCHANGED <<procedure, movement, imuControl>>
    /\ UnchangedSensor

\* Mutant: the default mode is restored after the stop.
TeardownRestoresMode == SetFusionMode(DefaultMode)

TeardownSignal == Stop

\* The movement completes, fails or is interrupted.
Teardown ==
    /\ procedure = "moving"
    /\ imuControl' = TeardownSignal
    /\ procedure' = "between"
    /\ UNCHANGED <<movement, heading, feedback>>
    /\ UnchangedSensor

-----------------------------------------------------------------------------
(* Procedures *)

\* Turns, straight drive and arc drive ask for six axes before they move; distance
\* calibration and coast-and-avoid move with the mode they find.
StartDriveTest ==
    /\ procedure = "menu"
    /\ procedure' = "countdown"
    /\ imuControl' = SetFusionMode("axis6")
    /\ UNCHANGED <<movement, heading, feedback>>
    /\ UnchangedSensor

\* The seconds of a countdown or of the menu are ample for the IMU task to take
\* the command, if it still takes any.
CommandSettled == imuControl = NoCommand \/ imuTask \in {"boot", "ended"}

CountdownEnds ==
    /\ procedure = "countdown"
    /\ CommandSettled
    /\ procedure' = "between"
    /\ UNCHANGED <<movement, heading, imuControl, feedback>>
    /\ UnchangedSensor

StartOtherProcedure ==
    /\ procedure = "menu"
    /\ procedure' = "between"
    /\ UNCHANGED <<movement, heading, imuControl, feedback>>
    /\ UnchangedSensor

\* The next procedure starts through the menu.
EndProcedure ==
    /\ procedure \in {"between", "closing"}
    /\ CommandSettled
    /\ procedure' = "menu"
    /\ UNCHANGED <<movement, heading, imuControl, feedback>>
    /\ UnchangedSensor

\* Between procedures the robot may be picked up and turned.
CarriedByHand ==
    /\ procedure = "menu"
    /\ feedback' = Outdated(feedback)
    /\ feedback' # feedback
    /\ UNCHANGED <<clientVars, imuControl>>
    /\ UnchangedSensor

StartImuTest ==
    /\ procedure = "menu"
    /\ procedure' = "test"
    /\ imuControl' = Start
    /\ UNCHANGED <<movement, heading, feedback>>
    /\ UnchangedSensor

SetTestMode(mode) ==
    /\ procedure = "test"
    /\ procedure' = "streaming_test"
    /\ imuControl' = SetFusionMode(mode)
    /\ UNCHANGED <<movement, heading, feedback>>
    /\ UnchangedSensor

EndImuTest ==
    /\ procedure = "streaming_test"
    /\ procedure' = "closing"
    /\ imuControl' = Stop
    /\ UNCHANGED <<movement, heading, feedback>>
    /\ UnchangedSensor

\* ImuReadingsGuard: Start and SetFusionMode with no await in between.
StartMagCalibration ==
    /\ procedure = "menu"
    /\ procedure' = "calibrating"
    /\ imuControl' = SetFusionMode("axis9")
    /\ UNCHANGED <<movement, heading, feedback>>
    /\ UnchangedSensor

\* Without readings no rotation phase completes and the calibration is given up
\* (LoadCalibration, sent at its successful end, is therefore no command here).
\* The guard is dropped: SetFusionMode and Stop with no await in between.
EndMagCalibration ==
    /\ procedure = "calibrating"
    /\ procedure' = "closing"
    /\ imuControl' = Stop
    /\ UNCHANGED <<movement, heading, feedback>>
    /\ UnchangedSensor

-----------------------------------------------------------------------------
ImuTaskNext ==
    \/ BootSucceeds \/ BootFails
    \/ TakeInStandby \/ StartResolves
    \/ TakeWhileStreaming \/ SwitchResolves \/ RestoreResolves
    \/ PollFifo \/ ReadSample \/ ReadNothing \/ ReadFails

MovementNext ==
    \/ \E kind \in Movements : DispatchReady(kind) \/ DispatchNotReady(kind)
    \/ GateTakesSample \/ GateTimesOut \/ GateOpens
    \/ CaptureReference \/ ControlStep \/ Teardown

ProcedureNext ==
    \/ StartDriveTest \/ CountdownEnds \/ StartOtherProcedure \/ EndProcedure \/ CarriedByHand
    \/ StartImuTest \/ (\E mode \in FusionModes : SetTestMode(mode)) \/ EndImuTest
    \/ StartMagCalibration \/ EndMagCalibration

Next == ImuTaskNext \/ MovementNext \/ ProcedureNext

Spec == Init /\ [][Next]_vars

\* The executor runs the IMU task whenever it can take a step.
FairSpec == Spec /\ WF_vars(ImuTaskNext)

-----------------------------------------------------------------------------
(* Properties *)

\* The range of every variable.
TypeOK ==
    /\ imuTask \in TaskStates
    /\ fusionMode \in FusionModes
    /\ targetMode \in FusionModes
    /\ dmp \in FusionModes \cup {"off"}
    /\ fifoFailures \in 0..MaxFifoFailures
    /\ magAvailable \in BOOLEAN
    /\ imuReady \in BOOLEAN
    /\ imuControl \in ImuCommands \cup {NoCommand}
    /\ feedback \in Seq(Samples) /\ Len(feedback) <= FeedbackCap
    /\ procedure \in Procedures
    /\ movement \in Movements
    /\ heading \in Samples \cup {NoSample}
    /\ faulted \in BOOLEAN

\* While the IMU task samples, the DMP runs the mode the task believes it runs,
\* whatever commands, failed switches and restores came before.
StreamsTheModeItKeeps ==
    imuTask \in {"streaming", "reading"} => dmp = fusionMode

\* Outside sensor failures IMU_READY is never left set by a stream that has ended:
\* a movement the gate waves through finds the DMP streaming or being switched.
ReadyOnlyWhileStreaming ==
    imuReady => imuTask \in Running \/ faulted

\* Between procedures nothing streams: no command that overtook another in the
\* single slot leaves the sensor running into the next procedure.
StreamEndsWithProcedure ==
    procedure = "menu" /\ imuTask # "ended" => imuTask \in {"boot", "standby"}

\* A movement never steers by a measurement of an earlier stream, of another
\* fusion mode or of a heading the robot was since carried away from.
ReferenceIsCurrent ==
    procedure = "moving" /\ heading # NoSample /\ ~faulted => heading = "current"

\* A command in the slot is taken in the end, whatever else the IMU task has to
\* do, unless the task has ended.
CommandTaken ==
    imuControl # NoCommand ~> imuControl = NoCommand \/ imuTask = "ended"

-----------------------------------------------------------------------------
(* What comments say and the code does not do *)

\* calibration/imu.rs: "Start IMU readings and set a temporary fusion mode."
CalibrationHasReadings ==
    procedure = "calibrating" /\ imuControl = NoCommand => imuTask # "standby"

=============================================================================
