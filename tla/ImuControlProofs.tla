-------------------------- MODULE ImuControlProofs --------------------------
(***************************************************************************)
(* Type correctness of ImuControl and its safety invariants for channels   *)
(* of any capacity and any number of tolerated FIFO errors.                *)
(***************************************************************************)
EXTENDS ImuControl, TLAPS

AllCurrent(channel) == \A i \in DOMAIN channel : channel[i] = "current"

\* Nothing streams and the pending command, if any, will not start the stream.
Quiet == imuTask \in {"boot", "standby", "ended"} /\ imuControl # Start

\* Which commands can be pending where, and where a switch can be under way.
SignalInv ==
    /\ procedure \in {"menu", "countdown", "calibrating"} => Quiet
    /\ procedure \in {"between", "closing"} => Quiet \/ imuControl = Stop
    /\ procedure \in {"waiting", "stabilising", "sensors", "moving", "test"} =>
          imuControl \in {NoCommand, Start}
    /\ imuTask \in {"switching", "restoring"} => procedure \in {"streaming_test", "closing"}

\* IMU_READY outlives its stream only in a test whose switch failed, until the
\* test's Stop is taken, or for ever once the IMU task has ended.
ReadyInv ==
    /\ ReadyOnlyWhileStreaming
    /\ imuTask = "boot" => ~imuReady /\ ~faulted
    /\ faulted => \/ imuTask = "ended"
                  \/ procedure = "streaming_test"
                  \/ procedure = "closing" /\ imuControl = Stop

\* What is in the channel when a movement can be dispatched without draining it,
\* and what a movement may already have taken.
ChannelInv ==
    /\ procedure = "between" /\ ~Quiet =>
          AllCurrent(feedback) /\ (imuTask = "starting" => feedback = <<>>)
    /\ procedure \in {"sensors", "moving"} /\ ~faulted =>
          /\ AllCurrent(feedback)
          /\ heading \in {NoSample, "current"}
          /\ imuTask \in {"boot", "standby", "starting"} => feedback = <<>> /\ heading = NoSample

IInv == StreamsTheModeItKeeps /\ SignalInv /\ ReadyInv /\ ChannelInv

-----------------------------------------------------------------------------
(* The feedback channel *)

ChannelOK(channel) == channel \in Seq(Samples) /\ Len(channel) <= FeedbackCap

LEMMA EmptyChannel == ChannelOK(<<>>) /\ AllCurrent(<<>>) /\ Outdated(<<>>) = <<>>
<1>1. <<>> \in Seq(Samples) /\ Len(<<>>) = 0
  OBVIOUS
<1>2. DOMAIN <<>> = {}
  OBVIOUS
<1> QED BY <1>1, <1>2, ImuAssumption DEF ChannelOK, AllCurrent, Outdated

LEMMA OutdatedChannel ==
  ASSUME NEW channel, ChannelOK(channel)
  PROVE  ChannelOK(Outdated(channel))
<1>1. /\ Outdated(channel) = [i \in 1..Len(channel) |-> "outdated"]
      /\ Len(channel) \in Nat
  BY DEF ChannelOK, Outdated
<1>2. Outdated(channel) \in Seq(Samples) /\ Len(Outdated(channel)) = Len(channel)
  BY <1>1 DEF Samples
<1> QED BY <1>2 DEF ChannelOK

LEMMA OfferedChannel ==
  ASSUME NEW channel, ChannelOK(channel)
  PROVE  ChannelOK(Offer(channel)) /\ (AllCurrent(channel) => AllCurrent(Offer(channel)))
<1>1. CASE Len(channel) < FeedbackCap
  <2>1. Offer(channel) = Append(channel, "current")
    BY <1>1 DEF Offer
  <2>2. /\ Append(channel, "current") \in Seq(Samples)
        /\ Len(Append(channel, "current")) = Len(channel) + 1
    BY DEF ChannelOK, Samples
  <2>3. Len(channel) + 1 <= FeedbackCap
    BY <1>1, ImuAssumption DEF ChannelOK
  <2>4. AllCurrent(channel) => AllCurrent(Append(channel, "current"))
    BY DEF ChannelOK, AllCurrent
  <2> QED BY <2>1, <2>2, <2>3, <2>4 DEF ChannelOK
<1>2. CASE ~(Len(channel) < FeedbackCap)
  BY <1>2 DEF Offer
<1> QED BY <1>1, <1>2

LEMMA NewestSample ==
  ASSUME NEW channel, ChannelOK(channel)
  PROVE  /\ Newest(channel) \in Samples \cup {NoSample}
         /\ channel # <<>> => Newest(channel) \in Samples
         /\ AllCurrent(channel) => Newest(channel) \in {NoSample, "current"}
<1>1. CASE channel = <<>>
  BY <1>1 DEF Newest
<1>2. CASE channel # <<>>
  <2>1. Len(channel) \in DOMAIN channel
    BY <1>2 DEF ChannelOK
  <2>2. channel[Len(channel)] \in Samples
    BY <2>1 DEF ChannelOK
  <2> QED BY <1>2, <2>1, <2>2 DEF Newest, AllCurrent
<1> QED BY <1>1, <1>2

-----------------------------------------------------------------------------
(* Types *)

LEMMA CommandTypes ==
  /\ Start \in ImuCommands /\ Stop \in ImuCommands
  /\ \A mode \in FusionModes : SetFusionMode(mode) \in ImuCommands
  /\ \A c \in ImuCommands : c.kind = "set_mode" => c.mode \in FusionModes
BY DEF ImuCommands, Start, Stop, SetFusionMode, FusionModes

LEMMA EffectiveModeType ==
  \A mode \in FusionModes, mag \in BOOLEAN : EffectiveMode(mode, mag) \in FusionModes
BY DEF EffectiveMode, FusionModes

\* The commands are told apart by their kind.
LEMMA CommandKinds ==
  /\ Start # Stop /\ Start # NoCommand /\ Stop # NoCommand
  /\ Start.kind = "start" /\ Stop.kind = "stop" /\ NoCommand.kind = "none"
  /\ \A mode : SetFusionMode(mode) # Start /\ SetFusionMode(mode) # Stop
BY DEF Start, Stop, NoCommand, SetFusionMode

LEMMA StreamsTypes ==
  ASSUME TypeOK, NEW mode \in FusionModes, Streams(mode)
  PROVE  /\ imuTask' \in TaskStates
         /\ dmp' \in FusionModes \cup {"off"}
         /\ fifoFailures' \in 0..MaxFifoFailures
         /\ ChannelOK(feedback')
         /\ heading' \in Samples \cup {NoSample}
<1>1. ChannelOK(feedback')
  BY OutdatedChannel DEF Streams, TypeOK, ChannelOK
<1> QED BY <1>1, ImuAssumption DEF Streams, TypeOK, TaskStates, Samples

\* The error count reaches its limit only when the task ends.
TypeInv == TypeOK /\ (imuTask # "ended" => fifoFailures < MaxFifoFailures)

LEMMA TypeInit == Init => TypeInv
<1> SUFFICES ASSUME Init PROVE TypeInv
  OBVIOUS
<1>1. ChannelOK(feedback)
  BY EmptyChannel DEF Init
<1>2. /\ 0 \in 0..MaxFifoFailures /\ 0 < MaxFifoFailures
  BY ImuAssumption
<1>3. /\ imuTask \in TaskStates /\ procedure \in Procedures /\ movement \in Movements
      /\ fusionMode \in FusionModes /\ targetMode \in FusionModes
  BY DEF Init, TaskStates, Procedures, Movements, FusionModes, DefaultMode
<1> QED BY <1>1, <1>2, <1>3 DEF Init, TypeInv, TypeOK, ChannelOK

LEMMA SensorTypeStep ==
  ASSUME TypeInv, ImuTaskNext
  PROVE  TypeInv'
<1> USE DEF TypeInv, TypeOK
<1>1. CASE BootSucceeds \/ BootFails
  BY <1>1 DEF BootSucceeds, BootFails, clientVars, TaskStates
<1>2. CASE TakeInStandby
  <2>1. imuControl.kind = "set_mode" => EffectiveMode(imuControl.mode, magAvailable) \in FusionModes
    BY <1>2, CommandTypes, EffectiveModeType DEF TakeInStandby
  <2> QED BY <1>2, <2>1 DEF TakeInStandby, ClearReady, clientVars, TaskStates
<1>3. CASE StartResolves
  BY <1>3, StreamsTypes, ImuAssumption DEF StartResolves, Streams, ChannelOK, TaskStates
<1>4. CASE TakeWhileStreaming
  <2>1. imuControl.kind = "set_mode" => EffectiveMode(imuControl.mode, magAvailable) \in FusionModes
    BY <1>4, CommandTypes, EffectiveModeType DEF TakeWhileStreaming
  <2> QED BY <1>4, <2>1 DEF TakeWhileStreaming, ClearReady, clientVars, TaskStates
<1>5. CASE SwitchResolves
  BY <1>5, StreamsTypes, ImuAssumption DEF SwitchResolves, Streams, ChannelOK, TaskStates
<1>6. CASE RestoreResolves
  BY <1>6, StreamsTypes, ImuAssumption DEF RestoreResolves, RestoredMode, Streams, ChannelOK, TaskStates
<1>7. CASE PollFifo
  BY <1>7 DEF PollFifo, clientVars, TaskStates
<1>8. CASE ReadSample
  <2>1. ChannelOK(feedback')
    BY <1>8, OfferedChannel DEF ReadSample, ChannelOK
  <2>2. fifoFailures' \in 0..MaxFifoFailures /\ fifoFailures' < MaxFifoFailures
    BY <1>8, ImuAssumption DEF ReadSample
  <2> QED BY <1>8, <2>1, <2>2 DEF ReadSample, ChannelOK, clientVars, TaskStates
<1>9. CASE ReadNothing
  BY <1>9, ImuAssumption DEF ReadNothing, clientVars, TaskStates
<1>10. CASE ReadFails
  <2>1. fifoFailures + 1 \in 0..MaxFifoFailures
    BY <1>10, ImuAssumption DEF ReadFails
  <2>2. imuTask' # "ended" => fifoFailures' < MaxFifoFailures
    BY <1>10, <2>1, ImuAssumption DEF ReadFails
  <2>3. imuTask' \in TaskStates /\ faulted' \in BOOLEAN
    BY <1>10 DEF ReadFails, TaskStates
  <2> QED BY <1>10, <2>1, <2>2, <2>3 DEF ReadFails, clientVars
<1> QED BY <1>1, <1>2, <1>3, <1>4, <1>5, <1>6, <1>7, <1>8, <1>9, <1>10 DEF ImuTaskNext

LEMMA MovementTypeStep ==
  ASSUME TypeInv, MovementNext \/ ProcedureNext
  PROVE  TypeInv'
<1>1. UnchangedSensor
  BY DEF MovementNext, ProcedureNext, DispatchReady, DispatchNotReady, GateTakesSample,
     GateTimesOut, GateOpens, CaptureReference, ControlStep, Teardown, StartDriveTest,
     CountdownEnds, StartOtherProcedure, EndProcedure, CarriedByHand, StartImuTest,
     SetTestMode, EndImuTest, StartMagCalibration, EndMagCalibration
<1>2. imuControl' \in ImuCommands \cup {NoCommand}
  BY CommandTypes DEF TypeInv, TypeOK, MovementNext, ProcedureNext, DispatchReady, DispatchNotReady,
     Launch, StartHeading, StartDistanceImu, GateTakesSample, TeardownSignal,
     GateTimesOut, GateOpens, CaptureReference, ControlStep, Teardown, StartDriveTest,
     CountdownEnds, StartOtherProcedure, EndProcedure, CarriedByHand, StartImuTest,
     SetTestMode, EndImuTest, StartMagCalibration, EndMagCalibration, FusionModes
<1>3. ChannelOK(feedback')
  <2>1. ChannelOK(feedback)
    BY DEF TypeInv, TypeOK, ChannelOK
  <2>2. \/ feedback' = feedback
        \/ feedback' = <<>>
        \/ feedback' = Outdated(feedback)
    BY DEF MovementNext, ProcedureNext, DispatchReady, DispatchNotReady,
       Launch, StartHeading, GateTakesSample, AfterStabilising,
       GateTimesOut, GateOpens, CaptureReference, ControlStep, Teardown, StartDriveTest,
       CountdownEnds, StartOtherProcedure, EndProcedure, CarriedByHand, StartImuTest,
       SetTestMode, EndImuTest, StartMagCalibration, EndMagCalibration
  <2> QED BY <2>1, <2>2, EmptyChannel, OutdatedChannel
<1>4. procedure' \in Procedures /\ movement' \in Movements
  BY DEF TypeInv, TypeOK, MovementNext, ProcedureNext, DispatchReady, DispatchNotReady,
     Launch, StartHeading, GateTakesSample, GateTimesOut, GateOpens, CaptureReference, ControlStep, Teardown,
     StartDriveTest, CountdownEnds, StartOtherProcedure, EndProcedure, CarriedByHand, StartImuTest,
     SetTestMode, EndImuTest, StartMagCalibration, EndMagCalibration, Procedures, Movements, clientVars
<1>5. heading' \in Samples \cup {NoSample}
  <2>1. Newest(feedback) \in Samples \cup {NoSample}
    BY NewestSample DEF TypeInv, TypeOK, ChannelOK
  <2> QED BY <2>1 DEF TypeInv, TypeOK, MovementNext, ProcedureNext, DispatchReady, DispatchNotReady,
     Launch, StartHeading, GateTakesSample, GateTimesOut, GateOpens, CaptureReference, ControlStep, Teardown,
     StartDriveTest, CountdownEnds, StartOtherProcedure, EndProcedure, CarriedByHand, StartImuTest,
     SetTestMode, EndImuTest, StartMagCalibration, EndMagCalibration, clientVars
<1> QED BY <1>1, <1>2, <1>3, <1>4, <1>5 DEF TypeInv, TypeOK, UnchangedSensor, sensorVars, ChannelOK

LEMMA TypeStep == TypeInv /\ [Next]_vars => TypeInv'
<1> SUFFICES ASSUME TypeInv, [Next]_vars PROVE TypeInv'
  OBVIOUS
<1>1. CASE UNCHANGED vars
  BY <1>1 DEF vars, sensorVars, clientVars, TypeInv, TypeOK
<1> QED BY <1>1, SensorTypeStep, MovementTypeStep DEF Next

\* Every variable keeps to its range.
THEOREM ImuTypeCorrect == Spec => []TypeOK
<1>1. TypeInv => TypeOK
  BY DEF TypeInv
<1> QED BY <1>1, TypeInit, TypeStep, PTL DEF Spec

-----------------------------------------------------------------------------
(* The mode the DMP streams in, and the commands that can be pending *)

LEMMA SafetyInit == Init => IInv
<1>1. /\ NoCommand # Start /\ AllCurrent(<<>>)
  BY CommandKinds, EmptyChannel
<1> QED BY <1>1 DEF Init, IInv, StreamsTheModeItKeeps, SignalInv, Quiet, ReadyInv,
     ReadyOnlyWhileStreaming, ChannelInv

LEMMA ModeStep ==
  ASSUME StreamsTheModeItKeeps, [Next]_vars
  PROVE  StreamsTheModeItKeeps'
<1> USE DEF StreamsTheModeItKeeps
<1>1. CASE ImuTaskNext
  <2>1. CASE BootSucceeds \/ BootFails \/ TakeInStandby
    BY <2>1 DEF BootSucceeds, BootFails, TakeInStandby
  <2>2. CASE StartResolves \/ SwitchResolves \/ RestoreResolves
    BY <2>2 DEF StartResolves, SwitchResolves, RestoreResolves, RestoredMode, Streams
  <2>3. CASE TakeWhileStreaming
    BY <2>3 DEF TakeWhileStreaming
  <2>4. CASE PollFifo \/ ReadSample \/ ReadNothing \/ ReadFails
    BY <2>4 DEF PollFifo, ReadSample, ReadNothing, ReadFails
  <2> QED BY <1>1, <2>1, <2>2, <2>3, <2>4 DEF ImuTaskNext
<1>2. CASE MovementNext \/ ProcedureNext
  <2>1. UNCHANGED sensorVars
    BY <1>2 DEF MovementNext, ProcedureNext, DispatchReady, DispatchNotReady, GateTakesSample,
       GateTimesOut, GateOpens, CaptureReference, ControlStep, Teardown, StartDriveTest,
       CountdownEnds, StartOtherProcedure, EndProcedure, CarriedByHand, StartImuTest,
       SetTestMode, EndImuTest, StartMagCalibration, EndMagCalibration, UnchangedSensor
  <2> QED BY <2>1 DEF sensorVars
<1>3. CASE UNCHANGED vars
  BY <1>3 DEF vars, sensorVars
<1> QED BY <1>1, <1>2, <1>3 DEF Next

LEMMA SignalStepSensor ==
  ASSUME TypeInv, SignalInv, ImuTaskNext
  PROVE  SignalInv'
<1> USE DEF SignalInv, Quiet
<1>0. UNCHANGED procedure
  BY DEF ImuTaskNext, BootSucceeds, BootFails, TakeInStandby, StartResolves,
     TakeWhileStreaming, SwitchResolves, RestoreResolves, PollFifo, ReadSample, ReadNothing,
     ReadFails, clientVars
<1>1. CASE BootSucceeds \/ BootFails
  BY <1>0, <1>1 DEF BootSucceeds, BootFails
<1>2. CASE TakeInStandby
  BY <1>0, <1>2, CommandKinds DEF TakeInStandby
<1>3. CASE StartResolves
  BY <1>0, <1>3 DEF StartResolves, Streams
<1>4. CASE TakeWhileStreaming
  <2>1. procedure \in Procedures
    BY DEF TypeInv, TypeOK
  <2>2. imuControl.kind = "set_mode" => procedure = "streaming_test"
    BY <1>4, <2>1, CommandKinds DEF TakeWhileStreaming, Procedures
  <2> QED BY <1>0, <1>4, <2>2, CommandKinds DEF TakeWhileStreaming
<1>5. CASE SwitchResolves \/ RestoreResolves
  BY <1>0, <1>5 DEF SwitchResolves, RestoreResolves, Streams
<1>6. CASE PollFifo \/ ReadSample \/ ReadNothing \/ ReadFails
  BY <1>0, <1>6 DEF PollFifo, ReadSample, ReadNothing, ReadFails
<1> QED BY <1>1, <1>2, <1>3, <1>4, <1>5, <1>6 DEF ImuTaskNext

LEMMA SignalStepClient ==
  ASSUME SignalInv, MovementNext \/ ProcedureNext
  PROVE  SignalInv'
<1> USE CommandKinds DEF SignalInv, Quiet
<1>1. ASSUME NEW kind \in Movements, DispatchReady(kind) \/ DispatchNotReady(kind)
      PROVE  SignalInv'
  BY <1>1 DEF DispatchReady, DispatchNotReady, Launch, StartHeading, StartDistanceImu, UnchangedSensor, sensorVars
<1>2. CASE GateTakesSample \/ GateTimesOut \/ GateOpens
  BY <1>2 DEF GateTakesSample, GateTimesOut, GateOpens, Launch, StartHeading, UnchangedSensor, sensorVars
<1>3. CASE CaptureReference \/ ControlStep \/ Teardown
  BY <1>3 DEF CaptureReference, ControlStep, Teardown, TeardownSignal, UnchangedSensor, sensorVars
<1>4. CASE StartDriveTest \/ CountdownEnds \/ StartOtherProcedure \/ CarriedByHand
  BY <1>4 DEF StartDriveTest, CountdownEnds, StartOtherProcedure, CarriedByHand,
     UnchangedSensor, sensorVars, clientVars
<1>5. CASE EndProcedure
  BY <1>5 DEF EndProcedure, CommandSettled, UnchangedSensor, sensorVars
<1>6. CASE StartImuTest \/ EndImuTest \/ \E mode \in FusionModes : SetTestMode(mode)
  BY <1>6 DEF StartImuTest, EndImuTest, SetTestMode, UnchangedSensor, sensorVars
<1>7. CASE StartMagCalibration \/ EndMagCalibration
  BY <1>7 DEF StartMagCalibration, EndMagCalibration, UnchangedSensor, sensorVars
<1> QED BY <1>1, <1>2, <1>3, <1>4, <1>5, <1>6, <1>7 DEF MovementNext, ProcedureNext

LEMMA SignalStep == TypeInv /\ SignalInv /\ [Next]_vars => SignalInv'
<1>1. UNCHANGED vars /\ SignalInv => SignalInv'
  BY DEF vars, sensorVars, clientVars, SignalInv, Quiet
<1> QED BY <1>1, SignalStepSensor, SignalStepClient DEF Next

-----------------------------------------------------------------------------
(* The readiness flag *)

LEMMA ReadyStepSensor ==
  ASSUME TypeInv, SignalInv, ReadyInv, ImuTaskNext
  PROVE  ReadyInv'
<1> USE DEF ReadyInv, ReadyOnlyWhileStreaming, Running
<1>0. UNCHANGED procedure
  BY DEF ImuTaskNext, BootSucceeds, BootFails, TakeInStandby, StartResolves,
     TakeWhileStreaming, SwitchResolves, RestoreResolves, PollFifo, ReadSample, ReadNothing,
     ReadFails, clientVars
<1>1. CASE BootSucceeds \/ BootFails
  BY <1>0, <1>1 DEF BootSucceeds, BootFails
<1>2. CASE TakeInStandby
  <2>1. CASE imuControl = Stop
    BY <1>2, <2>1, CommandKinds DEF TakeInStandby, ClearReady
  <2>2. CASE imuControl # Stop
    BY <1>0, <1>2, <2>2 DEF TakeInStandby, SignalInv, Quiet
  <2> QED BY <2>1, <2>2
<1>3. CASE StartResolves
  BY <1>0, <1>3 DEF StartResolves, Streams, SignalInv, Quiet
<1>4. CASE TakeWhileStreaming
  <2>1. CASE imuControl = Stop
    BY <1>4, <2>1, CommandKinds DEF TakeWhileStreaming, ClearReady
  <2>2. CASE imuControl # Stop
    BY <1>0, <1>4, <2>2 DEF TakeWhileStreaming
  <2> QED BY <2>1, <2>2
<1>5. CASE SwitchResolves
  BY <1>0, <1>5 DEF SwitchResolves, Streams
<1>6. CASE RestoreResolves
  <2>1. procedure \in {"streaming_test", "closing"}
    BY <1>6 DEF RestoreResolves, SignalInv
  <2>2. procedure = "closing" => imuControl = Stop
    BY <1>6 DEF RestoreResolves, SignalInv, Quiet
  <2>3. imuReady \in BOOLEAN
    BY DEF TypeInv, TypeOK
  <2> QED BY <1>0, <1>6, <2>1, <2>2, <2>3 DEF RestoreResolves, Streams
<1>7. CASE PollFifo \/ ReadSample \/ ReadNothing
  BY <1>0, <1>7 DEF PollFifo, ReadSample, ReadNothing
<1>8. CASE ReadFails
  <2>1. imuReady \in BOOLEAN
    BY DEF TypeInv, TypeOK
  <2> QED BY <1>0, <1>8, <2>1 DEF ReadFails
<1> QED BY <1>1, <1>2, <1>3, <1>4, <1>5, <1>6, <1>7, <1>8 DEF ImuTaskNext

LEMMA ReadyStepClient ==
  ASSUME SignalInv, ReadyInv, MovementNext \/ ProcedureNext
  PROVE  ReadyInv'
<1> USE DEF ReadyInv, ReadyOnlyWhileStreaming
<1>1. UNCHANGED <<imuTask, imuReady, faulted>>
  BY DEF MovementNext, ProcedureNext, DispatchReady, DispatchNotReady, GateTakesSample,
     GateTimesOut, GateOpens, CaptureReference, ControlStep, Teardown, StartDriveTest,
     CountdownEnds, StartOtherProcedure, EndProcedure, CarriedByHand, StartImuTest,
     SetTestMode, EndImuTest, StartMagCalibration, EndMagCalibration, UnchangedSensor, sensorVars
<1>2. \/ UNCHANGED <<procedure, imuControl>>
      \/ procedure \notin {"streaming_test", "closing"}
      \/ EndImuTest
      \/ EndProcedure /\ procedure = "closing"
  BY DEF MovementNext, ProcedureNext, DispatchReady, DispatchNotReady, GateTakesSample,
     GateTimesOut, GateOpens, CaptureReference, ControlStep, Teardown, StartDriveTest,
     CountdownEnds, StartOtherProcedure, CarriedByHand, StartImuTest,
     SetTestMode, StartMagCalibration, EndMagCalibration, EndProcedure
<1>3. CASE EndImuTest
  BY <1>1, <1>3 DEF EndImuTest
<1>4. CASE EndProcedure /\ procedure = "closing"
  BY <1>1, <1>4, CommandKinds DEF EndProcedure, CommandSettled
<1> QED BY <1>1, <1>2, <1>3, <1>4

LEMMA ReadyStep == TypeInv /\ SignalInv /\ ReadyInv /\ [Next]_vars => ReadyInv'
<1>1. UNCHANGED vars /\ ReadyInv => ReadyInv'
  BY DEF vars, sensorVars, clientVars, ReadyInv, ReadyOnlyWhileStreaming
<1> QED BY <1>1, ReadyStepSensor, ReadyStepClient DEF Next

-----------------------------------------------------------------------------
(* The feedback channel while a movement can be dispatched or is under way *)

LEMMA ChannelStepSensor ==
  ASSUME TypeInv, SignalInv, ReadyInv, ChannelInv, ImuTaskNext
  PROVE  ChannelInv'
<1>0. /\ UNCHANGED procedure
      /\ procedure \in {"sensors", "moving"} => imuControl \in {NoCommand, Start}
      /\ procedure \in {"sensors", "moving", "between"} => imuTask \notin {"switching", "restoring"}
      /\ ChannelOK(feedback)
  BY DEF ImuTaskNext, BootSucceeds, BootFails, TakeInStandby, StartResolves,
     TakeWhileStreaming, SwitchResolves, RestoreResolves, PollFifo, ReadSample, ReadNothing,
     ReadFails, clientVars, SignalInv, TypeInv, TypeOK, ChannelOK
<1> USE DEF ChannelInv, Quiet
<1>1. CASE BootSucceeds \/ BootFails
  BY <1>0, <1>1 DEF BootSucceeds, BootFails, clientVars
<1>2. CASE TakeInStandby
  <2>1. procedure = "between" => Quiet'
    BY <1>2, <1>0, CommandKinds DEF TakeInStandby, SignalInv
  <2>2. procedure \in {"sensors", "moving"} => imuControl = Start /\ UNCHANGED <<faulted, heading, feedback>>
    BY <1>2, <1>0, CommandKinds DEF TakeInStandby, clientVars
  <2> QED BY <1>0, <1>2, <2>1, <2>2, CommandKinds DEF TakeInStandby, clientVars
<1>3. CASE StartResolves
  <2>1. CASE feedback = <<>> /\ heading = NoSample
    BY <1>0, <1>3, <2>1, EmptyChannel DEF StartResolves, Streams
  <2>2. CASE feedback = <<>> /\ procedure = "between"
    BY <1>0, <1>3, <2>2, EmptyChannel DEF StartResolves, Streams
  <2>3. CASE procedure \notin {"between", "sensors", "moving"} \/ faulted
    BY <1>0, <1>3, <2>3 DEF StartResolves, ReadyInv, SignalInv
  <2> QED BY <1>3, <2>1, <2>2, <2>3 DEF StartResolves, SignalInv
<1>4. CASE TakeWhileStreaming
  <2>1. procedure = "between" => imuControl = Stop
    BY <1>4 DEF TakeWhileStreaming, SignalInv
  <2>2. procedure = "between" => Quiet'
    BY <1>4, <2>1, CommandKinds DEF TakeWhileStreaming
  <2>3. procedure \in {"sensors", "moving"} =>
          UNCHANGED <<imuTask, faulted, heading, feedback>>
    BY <1>4, <1>0, CommandKinds DEF TakeWhileStreaming, clientVars
  <2> QED BY <1>0, <1>4, <2>2, <2>3 DEF TakeWhileStreaming
<1>5. CASE SwitchResolves \/ RestoreResolves
  BY <1>0, <1>5 DEF SwitchResolves, RestoreResolves
<1>6. CASE PollFifo \/ ReadNothing
  BY <1>0, <1>6 DEF PollFifo, ReadNothing, clientVars
<1>7. CASE ReadSample
  <2>1. ~faulted \/ procedure \in {"streaming_test", "closing"}
    BY <1>7 DEF ReadSample, ReadyInv
  <2>2. AllCurrent(feedback) => AllCurrent(feedback')
    BY <1>0, <1>7, OfferedChannel DEF ReadSample
  <2> QED BY <1>0, <1>7, <2>1, <2>2 DEF ReadSample, clientVars
<1>8. CASE ReadFails
  <2>1. imuTask' \in {"ended", "streaming"} /\ UNCHANGED <<feedback, heading, imuControl>>
    BY <1>8 DEF ReadFails, clientVars
  <2>2. procedure \in {"sensors", "moving"} /\ ~faulted' => ~faulted
    BY <1>8 DEF ReadFails, ReadyInv
  <2> QED BY <1>0, <1>8, <2>1, <2>2 DEF ReadFails
<1> QED BY <1>1, <1>2, <1>3, <1>4, <1>5, <1>6, <1>7, <1>8 DEF ImuTaskNext

LEMMA ChannelStepClient ==
  ASSUME TypeInv, SignalInv, ReadyInv, ChannelInv, MovementNext \/ ProcedureNext
  PROVE  ChannelInv'
<1>0. ChannelOK(feedback)
  BY DEF TypeInv, TypeOK, ChannelOK
<1> USE DEF ChannelInv, Quiet, UnchangedSensor, sensorVars
<1>1. ASSUME NEW kind \in Movements, DispatchReady(kind)
      PROVE  ChannelInv'
  <2>1. CASE Quiet
    <3>1. faulted
      BY <1>1, <2>1 DEF DispatchReady, ReadyInv, ReadyOnlyWhileStreaming, Running
    <3> QED BY <1>1, <3>1 DEF DispatchReady, Launch, StartHeading
  <2>2. CASE ~Quiet
    <3>1. imuControl = Stop /\ imuTask \notin {"boot", "standby"}
      BY <1>1, <2>2, CommandKinds DEF DispatchReady, SignalInv
    <3>2. AllCurrent(feedback) /\ (imuTask = "starting" => feedback = <<>>)
      BY <1>1, <2>2 DEF DispatchReady
    <3> QED BY <1>1, <3>1, <3>2, EmptyChannel DEF DispatchReady, Launch, StartHeading
  <2> QED BY <2>1, <2>2
<1>2. ASSUME NEW kind \in Movements, DispatchNotReady(kind)
      PROVE  ChannelInv'
  BY <1>2 DEF DispatchNotReady
<1>3. CASE GateTakesSample
  BY <1>3 DEF GateTakesSample
<1>4. CASE GateTimesOut
  BY <1>4, EmptyChannel DEF GateTimesOut
<1>5. CASE GateOpens
  BY <1>5, EmptyChannel DEF GateOpens, Launch, StartHeading, AfterStabilising
<1>6. CASE CaptureReference \/ ControlStep
  <2>1. feedback' = <<>> /\ AllCurrent(feedback') /\ UNCHANGED <<imuTask, faulted>>
    BY <1>6, EmptyChannel DEF CaptureReference, ControlStep
  <2>2. procedure \in {"sensors", "moving"} /\ procedure' = "moving"
    BY <1>6 DEF CaptureReference, ControlStep
  <2>3. ~faulted => Newest(feedback) \in {NoSample, "current"}
    BY <1>0, <2>2, NewestSample
  <2>4. feedback = <<>> => Newest(feedback) = NoSample
    BY DEF Newest
  <2>5. ~faulted => /\ heading' \in {NoSample, "current"}
                    /\ imuTask \in {"boot", "standby", "starting"} => heading' = NoSample
    BY <1>6, <2>2, <2>3, <2>4 DEF CaptureReference, ControlStep
  <2> QED BY <2>1, <2>2, <2>5
<1>7. CASE Teardown
  <2>1. faulted => imuTask = "ended"
    BY <1>7 DEF Teardown, ReadyInv
  <2> QED BY <1>7, <2>1, CommandKinds DEF Teardown, TeardownSignal
<1>8. CASE ProcedureNext
  <2>1. procedure' \notin {"sensors", "moving"}
    BY <1>8 DEF ProcedureNext, StartDriveTest,
       CountdownEnds, StartOtherProcedure, EndProcedure, CarriedByHand, StartImuTest,
       SetTestMode, EndImuTest, StartMagCalibration, EndMagCalibration, clientVars
  <2>2. procedure' = "between" => procedure \in {"menu", "countdown"} /\ UNCHANGED <<imuTask, imuControl>>
    BY <1>8 DEF ProcedureNext, StartDriveTest,
       CountdownEnds, StartOtherProcedure, EndProcedure, CarriedByHand, StartImuTest,
       SetTestMode, EndImuTest, StartMagCalibration, EndMagCalibration, clientVars
  <2> QED BY <2>1, <2>2 DEF SignalInv
<1> QED BY <1>1, <1>2, <1>3, <1>4, <1>5, <1>6, <1>7, <1>8 DEF MovementNext

LEMMA ChannelStep == TypeInv /\ SignalInv /\ ReadyInv /\ ChannelInv /\ [Next]_vars => ChannelInv'
<1>1. UNCHANGED vars /\ ChannelInv => ChannelInv'
  BY DEF vars, sensorVars, clientVars, ChannelInv, Quiet
<1> QED BY <1>1, ChannelStepSensor, ChannelStepClient DEF Next

-----------------------------------------------------------------------------
(* The safety properties *)

LEMMA ImuInductive == Spec => [](TypeInv /\ IInv)
<1>1. TypeInv /\ IInv /\ [Next]_vars => TypeInv' /\ IInv'
  BY TypeStep, ModeStep, SignalStep, ReadyStep, ChannelStep DEF IInv
<1> QED BY <1>1, TypeInit, SafetyInit, PTL DEF Spec

\* imu.rs:644-671: after every switch, failed switch and restore the DMP runs the
\* mode the task reports and reconfigures from.
THEOREM StreamsKeptMode == Spec => []StreamsTheModeItKeeps
<1>1. IInv => StreamsTheModeItKeeps
  BY DEF IInv
<1> QED BY <1>1, ImuInductive, PTL

\* imu.rs:101-104: outside sensor failures IMU_READY vouches for a running stream.
THEOREM ReadyVouchesForStream == Spec => []ReadyOnlyWhileStreaming
<1>1. IInv => ReadyOnlyWhileStreaming
  BY DEF IInv, ReadyInv
<1> QED BY <1>1, ImuInductive, PTL

\* control.rs:14-16: no stream outlives the procedure that asked for it.
THEOREM NoStreamBetweenProcedures == Spec => []StreamEndsWithProcedure
<1>1. IInv => StreamEndsWithProcedure
  BY DEF IInv, SignalInv, Quiet, StreamEndsWithProcedure
<1> QED BY <1>1, ImuInductive, PTL

\* rotation.rs:135, distance.rs:335-350: no movement steers by an outdated measurement.
THEOREM MovementsSeeCurrentHeading == Spec => []ReferenceIsCurrent
<1>1. IInv => ReferenceIsCurrent
  BY DEF IInv, ChannelInv, ReferenceIsCurrent
<1> QED BY <1>1, ImuInductive, PTL
=============================================================================
