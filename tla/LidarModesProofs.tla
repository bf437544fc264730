--------------------------- MODULE LidarModesProofs ---------------------------
(***************************************************************************)
(* Type correctness of LidarModes and its safety invariants, for command   *)
(* channels of any capacity and any number of bring-up attempts.           *)
(***************************************************************************)
EXTENDS LidarModes, TLAPS

\* The branch is powered exactly while a driver owns it, and what the sensor left
\* behind is cleared before it is reported off or held.
SensorInv ==
    /\ powered <=> lidar \in {"warming", "polling", "reading", "closing"}
    /\ lidar = "idle" => status = "Off"
    /\ status = "Off" => lidar \in {"idle", "starting"}
    /\ status = "Off" \/ lidar = "holding" => ~cloud /\ ~obstacle

\* The slot is claimed from the request to the end of the task.
ModeInv ==
    /\ spawnQueued => autonomous /\ coastTask = "none"
    /\ coastTask # "none" => autonomous
    /\ driving => coastTask \notin {"none", "stopping"}

IInv == SensorInv /\ ModeInv

-----------------------------------------------------------------------------
(* Types *)

LEMMA ReceiveKeepsChannel ==
  ASSUME NEW command, TypeOK, Receive(command)
  PROVE  commands' \in Seq(Commands) /\ Len(commands') <= CommandCap
<1>1. commands \in Seq(Commands) /\ commands # <<>> /\ commands' = Tail(commands)
  BY DEF TypeOK, Receive
<1>2. Tail(commands) \in Seq(Commands) /\ Len(Tail(commands)) = Len(commands) - 1
  BY <1>1
<1>3. Len(commands) <= CommandCap /\ CommandCap \in Nat /\ Len(commands) \in Nat
  BY LidarAssumption DEF TypeOK
<1> QED BY <1>1, <1>2, <1>3

LEMMA SendKeepsChannel ==
  ASSUME NEW command \in Commands, TypeOK, Send(command)
  PROVE  commands' \in Seq(Commands) /\ Len(commands') <= CommandCap
<1>1. commands' = Append(commands, command) /\ Len(commands) < CommandCap
  BY DEF Send
<1>2. /\ Append(commands, command) \in Seq(Commands)
      /\ Len(Append(commands, command)) = Len(commands) + 1
  BY DEF TypeOK
<1>3. Len(commands) \in Nat /\ CommandCap \in Nat
  BY LidarAssumption DEF TypeOK
<1> QED BY <1>1, <1>2, <1>3

\* The ranges of TypeOK: the flags, and everything else.
Flags ==
    /\ powered \in BOOLEAN
    /\ cloud \in BOOLEAN
    /\ obstacle \in BOOLEAN
    /\ coastRequest \in BOOLEAN
    /\ stopRequested \in BOOLEAN
    /\ active \in BOOLEAN
    /\ autonomous \in BOOLEAN
    /\ spawnQueued \in BOOLEAN
    /\ driving \in BOOLEAN
    /\ roomWanted \in BOOLEAN
    /\ roomSignal \in BOOLEAN
    /\ failure \in BOOLEAN

Places ==
    /\ lidar \in {"idle", "starting", "powering", "warming", "failing", "holding",
                  "polling", "reading", "closing", "clearing"}
    /\ attempt \in 1..BringupAttempts
    /\ status \in {"Off", "Warming", "Streaming", "Failed"}
    /\ client \in [Clients -> {"idle", "enabling", "resetting", "polling"}]
    /\ coastTask \in {"none", "loop", "forward", "backing", "turning", "stopping"}
    /\ coastState \in {"forward", "backing", "turning"}
    /\ panel \in {"menu", "coast", "roomscan"}

Channel == commands \in Seq(Commands) /\ Len(commands) <= CommandCap

LEMMA TypeParts ==
    /\ TypeOK => Flags /\ Places /\ Channel
    /\ Flags' /\ Places' /\ Channel' => TypeOK'
BY DEF TypeOK, Flags, Places, Channel

LEMMA InitTypes == Init => TypeOK
<1> SUFFICES ASSUME Init PROVE TypeOK
  OBVIOUS
<1>1. 1 \in 1..BringupAttempts
  BY LidarAssumption
<1>2. <<>> \in Seq(Commands) /\ Len(<<>>) <= CommandCap
  BY LidarAssumption
<1> QED BY <1>1, <1>2 DEF Init, TypeOK, Clients

\* What an action may do to the queue.
ChannelStep ==
    \/ UNCHANGED commands
    \/ \E command \in Commands : Receive(command) \/ Send(command)

LEMMA ChannelStepTypes == TypeOK /\ ChannelStep => Channel'
BY SendKeepsChannel, ReceiveKeepsChannel DEF ChannelStep, TypeOK, Channel

LEMMA LidarTypes == TypeOK /\ (LidarNext) => TypeOK'
<1> SUFFICES ASSUME TypeOK, LidarNext PROVE TypeOK'
  OBVIOUS
<1> USE DEF UnchangedClients, modeVars, panelVars
<1>1. CASE TakeWhileOff \/ TakeWhileFailed \/ TakeWhileStreaming
  <2>1. Flags'
    BY TypeParts, <1>1 DEF Flags, TakeWhileOff, TakeWhileFailed, TakeWhileStreaming
  <2>2. Places'
    BY TypeParts, <1>1 DEF Places, TakeWhileOff, TakeWhileFailed, TakeWhileStreaming
  <2>3. ChannelStep
    BY <1>1 DEF ChannelStep, Commands, TakeWhileOff, TakeWhileFailed, TakeWhileStreaming
  <2> QED BY <2>1, <2>2, <2>3, ChannelStepTypes, TypeParts
<1>attempts. 1 \in 1..BringupAttempts /\ (attempt < BringupAttempts => attempt + 1 \in 1..BringupAttempts)
  BY LidarAssumption DEF TypeOK
<1>2. CASE StartBringUp
  <2>1. Flags'
    BY TypeParts, <1>2 DEF Flags, StartBringUp
  <2>2. Places'
    BY TypeParts, <1>2, <1>attempts DEF Places, StartBringUp
  <2>3. ChannelStep
    BY <1>2 DEF ChannelStep, Commands, StartBringUp
  <2> QED BY <2>1, <2>2, <2>3, ChannelStepTypes, TypeParts
<1>3. CASE PowerUp
  <2>1. Flags'
    BY TypeParts, <1>3 DEF Flags, PowerUp
  <2>2. Places'
    BY TypeParts, <1>3 DEF Places, PowerUp
  <2>3. ChannelStep
    BY <1>3 DEF ChannelStep, Commands, PowerUp
  <2> QED BY <2>1, <2>2, <2>3, ChannelStepTypes, TypeParts
<1>11. CASE WarmUpSucceeds
  <2>1. Flags'
    BY TypeParts, <1>11 DEF Flags, WarmUpSucceeds
  <2>2. Places'
    BY TypeParts, <1>11 DEF Places, WarmUpSucceeds
  <2>3. ChannelStep
    BY <1>11 DEF ChannelStep, Commands, WarmUpSucceeds
  <2> QED BY <2>1, <2>2, <2>3, ChannelStepTypes, TypeParts
<1>4. CASE WarmUpFails
  <2>1. Flags'
    BY TypeParts, <1>4 DEF Flags, WarmUpFails
  <2>2. Places'
    BY TypeParts, <1>4, <1>attempts DEF Places, WarmUpFails
  <2>3. ChannelStep
    BY <1>4 DEF ChannelStep, Commands, WarmUpFails
  <2> QED BY <2>1, <2>2, <2>3, ChannelStepTypes, TypeParts
<1>5. CASE ClearAfterFailure
  <2>1. Flags'
    BY TypeParts, <1>5 DEF Flags, ClearAfterFailure, ClearStaleState
  <2>2. Places'
    BY TypeParts, <1>5 DEF Places, ClearAfterFailure, ClearStaleState
  <2>3. ChannelStep
    BY <1>5 DEF ChannelStep, Commands, ClearAfterFailure, ClearStaleState
  <2> QED BY <2>1, <2>2, <2>3, ChannelStepTypes, TypeParts
<1>6. CASE ReadBegins
  <2>1. Flags'
    BY TypeParts, <1>6 DEF Flags, ReadBegins
  <2>2. Places'
    BY TypeParts, <1>6 DEF Places, ReadBegins
  <2>3. ChannelStep
    BY <1>6 DEF ChannelStep, Commands, ReadBegins
  <2> QED BY <2>1, <2>2, <2>3, ChannelStepTypes, TypeParts
<1>7. CASE PublishScan
  <2>1. Flags'
    BY TypeParts, <1>7 DEF Flags, PublishScan
  <2>2. Places'
    BY TypeParts, <1>7 DEF Places, PublishScan
  <2>3. ChannelStep
    BY <1>7 DEF ChannelStep, Commands, PublishScan
  <2> QED BY <2>1, <2>2, <2>3, ChannelStepTypes, TypeParts
<1>8. CASE ReadFails
  <2>1. Flags'
    BY TypeParts, <1>8 DEF Flags, ReadFails
  <2>2. Places'
    BY TypeParts, <1>8 DEF Places, ReadFails
  <2>3. ChannelStep
    BY <1>8 DEF ChannelStep, Commands, ReadFails
  <2> QED BY <2>1, <2>2, <2>3, ChannelStepTypes, TypeParts
<1>9. CASE PowerDown
  <2>1. Flags'
    BY TypeParts, <1>9 DEF Flags, PowerDown
  <2>2. Places'
    BY TypeParts, <1>9 DEF Places, PowerDown
  <2>3. ChannelStep
    BY <1>9 DEF ChannelStep, Commands, PowerDown
  <2> QED BY <2>1, <2>2, <2>3, ChannelStepTypes, TypeParts
<1>10. CASE ClearAfterDisable
  <2>1. Flags'
    BY TypeParts, <1>10 DEF Flags, ClearAfterDisable, ClearStaleState
  <2>2. Places'
    BY TypeParts, <1>10 DEF Places, ClearAfterDisable, ClearStaleState
  <2>3. ChannelStep
    BY <1>10 DEF ChannelStep, Commands, ClearAfterDisable, ClearStaleState
  <2> QED BY <2>1, <2>2, <2>3, ChannelStepTypes, TypeParts
<1> QED BY <1>1, <1>2, <1>3, <1>4, <1>5, <1>6, <1>7, <1>8, <1>9, <1>10, <1>11 DEF LidarNext

LEMMA StartTypes == TypeOK /\ (RoomScanNext \/ StartNext) => TypeOK'
<1> SUFFICES ASSUME TypeOK, RoomScanNext \/ StartNext PROVE TypeOK'
  OBVIOUS
<1> USE DEF sensorVars, modeVars, panelVars, Clients
<1>1. CASE EnableResets("coast") \/ EnableResets("room")
  <2>1. Flags'
    BY TypeParts, <1>1 DEF Flags, EnableResets
  <2>2. Places'
    BY TypeParts, <1>1 DEF Places, EnableResets
  <2>3. ChannelStep
    BY <1>1 DEF ChannelStep, Commands, EnableResets
  <2> QED BY <2>1, <2>2, <2>3, ChannelStepTypes, TypeParts
<1>2. CASE EnableSends("coast") \/ EnableSends("room")
  <2>1. Flags'
    BY TypeParts, <1>2 DEF Flags, EnableSends
  <2>2. Places'
    BY TypeParts, <1>2 DEF Places, EnableSends
  <2>3. ChannelStep
    BY <1>2 DEF ChannelStep, Commands, EnableSends
  <2> QED BY <2>1, <2>2, <2>3, ChannelStepTypes, TypeParts
<1>3. CASE RoomScanActs
  <2>1. Flags'
    BY TypeParts, <1>3 DEF Flags, RoomScanActs
  <2>2. Places'
    BY TypeParts, <1>3 DEF Places, RoomScanActs
  <2>3. ChannelStep
    BY <1>3 DEF ChannelStep, Commands, RoomScanActs
  <2> QED BY <2>1, <2>2, <2>3, ChannelStepTypes, TypeParts
<1>4. CASE StartBegins
  <2>1. Flags'
    BY TypeParts, <1>4 DEF Flags, StartBegins
  <2>2. Places'
    BY TypeParts, <1>4 DEF Places, StartBegins
  <2>3. ChannelStep
    BY <1>4 DEF ChannelStep, Commands, StartBegins
  <2> QED BY <2>1, <2>2, <2>3, ChannelStepTypes, TypeParts
<1>5. CASE StartCancelled
  <2>1. Flags'
    BY TypeParts, <1>5 DEF Flags, StartCancelled, RecordFailure, DisableSensor
  <2>2. Places'
    BY TypeParts, <1>5 DEF Places, StartCancelled, RecordFailure, DisableSensor
  <2>3. ChannelStep
    BY <1>5 DEF ChannelStep, Commands, StartCancelled, RecordFailure, DisableSensor
  <2> QED BY <2>1, <2>2, <2>3, ChannelStepTypes, TypeParts
<1>6. CASE StartRefused
  <2>1. Flags'
    BY TypeParts, <1>6 DEF Flags, StartRefused, RecordFailure, DisableSensor
  <2>2. Places'
    BY TypeParts, <1>6 DEF Places, StartRefused, RecordFailure, DisableSensor
  <2>3. ChannelStep
    BY <1>6 DEF ChannelStep, Commands, StartRefused, RecordFailure, DisableSensor
  <2> QED BY <2>1, <2>2, <2>3, ChannelStepTypes, TypeParts
<1>7. CASE StartAccepted
  <2>1. Flags'
    BY TypeParts, <1>7 DEF Flags, StartAccepted
  <2>2. Places'
    BY TypeParts, <1>7 DEF Places, StartAccepted
  <2>3. ChannelStep
    BY <1>7 DEF ChannelStep, Commands, StartAccepted
  <2> QED BY <2>1, <2>2, <2>3, ChannelStepTypes, TypeParts
<1>8. CASE StartBusy
  <2>1. Flags'
    BY TypeParts, <1>8 DEF Flags, StartBusy, RecordFailure, DisableSensor
  <2>2. Places'
    BY TypeParts, <1>8 DEF Places, StartBusy, RecordFailure, DisableSensor
  <2>3. ChannelStep
    BY <1>8 DEF ChannelStep, Commands, StartBusy, RecordFailure, DisableSensor
  <2> QED BY <2>1, <2>2, <2>3, ChannelStepTypes, TypeParts
<1> QED BY <1>1, <1>2, <1>3, <1>4, <1>5, <1>6, <1>7, <1>8 DEF RoomScanNext, StartNext

LEMMA CoastTypes == TypeOK /\ (CoastNext \/ ForwardEnds(TRUE)) => TypeOK'
<1> SUFFICES ASSUME TypeOK, CoastNext \/ ForwardEnds(TRUE) PROVE TypeOK'
  OBVIOUS
<1> USE DEF UnchangedOthers, sensorVars, panelVars
<1>1. CASE Spawn
  <2>1. Flags'
    BY TypeParts, <1>1 DEF Flags, Spawn
  <2>2. Places'
    BY TypeParts, <1>1 DEF Places, Spawn
  <2>3. ChannelStep
    BY <1>1 DEF ChannelStep, Commands, Spawn
  <2> QED BY <2>1, <2>2, <2>3, ChannelStepTypes, TypeParts
<1>2. CASE EnterState
  <2>1. Flags'
    BY TypeParts, <1>2 DEF Flags, EnterState
  <2>2. Places'
    BY TypeParts, <1>2 DEF Places, EnterState
  <2>3. ChannelStep
    BY <1>2 DEF ChannelStep, Commands, EnterState
  <2> QED BY <2>1, <2>2, <2>3, ChannelStepTypes, TypeParts
<1>3. CASE StateAbandoned
  <2>1. Flags'
    BY TypeParts, <1>3 DEF Flags, StateAbandoned, LeaveState
  <2>2. Places'
    BY TypeParts, <1>3 DEF Places, StateAbandoned, LeaveState
  <2>3. ChannelStep
    BY <1>3 DEF ChannelStep, Commands, StateAbandoned, LeaveState
  <2> QED BY <2>1, <2>2, <2>3, ChannelStepTypes, TypeParts
<1>4. CASE ForwardEnds(FALSE) \/ ForwardEnds(TRUE)
  <2>1. Flags'
    BY TypeParts, <1>4 DEF Flags, ForwardEnds, LeaveState
  <2>2. Places'
    BY TypeParts, <1>4 DEF Places, ForwardEnds, LeaveState
  <2>3. ChannelStep
    BY <1>4 DEF ChannelStep, Commands, ForwardEnds, LeaveState
  <2> QED BY <2>1, <2>2, <2>3, ChannelStepTypes, TypeParts
<1>5. CASE BackingEnds \/ TurningEnds
  <2>1. Flags'
    BY TypeParts, <1>5 DEF Flags, BackingEnds, TurningEnds, LeaveState
  <2>2. Places'
    BY TypeParts, <1>5 DEF Places, BackingEnds, TurningEnds, LeaveState
  <2>3. ChannelStep
    BY <1>5 DEF ChannelStep, Commands, BackingEnds, TurningEnds, LeaveState
  <2> QED BY <2>1, <2>2, <2>3, ChannelStepTypes, TypeParts
<1>6. CASE LoopEnds
  <2>1. Flags'
    BY TypeParts, <1>6 DEF Flags, LoopEnds, TracksAfterLoop
  <2>2. Places'
    BY TypeParts, <1>6 DEF Places, LoopEnds, TracksAfterLoop
  <2>3. ChannelStep
    BY <1>6 DEF ChannelStep, Commands, LoopEnds, TracksAfterLoop
  <2> QED BY <2>1, <2>2, <2>3, ChannelStepTypes, TypeParts
<1>7. CASE CoastEnds
  <2>1. Flags'
    BY TypeParts, <1>7 DEF Flags, CoastEnds, DisableSensor
  <2>2. Places'
    BY TypeParts, <1>7 DEF Places, CoastEnds, DisableSensor
  <2>3. ChannelStep
    BY <1>7 DEF ChannelStep, Commands, CoastEnds, DisableSensor
  <2> QED BY <2>1, <2>2, <2>3, ChannelStepTypes, TypeParts
<1> QED BY <1>1, <1>2, <1>3, <1>4, <1>5, <1>6, <1>7 DEF CoastNext

LEMMA PanelTypes == TypeOK /\ (PanelNext) => TypeOK'
<1> SUFFICES ASSUME TypeOK, PanelNext PROVE TypeOK'
  OBVIOUS
<1> USE DEF sensorVars, modeVars
<1>1. CASE TapCoast
  <2>1. Flags'
    BY TypeParts, <1>1 DEF Flags, TapCoast
  <2>2. Places'
    BY TypeParts, <1>1 DEF Places, TapCoast
  <2>3. ChannelStep
    BY <1>1 DEF ChannelStep, Commands, TapCoast
  <2> QED BY <2>1, <2>2, <2>3, ChannelStepTypes, TypeParts
<1>2. CASE StopCoast
  <2>1. Flags'
    BY TypeParts, <1>2 DEF Flags, StopCoast
  <2>2. Places'
    BY TypeParts, <1>2 DEF Places, StopCoast
  <2>3. ChannelStep
    BY <1>2 DEF ChannelStep, Commands, StopCoast
  <2> QED BY <2>1, <2>2, <2>3, ChannelStepTypes, TypeParts
<1>3. CASE DismissFailure
  <2>1. Flags'
    BY TypeParts, <1>3 DEF Flags, DismissFailure
  <2>2. Places'
    BY TypeParts, <1>3 DEF Places, DismissFailure
  <2>3. ChannelStep
    BY <1>3 DEF ChannelStep, Commands, DismissFailure
  <2> QED BY <2>1, <2>2, <2>3, ChannelStepTypes, TypeParts
<1>4. CASE EnterRoomScan
  <2>1. Flags'
    BY TypeParts, <1>4 DEF Flags, EnterRoomScan
  <2>2. Places'
    BY TypeParts, <1>4 DEF Places, EnterRoomScan
  <2>3. ChannelStep
    BY <1>4 DEF ChannelStep, Commands, EnterRoomScan
  <2> QED BY <2>1, <2>2, <2>3, ChannelStepTypes, TypeParts
<1>5. CASE LeaveRoomScan
  <2>1. Flags'
    BY TypeParts, <1>5 DEF Flags, LeaveRoomScan
  <2>2. Places'
    BY TypeParts, <1>5 DEF Places, LeaveRoomScan
  <2>3. ChannelStep
    BY <1>5 DEF ChannelStep, Commands, LeaveRoomScan
  <2> QED BY <2>1, <2>2, <2>3, ChannelStepTypes, TypeParts
<1> QED BY <1>1, <1>2, <1>3, <1>4, <1>5 DEF PanelNext

\* Every variable stays in its range, for every channel capacity and number of
\* bring-up attempts (lidar.rs, coast_obstacle_avoid.rs).
THEOREM LidarTypeCorrect == Spec => []TypeOK
<1>1. TypeOK /\ [Next]_vars => TypeOK'
  <2> SUFFICES ASSUME TypeOK, [Next]_vars PROVE TypeOK'
    OBVIOUS
  <2>1. CASE UNCHANGED vars
    BY <2>1 DEF vars, sensorVars, modeVars, panelVars, TypeOK
  <2> QED BY <2>1, LidarTypes, StartTypes, CoastTypes, PanelTypes DEF Next
<1> QED BY InitTypes, <1>1, PTL DEF Spec

-----------------------------------------------------------------------------
(* The inductive invariant *)

LEMMA InitInv == Init => IInv
BY DEF Init, IInv, SensorInv, ModeInv

LEMMA LidarKeepsSensorInv == TypeOK /\ SensorInv /\ LidarNext => SensorInv'
<1> SUFFICES ASSUME TypeOK, SensorInv, LidarNext PROVE SensorInv'
  OBVIOUS
<1> USE DEF SensorInv
<1>1. CASE TakeWhileOff \/ TakeWhileFailed \/ TakeWhileStreaming
  BY <1>1 DEF TakeWhileOff, TakeWhileFailed, TakeWhileStreaming
<1>2. CASE StartBringUp \/ PowerUp \/ WarmUpSucceeds
  BY <1>2 DEF StartBringUp, PowerUp, WarmUpSucceeds
<1>3. CASE WarmUpFails
  BY <1>3 DEF WarmUpFails
<1>4. CASE ClearAfterFailure \/ ClearAfterDisable
  BY <1>4 DEF ClearAfterFailure, ClearAfterDisable, ClearStaleState
<1>5. CASE ReadBegins \/ PublishScan \/ ReadFails \/ PowerDown
  BY <1>5 DEF ReadBegins, PublishScan, ReadFails, PowerDown
<1> QED BY <1>1, <1>2, <1>3, <1>4, <1>5 DEF LidarNext

LEMMA ModeStepsKeepModeInv ==
  TypeOK /\ ModeInv /\ (RoomScanNext \/ StartNext \/ CoastNext \/ ForwardEnds(TRUE) \/ PanelNext)
      => ModeInv' /\ UNCHANGED sensorVars
<1> SUFFICES ASSUME TypeOK, ModeInv,
                    RoomScanNext \/ StartNext \/ CoastNext \/ ForwardEnds(TRUE) \/ PanelNext
             PROVE  ModeInv' /\ UNCHANGED sensorVars
  OBVIOUS
<1> USE DEF ModeInv, modeVars, panelVars, UnchangedOthers
<1>1. CASE RoomScanNext
  BY <1>1 DEF RoomScanNext, EnableResets, EnableSends, RoomScanActs
<1>2. CASE EnableResets("coast") \/ EnableSends("coast") \/ StartBegins \/ StartCancelled \/ StartRefused
  BY <1>2 DEF EnableResets, EnableSends, StartBegins, StartCancelled, StartRefused
<1>3. CASE StartAccepted
  \* the slot was free: no task and no request
  BY <1>3 DEF StartAccepted, SlotFree, TypeOK
<1>4. CASE StartBusy
  BY <1>4 DEF StartBusy
<1>5. CASE Spawn \/ EnterState
  <2>1. CASE Spawn
    <3>1. ~driving' /\ ~spawnQueued'
      BY <2>1 DEF Spawn
    <3> QED BY <2>1, <3>1 DEF Spawn
  <2>2. CASE EnterState
    <3>1. coastTask = "loop" /\ coastTask' \notin {"none", "stopping"}
      BY <2>2 DEF EnterState, TypeOK
    <3>2. UNCHANGED <<sensorVars, autonomous, spawnQueued>>
      BY <2>2 DEF EnterState
    <3> QED BY <3>1, <3>2
  <2> QED BY <1>5, <2>1, <2>2
<1>6. CASE StateAbandoned \/ ForwardEnds(FALSE) \/ ForwardEnds(TRUE) \/ BackingEnds \/ TurningEnds
  <2>1. coastTask \notin {"none", "stopping"} /\ coastTask' = "loop"
    BY <1>6 DEF StateAbandoned, ForwardEnds, BackingEnds, TurningEnds, LeaveState
  <2>2. UNCHANGED <<sensorVars, active, autonomous, spawnQueued>>
    BY <1>6 DEF StateAbandoned, ForwardEnds, BackingEnds, TurningEnds, LeaveState
  <2> QED BY <2>1, <2>2
<1>7. CASE LoopEnds \/ CoastEnds
  BY <1>7 DEF LoopEnds, CoastEnds, TracksAfterLoop
<1>8. CASE PanelNext
  BY <1>8 DEF PanelNext, TapCoast, StopCoast, DismissFailure, EnterRoomScan, LeaveRoomScan
<1> QED BY <1>1, <1>2, <1>3, <1>4, <1>5, <1>6, <1>7, <1>8 DEF StartNext, CoastNext

LEMMA LidarKeepsModes == LidarNext => UNCHANGED modeVars
BY DEF LidarNext, UnchangedClients, TakeWhileOff, StartBringUp, PowerUp, WarmUpSucceeds, WarmUpFails,
   ClearAfterFailure, TakeWhileFailed, TakeWhileStreaming, ReadBegins, PublishScan, ReadFails,
   PowerDown, ClearAfterDisable

LEMMA Invariance == Spec => []IInv
<1>1. TypeOK /\ IInv /\ [Next]_vars => IInv'
  <2> SUFFICES ASSUME TypeOK, IInv, [Next]_vars PROVE IInv'
    OBVIOUS
  <2>1. CASE LidarNext
    <3>1. SensorInv'
      BY <2>1, LidarKeepsSensorInv DEF IInv
    <3>2. ModeInv'
      BY <2>1, LidarKeepsModes DEF IInv, ModeInv, modeVars
    <3> QED BY <3>1, <3>2 DEF IInv
  <2>2. CASE RoomScanNext \/ StartNext \/ CoastNext \/ ForwardEnds(TRUE) \/ PanelNext
    <3>1. ModeInv' /\ UNCHANGED sensorVars
      BY <2>2, ModeStepsKeepModeInv DEF IInv
    <3> QED BY <3>1 DEF IInv, SensorInv, sensorVars
  <2>3. CASE UNCHANGED vars
    BY <2>3 DEF vars, sensorVars, modeVars, IInv, SensorInv, ModeInv
  <2> QED BY <2>1, <2>2, <2>3 DEF Next
<1> QED BY InitInv, LidarTypeCorrect, <1>1, PTL DEF Spec

-----------------------------------------------------------------------------
(* Safety *)

\* A sensor reported off, or held after a failure, is unpowered and leaves neither
\* cloud nor obstacle behind (lidar.rs:510-514, 582-587, 653-661).
THEOREM OffMeansCleared == Spec => []NothingStaleWhenOff
<1>1. IInv => NothingStaleWhenOff
  BY DEF IInv, SensorInv, NothingStaleWhenOff
<1> QED BY <1>1, Invariance, PTL

\* The mode is spawned only into a free slot of the task pool
\* (autonomous_mode/mod.rs:43-71).
THEOREM SpawnIsSafe == Spec => []SpawnFindsFreeSlot
<1>1. IInv => SpawnFindsFreeSlot
  BY DEF IInv, ModeInv, SpawnFindsFreeSlot
<1> QED BY <1>1, Invariance, PTL

\* No stop, early return or refused start leaves the tracks turning without the
\* mode's task (coast_obstacle_avoid.rs:240-371).
THEOREM TracksNeedTheMode == Spec => []TracksTurnOnlyInMode
<1>1. IInv => TracksTurnOnlyInMode
  BY DEF IInv, ModeInv, TracksTurnOnlyInMode
<1> QED BY <1>1, Invariance, PTL

=============================================================================
