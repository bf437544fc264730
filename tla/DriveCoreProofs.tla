--------------------------- MODULE DriveCoreProofs ---------------------------
(***************************************************************************)
(* What TLAPS proves of DriveCore for every number of producers and         *)
(* senders, every set of programs and every queue size: first the types and *)
(* the completion protocol, together the inductive invariant IInv; then the *)
(* safety properties that rest on it, each with the strengthening that      *)
(* makes it inductive; and that DriveCore implements DriveQueueService.     *)
(***************************************************************************)
EXTENDS DriveCore, SequenceTheorems, FiniteSetTheorems, TLAPS

-----------------------------------------------------------------------------
(* Type correctness. *)

(* A send keeps the types of the channels, whether or not it finds room. *)
LEMMA EnqueueTypes ==
  ASSUME ChannelTypes, NEW who \in Senders \cup {Executor},
         NEW envelope \in EnvelopeType, Enqueue(who, envelope)
  PROVE  /\ queue' \in Seq(EnvelopeType) /\ Len(queue') <= DriveQueueSize
         /\ blocked' \in [Senders \cup {Executor} -> EnvelopeType \cup {NoEnvelope}]
<1>1. CASE Len(queue) < DriveQueueSize
  BY <1>1, SizeAssumption DEF ChannelTypes, Enqueue
<1>2. CASE ~(Len(queue) < DriveQueueSize)
  BY <1>2 DEF ChannelTypes, Enqueue
<1> QED BY <1>1, <1>2

(* Every handler leaves the task's own state and the completion typed. *)
LoopAndCompletionTypes ==
  LoopTypes /\ completion \in [status : Statuses, ticket : Nat \ {0}] \cup {NoCompletion}

LEMMA ResolvedTypes ==
  ASSUME TypeOK, NEW envelope \in EnvelopeType, NEW status \in Statuses,
         Resolved(envelope, status),
         standby' \in BOOLEAN, enabled' \in BOOLEAN,
         motors' \in {"coast", "brake", "drive", "free"}
  PROVE  LoopAndCompletionTypes'
BY DEF TypeOK, ChannelTypes, LoopTypes, LoopAndCompletionTypes, EnvelopeType,
       Resolved, SendCompletion, BackToPoll, Places

LEMMA StartedTypes ==
  ASSUME TypeOK, NEW envelope \in EnvelopeType, NEW kind \in IntentKinds,
         Started(envelope, kind),
         standby' \in BOOLEAN, enabled' \in BOOLEAN,
         motors' \in {"coast", "brake", "drive", "free"}
  PROVE  LoopAndCompletionTypes'
BY DEF TypeOK, ChannelTypes, LoopTypes, LoopAndCompletionTypes, EnvelopeType,
       Started, BackToPoll, Places

LEMMA SuspendedTypes ==
  ASSUME TypeOK, NEW envelope \in EnvelopeType, NEW place \in Places,
         Suspended(envelope, place),
         standby' \in BOOLEAN, enabled' \in BOOLEAN,
         motors' \in {"coast", "brake", "drive", "free"}
  PROVE  LoopAndCompletionTypes'
BY DEF TypeOK, ChannelTypes, LoopTypes, LoopAndCompletionTypes, Suspended

LEMMA PerformTypes ==
  ASSUME TypeOK, NEW envelope \in EnvelopeType, Perform(envelope)
  PROVE  LoopAndCompletionTypes'
<1> DEFINE Typed == /\ standby' \in BOOLEAN /\ enabled' \in BOOLEAN
                    /\ motors' \in {"coast", "brake", "drive", "free"}
<1>1. Typed
  BY DEF Perform, TypeOK, LoopTypes
<1>2. \/ Resolved(envelope, "Success")
      \/ \E kind \in IntentKinds : Started(envelope, kind)
      \/ \E place \in Places : Suspended(envelope, place)
  BY DEF Perform, IntentKinds, Moving, Places, Calibrations
<1> QED
  BY <1>1, <1>2, ResolvedTypes, StartedTypes, SuspendedTypes DEF Statuses

LEMMA WakeThenPerformTypes ==
  ASSUME TypeOK, NEW envelope \in EnvelopeType, WakeThenPerform(envelope)
  PROVE  LoopAndCompletionTypes'
<1>1. CASE NeedsWake(envelope.action)
  <2>1. /\ Suspended(envelope, "wake")
        /\ standby' \in BOOLEAN /\ enabled' \in BOOLEAN
        /\ motors' \in {"coast", "brake", "drive", "free"}
    BY <1>1 DEF WakeThenPerform, TypeOK, LoopTypes
  <2> QED BY <2>1, SuspendedTypes DEF Places
<1>2. CASE ~NeedsWake(envelope.action)
  BY <1>2, PerformTypes DEF WakeThenPerform
<1> QED BY <1>1, <1>2

(* A dispatch under way holds an envelope (dispatch.rs:33-147). *)
LEMMA HandTyped ==
  ASSUME TypeOK, HandAndIntent, at \in Dispatching
  PROVE  hand \in EnvelopeType
BY DEF TypeOK, LoopTypes, HandAndIntent

(* The drive task's own steps keep its types. *)
LEMMA DispatchTypes ==
  ASSUME TypeOK, HandAndIntent, DispatchStep
  PROVE  LoopAndCompletionTypes' /\ queue' \in Seq(EnvelopeType)
         /\ Len(queue') <= DriveQueueSize
<1>1. CASE HandleEnvelope
  <2>1. /\ Head(queue) \in EnvelopeType
        /\ queue' \in Seq(EnvelopeType) /\ Len(queue') <= DriveQueueSize
    <3>1. queue \in Seq(EnvelopeType) /\ queue # << >> /\ queue' = Tail(queue)
      BY <1>1 DEF HandleEnvelope, TypeOK, ChannelTypes
    <3>2. Head(queue) \in EnvelopeType /\ queue' \in Seq(EnvelopeType)
          /\ Len(queue') = Len(queue) - 1
      BY <3>1, HeadTailProperties
    <3> QED BY <3>1, <3>2, SizeAssumption DEF TypeOK, ChannelTypes
  <2>2. CASE Stale(Head(queue))
    <3>1. /\ Resolved(Head(queue), "Cancelled")
          /\ standby' \in BOOLEAN /\ enabled' \in BOOLEAN
          /\ motors' \in {"coast", "brake", "drive", "free"}
      BY <1>1, <2>2 DEF HandleEnvelope, CancelStale, TypeOK, LoopTypes
    <3> QED BY <2>1, <3>1, ResolvedTypes DEF Statuses
  <2>3. CASE ~Stale(Head(queue))
    <3>1. CASE WakeThenPerform(Head(queue))
      BY <2>1, <3>1, WakeThenPerformTypes
    <3>2. CASE ~WakeThenPerform(Head(queue))
      <4>1. /\ Suspended(Head(queue), "imuGate")
            /\ standby' \in BOOLEAN /\ enabled' \in BOOLEAN
            /\ motors' \in {"coast", "brake", "drive", "free"}
        BY <1>1, <2>3, <3>2 DEF HandleEnvelope, TypeOK, LoopTypes
      <4> QED BY <2>1, <4>1, SuspendedTypes DEF Places
    <3> QED BY <3>1, <3>2
  <2> QED BY <2>2, <2>3
<1>2. CASE /\ at \in Dispatching
           /\ \/ ImuReady \/ ImuNotResponding \/ WakeElapsed \/ HeadingKnown
              \/ StandbyBraked \/ StandbyCoasted \/ CalibrationEnds
  <2>1. hand \in EnvelopeType
    BY <1>2, HandTyped
  <2>2. queue' \in Seq(EnvelopeType) /\ Len(queue') <= DriveQueueSize
    BY <1>2 DEF TypeOK, ChannelTypes, ImuReady, ImuNotResponding, WakeElapsed,
       HeadingKnown, StandbyBraked, StandbyCoasted, CalibrationEnds
  <2>3. CASE ImuReady
    BY <2>1, <2>2, <2>3, WakeThenPerformTypes DEF ImuReady
  <2>4. CASE WakeElapsed
    BY <2>1, <2>2, <2>4, PerformTypes DEF WakeElapsed
  <2>5. CASE HeadingKnown
    BY <2>1, <2>2, <2>5, StartedTypes
       DEF HeadingKnown, TypeOK, LoopTypes, IntentKinds, Moving
  <2>6. CASE StandbyBraked
    BY <2>1, <2>2, <2>6, SuspendedTypes DEF StandbyBraked, TypeOK, LoopTypes, Places
  <2>7. CASE ImuNotResponding \/ StandbyCoasted \/ CalibrationEnds
    <3>1. /\ \E status \in Statuses : Resolved(hand, status)
          /\ standby' \in BOOLEAN /\ enabled' \in BOOLEAN
          /\ motors' \in {"coast", "brake", "drive", "free"}
      BY <2>7 DEF ImuNotResponding, StandbyCoasted, CalibrationEnds, TypeOK,
         LoopTypes, Statuses
    <3> QED BY <2>1, <2>2, <3>1, ResolvedTypes
  <2> QED BY <1>2, <2>3, <2>4, <2>5, <2>6, <2>7
<1>3. HandleEnvelope \/ at \in Dispatching
  BY DEF DispatchStep, Dispatching, Places, ImuReady, ImuNotResponding, WakeElapsed,
     HeadingKnown, StandbyBraked, StandbyCoasted, CalibrationEnds, Calibrations
<1> QED BY <1>1, <1>2, <1>3 DEF DispatchStep

(* The inductive invariant: a completion can be awaited, counted and typed   *)
(* only because the claims stay in step with the executor.                  *)
IInv == TypeOK /\ HandAndIntent /\ CompletionProtocol

LEMMA StepIsTyped ==
  ASSUME TypeOK, CompletionProtocol, running
  PROVE  program[Current] \in Steps
BY DEF TypeOK, ExecutorTypes, CompletionProtocol, StepsRemain, Current

LEMMA SendsKeepTypes ==
  ASSUME TypeOK,
         NEW s \in Senders \cup {Executor},
         \/ \E command \in SentCommands : s \in Senders /\ SendCommand(s, command)
         \/ FinishSend(s)
         \/ \E kind \in SentInterrupts : SendInterrupt(kind)
  PROVE  TypeOK'
<1>1. ASSUME NEW command \in SentCommands, s \in Senders, SendCommand(s, command)
      PROVE  TypeOK'
  <2>1. Envelope(command, 0) \in EnvelopeType
    BY CommandsAssumption DEF Envelope, EnvelopeType, TypeOK, ChannelTypes
  <2>2. Enqueue(s, Envelope(command, 0))
    BY <1>1 DEF SendCommand
  <2>3. ChannelTypes'
    BY <1>1, <2>1, <2>2, EnqueueTypes DEF SendCommand, TypeOK, ChannelTypes
  <2>4. sent' \in 0 .. MaxSends
    BY <1>1, BoundsAssumption DEF SendCommand, TypeOK
  <2> QED
    BY <1>1, <2>3, <2>4 DEF SendCommand, OtherTaskRuns, TypeOK, LoopTypes,
       ExecutorTypes, SubmitTypes, loopVars, executorVars, submitVars
<1>2. ASSUME FinishSend(s) PROVE TypeOK'
  <2>1. blocked[s] \in EnvelopeType
    BY <1>2 DEF FinishSend, TypeOK, ChannelTypes
  <2>2. ChannelTypes'
    BY <1>2, <2>1, SizeAssumption DEF FinishSend, TypeOK, ChannelTypes
  <2> QED
    BY <1>2, <2>2 DEF FinishSend, OtherTaskRuns, TypeOK, LoopTypes,
       ExecutorTypes, SubmitTypes, loopVars, executorVars, submitVars, boundVars
<1>3. ASSUME NEW kind \in SentInterrupts, SendInterrupt(kind) PROVE TypeOK'
  <2>1. ChannelTypes'
    BY <1>3, InterruptsAssumption DEF SendInterrupt, TypeOK, ChannelTypes, channelVars
  <2>2. raised' \in 0 .. MaxInterrupts
    BY <1>3, BoundsAssumption DEF SendInterrupt, TypeOK
  <2> QED
    <3>0. UNCHANGED <<loopVars, executorVars, submitVars, struck, sent>> /\ looping' = FALSE
      BY <1>3 DEF SendInterrupt, OtherTaskRuns
    <3>1. LoopTypes'
      BY <3>0 DEF TypeOK, LoopTypes, loopVars
    <3>2. ExecutorTypes'
      BY <3>0 DEF TypeOK, ExecutorTypes, executorVars
    <3>3. SubmitTypes' /\ sent' = sent
      BY <3>0 DEF TypeOK, SubmitTypes, submitVars
    <3> QED BY <2>1, <2>2, <3>1, <3>2, <3>3 DEF TypeOK
<1> QED BY <1>1, <1>2, <1>3

LEMMA ProducersKeepTypes ==
  ASSUME TypeOK, NEW p \in Producers,
         \/ \E steps \in Programs : Submit(p, steps)
         \/ SubmitRefused(p)
         \/ ReceiveReply(p)
  PROVE  TypeOK'
<1> DEFINE Elsewhere == ChannelTypes' /\ LoopTypes' /\ ExecutorTypes'
                        /\ sent' = sent /\ raised' = raised
<1>1. ASSUME NEW steps \in Programs, Submit(p, steps) PROVE TypeOK'
  <2>1. Elsewhere
    BY <1>1 DEF Submit, OtherTaskRuns, TypeOK, ChannelTypes, LoopTypes, ExecutorTypes,
       channelVars, loopVars, executorVars, boundVars
  <2>2. SubmitTypes'
    BY <1>1 DEF Submit, TypeOK, SubmitTypes
  <2> QED BY <2>1, <2>2 DEF TypeOK
<1>2. ASSUME SubmitRefused(p) PROVE TypeOK'
  <2>1. Elsewhere
    BY <1>2 DEF SubmitRefused, OtherTaskRuns, TypeOK, ChannelTypes, LoopTypes,
       ExecutorTypes, channelVars, loopVars, executorVars, boundVars
  <2>2. SubmitTypes'
    BY <1>2 DEF SubmitRefused, TypeOK, SubmitTypes
  <2> QED BY <2>1, <2>2 DEF TypeOK
<1>3. ASSUME ReceiveReply(p) PROVE TypeOK'
  <2>1. Elsewhere
    BY <1>3 DEF ReceiveReply, OtherTaskRuns, TypeOK, ChannelTypes, LoopTypes,
       ExecutorTypes, channelVars, loopVars, executorVars, boundVars
  <2>2. SubmitTypes'
    BY <1>3 DEF ReceiveReply, TypeOK, SubmitTypes
  <2> QED BY <2>1, <2>2 DEF TypeOK
<1> QED BY <1>1, <1>2, <1>3

LEMMA ExecutorKeepsTypes ==
  ASSUME IInv, ExecutorTask
  PROVE  TypeOK'
<1> USE DEF IInv
<1>1. CASE TakeRequest
  <2>1. request \in Seq(Steps)
    BY <1>1, ProgramsAssumption DEF TakeRequest, TypeOK, SubmitTypes
  <2>2. EmptyTally \in ReportType
    BY DEF EmptyTally, ReportType, Statuses
  <2>3. CASE request = << >>
    <3>1. ChannelTypes' /\ LoopTypes' /\ sent' = sent /\ raised' = raised
      BY <1>1, <2>3 DEF TakeRequest, OtherTaskRuns, TypeOK, LoopTypes, ChannelTypes,
         loopVars, boundVars
    <3>2. ExecutorTypes'
      <4>1. /\ program' = request /\ outcomes' = << >> /\ tally' = EmptyTally
            /\ running' = FALSE /\ struck' = struck
        BY <1>1, <2>3 DEF TakeRequest, SendReply
      <4>2. << >> \in Seq(Statuses) /\ struck \in BOOLEAN
        BY EmptySeq DEF TypeOK, ExecutorTypes
      <4> QED BY <2>1, <2>2, <4>1, <4>2 DEF ExecutorTypes
    <3>3. SubmitTypes'
      BY <1>1, <2>2, <2>3 DEF TakeRequest, SendReply, TypeOK, SubmitTypes
    <3> QED BY <3>1, <3>2, <3>3 DEF TypeOK
  <2>4. CASE request # << >>
    <3>1. Envelope(request[1].action, 1) \in EnvelopeType
      <4>1. request[1] \in Steps
        BY <2>1, <2>4, HeadTailProperties
      <4> QED BY <4>1 DEF Envelope, EnvelopeType, Steps, TypeOK, ChannelTypes
    <3>2. Enqueue(Executor, Envelope(request[1].action, 1))
      BY <1>1, <2>4 DEF TakeRequest
    <3>3. ChannelTypes'
      BY <1>1, <3>1, <3>2, EnqueueTypes DEF TakeRequest, TypeOK, ChannelTypes
    <3> QED
      <4>1. LoopTypes' /\ sent' = sent /\ raised' = raised
        BY <1>1, <2>4 DEF TakeRequest, OtherTaskRuns, TypeOK, LoopTypes, loopVars, boundVars
      <4>2. ExecutorTypes'
        BY <1>1, <2>1, <2>2, <2>4 DEF TakeRequest, TypeOK, ExecutorTypes
      <4>3. SubmitTypes'
        BY <1>1, <2>4 DEF TakeRequest, TypeOK, SubmitTypes
      <4> QED BY <3>3, <4>1, <4>2, <4>3 DEF TypeOK
  <2> QED BY <2>3, <2>4
<1>2. CASE ReceiveCompletion
  <2> DEFINE position == Len(outcomes) + 1
             status == completion.status
             abort == program[position].abort
             counted == Tallied(tally, status, position, abort)
             last == position = Len(program) \/ (status # "Success" /\ abort)
  <2>1. status \in Statuses /\ position \in Nat
    BY <1>2 DEF ReceiveCompletion, TypeOK, ChannelTypes, ExecutorTypes
  <2>2. counted \in ReportType
    <3>1. tally \in ReportType
      BY DEF TypeOK, ExecutorTypes
    <3> QED BY <2>1, <3>1 DEF Tallied, ReportType
  <2>3. ChannelTypes'
    <3>1. CASE last
      BY <1>2, <3>1 DEF ReceiveCompletion, TypeOK, ChannelTypes
    <3>2. CASE ~last
      <4>1. running /\ Len(outcomes) < Len(program)
        BY <1>2 DEF ReceiveCompletion, CompletionProtocol, StepsRemain
      <4>2. program[position + 1] \in Steps
        BY <3>2, <4>1 DEF TypeOK, ExecutorTypes
      <4>3. Envelope(program[position + 1].action, position + 1) \in EnvelopeType
        BY <2>1, <4>2 DEF Envelope, EnvelopeType, Steps, TypeOK, ChannelTypes
      <4>4. Enqueue(Executor, Envelope(program[position + 1].action, position + 1))
        BY <1>2, <3>2 DEF ReceiveCompletion
      <4> QED
        BY <1>2, <4>3, <4>4, EnqueueTypes DEF ReceiveCompletion, TypeOK, ChannelTypes
    <3> QED BY <3>1, <3>2
  <2>4. outcomes' \in Seq(Statuses) /\ tally' \in ReportType /\ struck' \in BOOLEAN
    <3>1. outcomes' = Append(outcomes, status) /\ tally' = counted /\ struck' = FALSE
      BY <1>2 DEF ReceiveCompletion
    <3>2. outcomes \in Seq(Statuses)
      BY DEF TypeOK, ExecutorTypes
    <3>3. Append(outcomes, status) \in Seq(Statuses)
      BY <2>1, <3>2, AppendProperties
    <3> QED BY <2>2, <3>1, <3>3
  <2>5. /\ running' \in BOOLEAN /\ busy' \in BOOLEAN
        /\ reply' \in ReportType \cup {NoReport}
    BY <1>2, <2>2 DEF ReceiveCompletion, SendReply, TypeOK, ExecutorTypes, SubmitTypes
  <2> QED
    BY <1>2, <2>3, <2>4, <2>5 DEF ReceiveCompletion, OtherTaskRuns, TypeOK,
       LoopTypes, ExecutorTypes, SubmitTypes, loopVars, boundVars
<1> QED BY <1>1, <1>2 DEF ExecutorTask

LEMMA DriveTaskKeepsTypes ==
  ASSUME TypeOK, HandAndIntent, DriveTask
  PROVE  TypeOK'
<1>1. CASE DispatchStep
  <2>1. LoopAndCompletionTypes' /\ queue' \in Seq(EnvelopeType)
        /\ Len(queue') <= DriveQueueSize
    BY <1>1, DispatchTypes
  <2>2. UNCHANGED <<interrupt, epoch, driveElsewhere>>
    BY <1>1 DEF DispatchStep, HandleEnvelope, ImuReady, ImuNotResponding, WakeElapsed,
       HeadingKnown, StandbyBraked, StandbyCoasted, CalibrationEnds
  <2> QED
    BY <2>1, <2>2 DEF driveElsewhere, executorVars, submitVars, boundVars, TypeOK,
       ChannelTypes, ExecutorTypes, SubmitTypes, LoopAndCompletionTypes
<1>2. CASE IntentEnds
  <2>1. /\ completion' \in [status : Statuses, ticket : Nat \ {0}] \cup {NoCompletion}
        /\ LoopTypes'
    <3>1. intent.ticket \in Nat
      BY DEF TypeOK, LoopTypes, NoIntent
    <3>2. \E status \in {"Success", "Failed"} : ApplyCompletion(status)
      BY <1>2 DEF IntentEnds, RotationEnds, DistanceEnds, BrakeCoastEnds, IdleElapsed
    <3>3. motors' \in {"coast", "brake", "drive", "free"} /\ UNCHANGED <<standby, enabled>>
      BY <1>2 DEF IntentEnds, RotationEnds, DistanceEnds, BrakeCoastEnds, IdleElapsed,
         Teardown, intentElsewhere, TypeOK, LoopTypes
    <3> QED
      BY <3>1, <3>2, <3>3 DEF ApplyCompletion, SendCompletion, BackToPoll, TypeOK,
         ChannelTypes, LoopTypes, Statuses, Places
  <2>2. UNCHANGED intentElsewhere
    BY <1>2 DEF IntentEnds, RotationEnds, DistanceEnds, BrakeCoastEnds, IdleElapsed
  <2> QED
    BY <2>1, <2>2 DEF intentElsewhere, driveElsewhere, executorVars, submitVars,
       boundVars, TypeOK, ChannelTypes, ExecutorTypes, SubmitTypes
<1>3. CASE HandleInterrupt
  <2>1. completion' \in [status : Statuses, ticket : Nat \ {0}] \cup {NoCompletion}
    <3>1. CASE intent.ticket # 0
      BY <1>3, <3>1 DEF HandleInterrupt, SendCompletion, TypeOK, ChannelTypes, LoopTypes,
         NoIntent, Statuses
    <3>2. CASE intent.ticket = 0 /\ Requested # {}
      <4>1. PICK i \in Requested : SendCompletion(queue[i].ticket, "Cancelled")
        BY <1>3, <3>2 DEF HandleInterrupt
      <4>2. queue[i].ticket \in Nat \ {0}
        <5>1. queue[i] \in EnvelopeType /\ queue[i].ticket # 0
          BY DEF Requested, TypeOK, ChannelTypes
        <5> QED BY <5>1 DEF EnvelopeType
      <4> QED
        BY <4>1, <4>2 DEF SendCompletion, TypeOK, ChannelTypes, Statuses
    <3>3. CASE intent.ticket = 0 /\ Requested = {}
      BY <1>3, <3>3 DEF HandleInterrupt, TypeOK, ChannelTypes
    <3> QED BY <3>1, <3>2, <3>3
  <2>2. ChannelTypes'
    BY <1>3, <2>1, SizeAssumption DEF HandleInterrupt, TypeOK, ChannelTypes, NextEpoch
  <2> QED
    BY <1>3, <2>2 DEF HandleInterrupt, StoppedMotors, executorVars, submitVars,
       boundVars, TypeOK, LoopTypes, ExecutorTypes, SubmitTypes, ChannelTypes
<1>4. CASE \/ CalibrationDrives \/ RotationStep \/ RotationInProgress
           \/ RotationCorrection \/ CorrectionPulse
  <2>1. LoopTypes' /\ completion' = completion
    BY <1>4 DEF CalibrationDrives, RotationStep, RotationInProgress, RotationCorrection,
       CorrectionPulse, intentElsewhere, TypeOK, LoopTypes, Places
  <2>2. UNCHANGED <<queue, interrupt, epoch, driveElsewhere>>
    BY <1>4 DEF CalibrationDrives, RotationStep, RotationInProgress, RotationCorrection,
       CorrectionPulse, intentElsewhere
  <2> QED
    BY <2>1, <2>2 DEF driveElsewhere, executorVars, submitVars, boundVars, TypeOK,
       ChannelTypes, ExecutorTypes, SubmitTypes
<1> QED BY <1>1, <1>2, <1>3, <1>4 DEF DriveTask

-----------------------------------------------------------------------------
(* The completion protocol: how each kind of step moves the executor's claim. *)

claimVars == <<queue, blocked, hand, intent, completion, running, program, outcomes>>

LoopKeepsClaims ==
  /\ hand'.ticket = hand.ticket
  /\ intent'.ticket = intent.ticket
  /\ completion'.ticket = completion.ticket

LEMMA ClaimsUntouched ==
  ASSUME CompletionProtocol, UNCHANGED <<queue, blocked, running, program, outcomes>>,
         LoopKeepsClaims
  PROVE  CompletionProtocol'
BY DEF CompletionProtocol, AtMostOneClaim, ClaimOfCurrentStep, ClaimIffAwaited,
       StepsRemain, OnlyExecutorClaims, Claims, Current, LoopKeepsClaims

(* Inside the loop a claim passes from the hand to the intent, and from      *)
(* either into the completion channel.                                      *)
LoopPassesClaim ==
  \/ LoopKeepsClaims
  \/ /\ hand'.ticket = 0
     /\ intent'.ticket = hand.ticket
     /\ completion'.ticket = completion.ticket
     /\ intent.ticket = 0
  \/ /\ hand'.ticket = 0
     /\ intent'.ticket = intent.ticket
     /\ completion'.ticket = IF hand.ticket = 0 THEN completion.ticket ELSE hand.ticket
  \/ /\ hand'.ticket = hand.ticket
     /\ intent'.ticket = 0
     /\ completion'.ticket = IF intent.ticket = 0 THEN completion.ticket ELSE intent.ticket

LEMMA LoopKeepsProtocol ==
  ASSUME CompletionProtocol, UNCHANGED <<queue, blocked, running, program, outcomes>>,
         LoopPassesClaim
  PROVE  CompletionProtocol'
<1> USE DEF CompletionProtocol, LoopPassesClaim, LoopKeepsClaims, Claims, Current
<1>1. AtMostOneClaim'
  BY DEF AtMostOneClaim
<1>2. ClaimOfCurrentStep'
  BY DEF ClaimOfCurrentStep, AtMostOneClaim
<1>3. ClaimIffAwaited'
  BY DEF ClaimIffAwaited, AtMostOneClaim
<1>4. StepsRemain' /\ OnlyExecutorClaims'
  BY DEF StepsRemain, OnlyExecutorClaims
<1> QED BY <1>1, <1>2, <1>3, <1>4

(* What a handler does with the envelope it was given: the envelope stays   *)
(* in the hand, becomes the intent, or is resolved.                         *)
EnvelopePasses(envelope) ==
  \/ hand' = envelope /\ intent' = NoIntent /\ completion' = completion /\ at' \in Dispatching
  \/ /\ hand' = NoEnvelope /\ intent'.ticket = envelope.ticket
     /\ completion' = completion /\ at' = "poll"
  \/ /\ hand' = NoEnvelope /\ intent' = NoIntent /\ at' = "poll"
     /\ completion'.ticket = IF envelope.ticket = 0 THEN completion.ticket
                                                    ELSE envelope.ticket

LEMMA HandlerPassesEnvelope ==
  ASSUME intent = NoIntent, NEW envelope \in EnvelopeType,
         \/ \E status \in Statuses : Resolved(envelope, status)
         \/ \E kind \in IntentKinds : Started(envelope, kind)
         \/ \E place \in Dispatching : Suspended(envelope, place)
  PROVE  EnvelopePasses(envelope)
BY DEF EnvelopePasses, Resolved, Started, Suspended, SendCompletion, BackToPoll

LEMMA PerformPassesEnvelope ==
  ASSUME intent = NoIntent, NEW envelope \in EnvelopeType, WakeThenPerform(envelope) \/ Perform(envelope)
  PROVE  /\ EnvelopePasses(envelope)
         /\ at' \in Calibrations => hand'.action \in Calibrations
<1>1. CASE Perform(envelope)
  <2>1. \/ Resolved(envelope, "Success")
        \/ \E kind \in IntentKinds : Started(envelope, kind)
        \/ \E place \in Dispatching : Suspended(envelope, place)
    BY <1>1 DEF Perform, IntentKinds, Moving, Dispatching, Places, Calibrations
  <2>2. at' \in Calibrations => hand'.action \in Calibrations
    BY <1>1 DEF Perform, Calibrations, Resolved, Started, Suspended, BackToPoll
  <2> QED BY <2>1, <2>2, HandlerPassesEnvelope DEF Statuses
<1>2. CASE ~Perform(envelope)
  <2>1. Suspended(envelope, "wake")
    BY <1>2 DEF WakeThenPerform
  <2>2. "wake" \in Dispatching /\ at' = "wake" /\ "wake" \notin Calibrations
    BY <2>1 DEF Suspended, Dispatching, Places, Calibrations
  <2> QED BY <2>1, <2>2, HandlerPassesEnvelope
<1> QED BY <1>1, <1>2

(* An envelope typed as one is not the absence of one. *)
LEMMA EnvelopesExist ==
  ASSUME NEW envelope \in EnvelopeType
  PROVE  envelope # NoEnvelope
BY DEF EnvelopeType, NoEnvelope, Commands, Movements, Calibrations

LEMMA PassedKeepsHandAndIntent ==
  ASSUME NEW envelope \in EnvelopeType, EnvelopePasses(envelope),
         at' \in Calibrations => hand'.action \in Calibrations
  PROVE  HandAndIntent'
BY EnvelopesExist DEF EnvelopePasses, HandAndIntent, Dispatching, Calibrations

(* The head of the queue becomes the envelope in hand (mod.rs:173-180).     *)
LEMMA DequeueKeepsProtocol ==
  ASSUME TypeOK, CompletionProtocol, hand = NoEnvelope, intent = NoIntent,
         queue # << >>, queue' = Tail(queue), EnvelopePasses(Head(queue)),
         UNCHANGED <<blocked, running, program, outcomes>>
  PROVE  CompletionProtocol'
<1> USE DEF CompletionProtocol, NoEnvelope, NoIntent
<1> DEFINE head == Head(queue)
<1>1. /\ DOMAIN queue' = 1 .. Len(queue) - 1
      /\ \A i \in DOMAIN queue' : queue'[i] = queue[i + 1]
      /\ head = queue[1] /\ 1 \in DOMAIN queue
      /\ DOMAIN queue = 1 .. Len(queue) /\ Len(queue) \in Nat
  BY HeadTailProperties DEF TypeOK, ChannelTypes
<1>2. Claims' = {i \in 1 .. Len(queue) - 1 : queue[i + 1].ticket # 0}
  BY <1>1 DEF Claims
<1>3. \A i \in Claims' : i + 1 \in Claims
  BY <1>1, <1>2 DEF Claims
<1>4. CASE head.ticket # 0
  <2>1. 1 \in Claims
    BY <1>1, <1>4 DEF Claims
  <2>2. Claims' = {}
    <3>1. \A i \in Claims' : i \in 1 .. Len(queue) - 1 /\ i + 1 = 1
      BY <1>2, <1>3, <2>1 DEF AtMostOneClaim
    <3> QED BY <1>1, <3>1
  <2>3. /\ blocked[Executor].ticket = 0 /\ completion.ticket = 0
        /\ head.ticket = Current /\ running
    BY <1>1, <2>1 DEF AtMostOneClaim, ClaimOfCurrentStep, ClaimIffAwaited
  <2>4. \/ hand'.ticket = Current /\ intent'.ticket = 0 /\ completion'.ticket = 0
        \/ hand'.ticket = 0 /\ intent'.ticket = Current /\ completion'.ticket = 0
        \/ hand'.ticket = 0 /\ intent'.ticket = 0 /\ completion'.ticket = Current
    BY <1>4, <2>3 DEF EnvelopePasses
  <2>5. Current' = Current /\ Current # 0
    BY <1>1, <2>1 DEF Current, ClaimOfCurrentStep, Claims, TypeOK, ExecutorTypes
  <2>6. AtMostOneClaim'
    BY <2>2, <2>3, <2>4 DEF AtMostOneClaim
  <2>7. ClaimOfCurrentStep'
    BY <2>2, <2>3, <2>4, <2>5 DEF ClaimOfCurrentStep
  <2>8. ClaimIffAwaited'
    BY <2>3, <2>4, <2>5 DEF ClaimIffAwaited
  <2> QED BY <2>6, <2>7, <2>8 DEF StepsRemain, OnlyExecutorClaims
<1>5. CASE head.ticket = 0
  <2>1. /\ hand'.ticket = 0 /\ intent'.ticket = 0 /\ completion'.ticket = completion.ticket
    BY <1>5 DEF EnvelopePasses
  <2>2. \A i \in Claims : i # 1 /\ i - 1 \in Claims'
    BY <1>1, <1>2, <1>5 DEF Claims
  <2>3. Claims' = {} <=> Claims = {}
    BY <1>3, <2>2
  <2>4. AtMostOneClaim'
    <3>1. \A i, j \in Claims' : i = j
      BY <1>2, <1>3 DEF AtMostOneClaim
    <3> QED BY <2>1, <2>3, <3>1 DEF AtMostOneClaim
  <2>5. ClaimOfCurrentStep'
    <3>1. \A i \in Claims' : queue'[i].ticket = Current
      BY <1>1, <1>2, <1>3 DEF ClaimOfCurrentStep
    <3> QED BY <2>1, <3>1 DEF ClaimOfCurrentStep, Current
  <2>6. ClaimIffAwaited'
    BY <2>1, <2>3 DEF ClaimIffAwaited
  <2> QED BY <2>4, <2>5, <2>6 DEF StepsRemain, OnlyExecutorClaims
<1> QED
  <2>1. head.ticket # 0 \/ head.ticket = 0
    OBVIOUS
  <2> QED BY <1>4, <1>5, <2>1

(* Appending to the queue adds at most the new envelope to the claims. *)
LEMMA AppendedClaims ==
  ASSUME queue \in Seq(EnvelopeType), NEW envelope \in EnvelopeType,
         queue' = Append(queue, envelope)
  PROVE  /\ Claims' = IF envelope.ticket # 0 THEN Claims \cup {Len(queue) + 1} ELSE Claims
         /\ \A i \in Claims : queue'[i] = queue[i]
         /\ queue'[Len(queue) + 1] = envelope
<1>1. /\ DOMAIN queue' = 1 .. Len(queue) + 1 /\ DOMAIN queue = 1 .. Len(queue)
      /\ \A i \in 1 .. Len(queue) : queue'[i] = queue[i]
      /\ queue'[Len(queue) + 1] = envelope /\ Len(queue) \in Nat
  BY AppendProperties
<1> QED BY <1>1 DEF Claims

(* A command sent without a completion carries no claim. *)
LEMMA SendKeepsProtocol ==
  ASSUME TypeOK, CompletionProtocol, NEW s \in Senders, NEW command \in Commands,
         Enqueue(s, Envelope(command, 0)),
         UNCHANGED <<hand, intent, completion, running, program, outcomes>>
  PROVE  CompletionProtocol'
<1>1. /\ Envelope(command, 0) \in EnvelopeType
      /\ Envelope(command, 0).ticket = 0
  BY DEF Envelope, EnvelopeType, TypeOK, ChannelTypes
<1>2. CASE Len(queue) < DriveQueueSize
  <2>1. /\ Claims' = Claims /\ \A i \in Claims : queue'[i] = queue[i]
        /\ blocked' = blocked
    BY <1>1, <1>2, AppendedClaims DEF Enqueue, TypeOK, ChannelTypes
  <2> QED
    BY <2>1 DEF CompletionProtocol, AtMostOneClaim, ClaimOfCurrentStep, ClaimIffAwaited,
       StepsRemain, OnlyExecutorClaims, Current
<1>3. CASE ~(Len(queue) < DriveQueueSize)
  <2>1. /\ queue' = queue /\ blocked'[Executor] = blocked[Executor]
        /\ \A t \in Senders : blocked'[t].ticket \in {0, blocked[t].ticket}
    BY <1>1, <1>3, ExecutorAssumption DEF Enqueue, TypeOK, ChannelTypes
  <2> QED
    BY <2>1 DEF CompletionProtocol, AtMostOneClaim, ClaimOfCurrentStep, ClaimIffAwaited,
       StepsRemain, OnlyExecutorClaims, Current, Claims
<1> QED BY <1>2, <1>3

(* A send that waited carries its envelope, claim and all, into the queue. *)
LEMMA FinishSendKeepsProtocol ==
  ASSUME TypeOK, CompletionProtocol, NEW s \in Senders \cup {Executor}, FinishSend(s)
  PROVE  CompletionProtocol'
<1> DEFINE envelope == blocked[s]
<1>1. /\ envelope \in EnvelopeType /\ queue' = Append(queue, envelope)
      /\ queue \in Seq(EnvelopeType) /\ Len(queue) \in Nat
      /\ UNCHANGED <<hand, intent, completion, running, program, outcomes>>
      /\ blocked' = [blocked EXCEPT ![s] = NoEnvelope]
      /\ blocked \in [Senders \cup {Executor} -> EnvelopeType \cup {NoEnvelope}]
  BY DEF FinishSend, TypeOK, ChannelTypes, loopVars, executorVars
<1>2. /\ Claims' = IF envelope.ticket # 0 THEN Claims \cup {Len(queue) + 1} ELSE Claims
      /\ \A i \in Claims : queue'[i] = queue[i]
      /\ queue'[Len(queue) + 1] = envelope
  BY <1>1, AppendedClaims
<1>3. CASE s \in Senders
  <2>1. envelope.ticket = 0 /\ blocked'[Executor] = blocked[Executor]
        /\ \A t \in Senders : blocked'[t].ticket \in {0, blocked[t].ticket}
    BY <1>1, <1>3, ExecutorAssumption DEF CompletionProtocol, OnlyExecutorClaims, NoEnvelope
  <2> QED
    BY <1>1, <1>2, <2>1 DEF CompletionProtocol, AtMostOneClaim, ClaimOfCurrentStep,
       ClaimIffAwaited, StepsRemain, OnlyExecutorClaims, Current
<1>4. CASE s = Executor
  <2>1. /\ envelope.ticket = Current /\ Current # 0
        /\ blocked'[Executor].ticket = 0
        /\ \A t \in Senders : blocked'[t] = blocked[t]
    <3>1. envelope # NoEnvelope
      BY DEF FinishSend
    <3> QED
      BY <1>1, <1>4, <3>1, ExecutorAssumption DEF CompletionProtocol, ClaimOfCurrentStep,
         NoEnvelope, Current, TypeOK, ExecutorTypes
  <2>2. /\ Claims = {} /\ hand.ticket = 0 /\ intent.ticket = 0 /\ completion.ticket = 0
        /\ running
    BY <1>4, <2>1 DEF CompletionProtocol, AtMostOneClaim, ClaimIffAwaited
  <2>3. Claims' = {Len(queue) + 1}
    BY <1>2, <2>1, <2>2
  <2>4. AtMostOneClaim'
    BY <1>1, <2>1, <2>2, <2>3 DEF AtMostOneClaim
  <2>5. ClaimOfCurrentStep'
    <3>1. blocked'[Executor] = NoEnvelope
      BY <1>1, <1>4
    <3> QED
      BY <1>1, <1>2, <2>1, <2>2, <2>3, <3>1 DEF ClaimOfCurrentStep, Current
  <2>6. ClaimIffAwaited' /\ StepsRemain' /\ OnlyExecutorClaims'
    BY <1>1, <2>1, <2>2, <2>3 DEF ClaimIffAwaited, StepsRemain, OnlyExecutorClaims,
       CompletionProtocol
  <2> QED BY <2>4, <2>5, <2>6 DEF CompletionProtocol
<1> QED BY <1>3, <1>4

(* The executor claims its first step when it takes a program, and the next *)
(* one when it receives a completion (queue.rs:206-259).                    *)
LEMMA NextClaimKeepsProtocol ==
  ASSUME TypeOK, OnlyExecutorClaims, NEW envelope \in EnvelopeType,
         Claims = {}, blocked[Executor] = NoEnvelope,
         hand'.ticket = 0, intent'.ticket = 0, completion'.ticket = 0,
         Enqueue(Executor, envelope), envelope.ticket = Current', Current' # 0,
         running' = TRUE, StepsRemain'
  PROVE  CompletionProtocol'
<1>1. CASE Len(queue) < DriveQueueSize
  <2>1. /\ Claims' = {Len(queue) + 1} /\ queue'[Len(queue) + 1].ticket = Current'
        /\ blocked' = blocked
    BY <1>1, AppendedClaims DEF Enqueue, TypeOK, ChannelTypes
  <2>2. AtMostOneClaim' /\ ClaimOfCurrentStep' /\ ClaimIffAwaited'
    BY <2>1 DEF AtMostOneClaim, ClaimOfCurrentStep, ClaimIffAwaited, NoEnvelope
  <2> QED BY <2>1, <2>2 DEF CompletionProtocol, OnlyExecutorClaims
<1>2. CASE ~(Len(queue) < DriveQueueSize)
  <2>1. /\ queue' = queue /\ blocked'[Executor] = envelope
        /\ \A s \in Senders : blocked'[s] = blocked[s]
    BY <1>2, ExecutorAssumption DEF Enqueue, TypeOK, ChannelTypes
  <2>2. Claims' = {}
    BY <2>1 DEF Claims
  <2>3. AtMostOneClaim' /\ ClaimOfCurrentStep' /\ ClaimIffAwaited'
    BY <2>1, <2>2 DEF AtMostOneClaim, ClaimOfCurrentStep, ClaimIffAwaited
  <2> QED BY <2>1, <2>3 DEF CompletionProtocol, OnlyExecutorClaims
<1> QED BY <1>1, <1>2

(* Nothing is claimed before the executor has taken a program and after it  *)
(* has answered for one.                                                    *)
LEMMA NoClaimKeepsProtocol ==
  ASSUME OnlyExecutorClaims, Claims = {}, blocked[Executor] = NoEnvelope,
         hand'.ticket = 0, intent'.ticket = 0, completion'.ticket = 0,
         UNCHANGED <<queue, blocked>>, running' = FALSE
  PROVE  CompletionProtocol'
BY DEF CompletionProtocol, AtMostOneClaim, ClaimOfCurrentStep, ClaimIffAwaited,
       StepsRemain, OnlyExecutorClaims, Claims, Current, NoEnvelope

LEMMA ExecutorKeepsProtocol ==
  ASSUME IInv, ExecutorTask
  PROVE  CompletionProtocol' /\ HandAndIntent'
<1> USE DEF IInv
<1>1. HandAndIntent'
  BY DEF ExecutorTask, TakeRequest, ReceiveCompletion, HandAndIntent, loopVars
<1>2. CASE TakeRequest
  <2>1. /\ Claims = {} /\ blocked[Executor] = NoEnvelope
        /\ hand.ticket = 0 /\ intent.ticket = 0 /\ completion.ticket = 0
        /\ OnlyExecutorClaims
    <3>1. ~running /\ Current # 0
      BY <1>2 DEF TakeRequest, TypeOK, ExecutorTypes, Current
    <3> QED
      BY <3>1 DEF CompletionProtocol, ClaimIffAwaited, ClaimOfCurrentStep
  <2>2. hand'.ticket = 0 /\ intent'.ticket = 0 /\ completion'.ticket = 0
    BY <1>2, <2>1 DEF TakeRequest, loopVars
  <2>3. CASE request = << >>
    <3>1. UNCHANGED <<queue, blocked>> /\ running' = FALSE
      BY <1>2, <2>3 DEF TakeRequest, SendReply
    <3> QED BY <1>1, <2>1, <2>2, <3>1, NoClaimKeepsProtocol
  <2>4. CASE request # << >>
    <3>1. /\ request \in Seq(Steps) /\ request[1] \in Steps /\ Len(request) > 0
      BY <1>2, <2>4, ProgramsAssumption, HeadTailProperties, EmptySeq
         DEF TakeRequest, TypeOK, SubmitTypes
    <3>2. Envelope(request[1].action, 1) \in EnvelopeType
      BY <3>1 DEF Envelope, EnvelopeType, Steps, TypeOK, ChannelTypes
    <3>3. /\ Enqueue(Executor, Envelope(request[1].action, 1))
          /\ outcomes' = << >> /\ program' = request /\ running' = TRUE
      BY <1>2, <2>4 DEF TakeRequest
    <3>4. Current' = 1 /\ StepsRemain'
      BY <3>1, <3>3 DEF Current, StepsRemain
    <3>5. Envelope(request[1].action, 1).ticket = 1
      BY DEF Envelope
    <3> QED
      BY <1>1, <2>1, <2>2, <3>2, <3>3, <3>4, <3>5, NextClaimKeepsProtocol
  <2> QED BY <2>3, <2>4
<1>3. CASE ReceiveCompletion
  <2> DEFINE position == Len(outcomes) + 1
             status == completion.status
             abort == program[position].abort
             last == position = Len(program) \/ (status # "Success" /\ abort)
  <2>1. /\ completion.ticket # 0 /\ status \in Statuses /\ outcomes \in Seq(Statuses)
        /\ position \in Nat \ {0} /\ program \in Seq(Steps) /\ running
        /\ Len(outcomes) < Len(program)
    BY <1>3 DEF ReceiveCompletion, TypeOK, ChannelTypes, ExecutorTypes,
       CompletionProtocol, StepsRemain
  <2>2. /\ Claims = {} /\ blocked[Executor] = NoEnvelope /\ OnlyExecutorClaims
        /\ hand.ticket = 0 /\ intent.ticket = 0
    BY <1>3, <2>1 DEF CompletionProtocol, AtMostOneClaim, ReceiveCompletion
  <2>3. /\ hand'.ticket = 0 /\ intent'.ticket = 0 /\ completion'.ticket = 0
        /\ program' = program
    BY <1>3, <2>2 DEF ReceiveCompletion, loopVars, NoCompletion
  <2>4. CASE last
    <3>1. UNCHANGED <<queue, blocked>> /\ running' = FALSE
      BY <1>3, <2>4 DEF ReceiveCompletion, SendReply
    <3> QED BY <1>1, <2>2, <2>3, <3>1, NoClaimKeepsProtocol
  <2>5. CASE ~last
    <3>1. position + 1 <= Len(program) /\ program[position + 1] \in Steps
      BY <2>1, <2>5
    <3>2. Envelope(program[position + 1].action, position + 1) \in EnvelopeType
      BY <2>1, <3>1 DEF Envelope, EnvelopeType, Steps, TypeOK, ChannelTypes
    <3>3. /\ Enqueue(Executor, Envelope(program[position + 1].action, position + 1))
          /\ outcomes' = Append(outcomes, status) /\ running' = TRUE
      BY <1>3, <2>1, <2>5 DEF ReceiveCompletion
    <3>4. Len(outcomes') = position
      BY <2>1, <3>3, AppendProperties
    <3>5. Current' = position + 1 /\ StepsRemain'
      BY <2>1, <2>3, <3>1, <3>4 DEF Current, StepsRemain
    <3>6. Envelope(program[position + 1].action, position + 1).ticket = position + 1
      BY DEF Envelope
    <3>7. Current' # 0
      BY <2>1, <3>5
    <3> QED
      BY <1>1, <2>2, <2>3, <3>2, <3>3, <3>5, <3>6, <3>7, NextClaimKeepsProtocol
  <2> QED BY <2>4, <2>5
<1> QED BY <1>1, <1>2, <1>3 DEF ExecutorTask

LEMMA DispatchKeepsProtocol ==
  ASSUME IInv, DispatchStep
  PROVE  CompletionProtocol' /\ HandAndIntent'
<1> USE DEF IInv
<1>1. UNCHANGED <<blocked, running, program, outcomes>>
  BY DEF DispatchStep, HandleEnvelope, ImuReady, ImuNotResponding, WakeElapsed,
     HeadingKnown, StandbyBraked, StandbyCoasted, CalibrationEnds, driveElsewhere,
     executorVars
<1>2. CASE HandleEnvelope
  <2>1. /\ queue # << >> /\ queue' = Tail(queue) /\ Head(queue) \in EnvelopeType
        /\ intent = NoIntent /\ hand = NoEnvelope
    <3>1. at = "poll" /\ intent = NoIntent /\ queue # << >> /\ queue' = Tail(queue)
      BY <1>2 DEF HandleEnvelope
    <3> QED
      BY <3>1, HeadTailProperties DEF TypeOK, ChannelTypes, HandAndIntent, Dispatching
  <2>2. /\ EnvelopePasses(Head(queue))
        /\ at' \in Calibrations => hand'.action \in Calibrations
    <3>1. CASE Stale(Head(queue))
      <4>1. Resolved(Head(queue), "Cancelled")
        BY <1>2, <3>1 DEF HandleEnvelope, CancelStale
      <4>2. at' = "poll"
        BY <4>1 DEF Resolved, BackToPoll
      <4> QED
        BY <2>1, <4>1, <4>2, HandlerPassesEnvelope DEF Statuses, Calibrations
    <3>2. CASE WakeThenPerform(Head(queue))
      BY <2>1, <3>2, PerformPassesEnvelope
    <3>3. CASE ~Stale(Head(queue)) /\ ~WakeThenPerform(Head(queue))
      <4>1. Suspended(Head(queue), "imuGate")
        BY <1>2, <3>3 DEF HandleEnvelope
      <4>2. at' = "imuGate" /\ "imuGate" \in Dispatching
        BY <4>1 DEF Suspended, Dispatching, Places
      <4> QED
        BY <2>1, <4>1, <4>2, HandlerPassesEnvelope DEF Calibrations
    <3> QED BY <3>1, <3>2, <3>3
  <2> QED
    BY <1>1, <2>1, <2>2, DequeueKeepsProtocol, PassedKeepsHandAndIntent
<1>3. CASE /\ at \in Dispatching
           /\ \/ ImuReady \/ ImuNotResponding \/ WakeElapsed \/ HeadingKnown
              \/ StandbyBraked \/ StandbyCoasted \/ CalibrationEnds
  <2>1. hand \in EnvelopeType /\ intent = NoIntent
    BY <1>3, HandTyped DEF HandAndIntent
  <2>2. /\ EnvelopePasses(hand)
        /\ at' \in Calibrations => hand'.action \in Calibrations
    <3>1. CASE ImuReady \/ WakeElapsed
      BY <2>1, <3>1, PerformPassesEnvelope DEF ImuReady, WakeElapsed
    <3>2. CASE HeadingKnown \/ ImuNotResponding \/ StandbyCoasted \/ CalibrationEnds
      <4>1. \/ Started(hand, "DriveDistance")
            \/ \E status \in Statuses : Resolved(hand, status)
        BY <3>2 DEF HeadingKnown, ImuNotResponding, StandbyCoasted, CalibrationEnds,
           Statuses
      <4>2. at' = "poll"
        BY <4>1 DEF Started, Resolved, BackToPoll
      <4> QED
        BY <2>1, <4>1, <4>2, HandlerPassesEnvelope DEF Calibrations, IntentKinds, Moving
    <3>3. CASE StandbyBraked
      <4>1. Suspended(hand, "standbyCoast")
        BY <3>3 DEF StandbyBraked
      <4>2. at' = "standbyCoast" /\ "standbyCoast" \in Dispatching
        BY <4>1 DEF Suspended, Dispatching, Places
      <4> QED
        BY <2>1, <4>1, <4>2, HandlerPassesEnvelope DEF Calibrations
    <3> QED BY <1>3, <3>1, <3>2, <3>3
  <2>3. LoopPassesClaim
    BY <2>1, <2>2 DEF EnvelopePasses, LoopPassesClaim, LoopKeepsClaims, NoEnvelope,
       NoIntent
  <2>4. queue' = queue
    BY <1>3 DEF ImuReady, ImuNotResponding, WakeElapsed, HeadingKnown, StandbyBraked,
       StandbyCoasted, CalibrationEnds
  <2> QED
    BY <1>1, <2>1, <2>2, <2>3, <2>4, LoopKeepsProtocol, PassedKeepsHandAndIntent
<1>4. HandleEnvelope \/ at \in Dispatching
  BY DEF DispatchStep, Dispatching, Places, ImuReady, ImuNotResponding, WakeElapsed,
     HeadingKnown, StandbyBraked, StandbyCoasted, CalibrationEnds, Calibrations
<1> QED BY <1>2, <1>3, <1>4 DEF DispatchStep

(* An interrupt resolves the claim of the intent, or else the queued one;   *)
(* with the claim elsewhere it resolves nothing (dispatch.rs:264-320).      *)
LEMMA InterruptKeepsProtocol ==
  ASSUME IInv, HandleInterrupt
  PROVE  CompletionProtocol' /\ HandAndIntent'
<1> USE DEF IInv
<1>1. /\ UNCHANGED <<blocked, at, hand, running, program, outcomes>>
      /\ queue' = << >> /\ intent' = NoIntent /\ at = "poll"
  BY DEF HandleInterrupt, executorVars
<1>2. Claims' = {}
  BY <1>1 DEF Claims
<1>3. hand.ticket = 0 /\ Current' = Current /\ Current # 0
  BY <1>1 DEF HandAndIntent, Dispatching, NoEnvelope, Current, TypeOK, ExecutorTypes
<1>4. HandAndIntent'
  BY <1>1 DEF HandAndIntent, Dispatching, Calibrations
<1>5. Requested = Claims
  BY DEF Requested, Claims
<1>6. completion'.ticket = IF intent.ticket # 0 \/ Claims # {}
                             THEN Current ELSE completion.ticket
  <2>1. CASE intent.ticket # 0
    BY <2>1 DEF HandleInterrupt, SendCompletion, CompletionProtocol, ClaimOfCurrentStep
  <2>2. CASE intent.ticket = 0 /\ Claims # {}
    <3>1. PICK i \in Claims : SendCompletion(queue[i].ticket, "Cancelled")
      BY <1>5, <2>2 DEF HandleInterrupt
    <3>2. queue[i].ticket = Current
      BY DEF CompletionProtocol, ClaimOfCurrentStep
    <3> QED BY <1>3, <2>2, <3>1, <3>2 DEF SendCompletion
  <2>3. CASE intent.ticket = 0 /\ Claims = {}
    BY <1>5, <2>3 DEF HandleInterrupt
  <2> QED BY <2>1, <2>2, <2>3
<1>7. AtMostOneClaim'
  BY <1>1, <1>2, <1>3, <1>6 DEF AtMostOneClaim, NoIntent, CompletionProtocol
<1>8. ClaimOfCurrentStep'
  BY <1>1, <1>2, <1>3, <1>6 DEF ClaimOfCurrentStep, NoIntent, CompletionProtocol
<1>9. ClaimIffAwaited' /\ StepsRemain' /\ OnlyExecutorClaims'
  BY <1>1, <1>2, <1>3, <1>6 DEF ClaimIffAwaited, StepsRemain, OnlyExecutorClaims,
     NoIntent, CompletionProtocol
<1> QED BY <1>4, <1>7, <1>8, <1>9 DEF CompletionProtocol

LEMMA DriveTaskKeepsProtocol ==
  ASSUME IInv, DriveTask
  PROVE  CompletionProtocol' /\ HandAndIntent'
<1> USE DEF IInv
<1>1. CASE DispatchStep
  BY <1>1, DispatchKeepsProtocol
<1>2. CASE HandleInterrupt
  BY <1>2, InterruptKeepsProtocol
<1>3. CASE IntentEnds
  <2>1. /\ \E status \in Statuses : ApplyCompletion(status)
        /\ at \notin Dispatching /\ UNCHANGED intentElsewhere
    BY <1>3 DEF IntentEnds, RotationEnds, DistanceEnds, BrakeCoastEnds, IdleElapsed,
       Ticking, Dispatching, Calibrations, Statuses
  <2>2. UNCHANGED <<queue, blocked, running, program, outcomes>>
    BY <2>1 DEF intentElsewhere, driveElsewhere, executorVars
  <2>3. hand = NoEnvelope
    BY <2>1 DEF HandAndIntent
  <2>4. LoopPassesClaim
    BY <2>1, <2>3 DEF ApplyCompletion, SendCompletion, BackToPoll, LoopPassesClaim,
       NoEnvelope, NoIntent
  <2>5. HandAndIntent'
    BY <2>1 DEF ApplyCompletion, BackToPoll, HandAndIntent, Dispatching, Calibrations
  <2> QED BY <2>2, <2>4, <2>5, LoopKeepsProtocol
<1>4. CASE \/ CalibrationDrives \/ RotationStep \/ RotationInProgress
           \/ RotationCorrection \/ CorrectionPulse
  <2>1. /\ UNCHANGED <<hand, intent, completion>>
        /\ UNCHANGED <<queue, blocked, running, program, outcomes>>
    BY <1>4 DEF CalibrationDrives, RotationStep, RotationInProgress, RotationCorrection,
       CorrectionPulse, intentElsewhere, driveElsewhere, executorVars
  <2>2. HandAndIntent'
    BY <1>4 DEF CalibrationDrives, RotationStep, RotationInProgress, RotationCorrection,
       CorrectionPulse, Ticking, HandAndIntent, Dispatching, Places, Calibrations
  <2> QED BY <2>1, <2>2, ClaimsUntouched DEF LoopKeepsClaims
<1> QED BY <1>1, <1>2, <1>3, <1>4 DEF DriveTask

-----------------------------------------------------------------------------
(* The invariant holds at the start and every step keeps it. *)

LEMMA InitEstablishes == Init => IInv
<1> SUFFICES ASSUME Init PROVE IInv
  OBVIOUS
<1> USE DEF Init, NoEnvelope, NoIntent, NoCompletion, NoReport
<1>1. << >> \in Seq(EnvelopeType) /\ << >> \in Seq(Steps) /\ << >> \in Seq(Statuses)
      /\ Len(<< >>) = 0
  BY EmptySeq
<1>2. ChannelTypes
  BY <1>1, SizeAssumption DEF ChannelTypes
<1>3. LoopTypes
  BY DEF LoopTypes, Places
<1>4. ExecutorTypes
  BY <1>1 DEF ExecutorTypes, EmptyTally, ReportType, Statuses
<1>5. SubmitTypes /\ sent \in 0 .. MaxSends /\ raised \in 0 .. MaxInterrupts
  <2>1. sent \in 0 .. MaxSends /\ raised \in 0 .. MaxInterrupts
    BY BoundsAssumption
  <2> QED BY <2>1 DEF SubmitTypes
<1>6. HandAndIntent
  BY DEF HandAndIntent, Dispatching, Calibrations
<1>7. CompletionProtocol
  <2>1. Claims = {} /\ Current = 1
    BY <1>1 DEF Claims, Current
  <2> QED
    BY <2>1 DEF CompletionProtocol, AtMostOneClaim, ClaimOfCurrentStep, ClaimIffAwaited,
       StepsRemain, OnlyExecutorClaims
<1> QED BY <1>2, <1>3, <1>4, <1>5, <1>6, <1>7 DEF IInv, TypeOK

LEMMA StutterKeeps ==
  ASSUME IInv, UNCHANGED vars
  PROVE  IInv'
<1> USE DEF vars, channelVars, loopVars, executorVars, submitVars, boundVars
<1>1. ChannelTypes' /\ LoopTypes' /\ ExecutorTypes'
  BY DEF IInv, TypeOK, ChannelTypes, LoopTypes, ExecutorTypes
<1>2. SubmitTypes' /\ sent' = sent /\ raised' = raised
  BY DEF IInv, TypeOK, SubmitTypes
<1>3. HandAndIntent'
  BY DEF IInv, HandAndIntent
<1>4. CompletionProtocol'
  BY ClaimsUntouched DEF IInv, LoopKeepsClaims
<1> QED BY <1>1, <1>2, <1>3, <1>4 DEF IInv, TypeOK

LEMMA StepKeeps == IInv /\ [Next]_vars => IInv'
<1> SUFFICES ASSUME IInv, [Next]_vars PROVE IInv'
  OBVIOUS
<1> USE DEF IInv
<1>1. ASSUME NEW s \in Senders, NEW command \in SentCommands, SendCommand(s, command)
      PROVE  IInv'
  <2>1. /\ Enqueue(s, Envelope(command, 0)) /\ command \in Commands
        /\ UNCHANGED <<hand, intent, completion, running, program, outcomes>>
        /\ HandAndIntent'
    BY <1>1, CommandsAssumption DEF SendCommand, HandAndIntent, loopVars, executorVars
  <2>2. CompletionProtocol'
    BY <2>1, SendKeepsProtocol
  <2> QED BY <1>1, <2>1, <2>2, SendsKeepTypes
<1>2. ASSUME NEW s \in Senders \cup {Executor}, FinishSend(s) PROVE IInv'
  <2>1. HandAndIntent'
    BY <1>2 DEF FinishSend, HandAndIntent, loopVars
  <2> QED BY <1>2, <2>1, SendsKeepTypes, FinishSendKeepsProtocol
<1>3. ASSUME NEW kind \in SentInterrupts, SendInterrupt(kind) PROVE IInv'
  <2>1. /\ UNCHANGED <<queue, blocked, running, program, outcomes>>
        /\ LoopKeepsClaims /\ HandAndIntent'
    BY <1>3 DEF SendInterrupt, HandAndIntent, LoopKeepsClaims, channelVars, loopVars,
       executorVars
  <2>2. TypeOK'
    <3>1. Executor \in Senders \cup {Executor}
      OBVIOUS
    <3> QED BY <1>3, <3>1, SendsKeepTypes
  <2> QED BY <2>1, <2>2, ClaimsUntouched
<1>4. ASSUME NEW p \in Producers,
             \/ \E steps \in Programs : Submit(p, steps)
             \/ SubmitRefused(p)
             \/ ReceiveReply(p)
      PROVE  IInv'
  <2>1. /\ UNCHANGED <<queue, blocked, running, program, outcomes>>
        /\ LoopKeepsClaims /\ HandAndIntent'
    BY <1>4 DEF Submit, SubmitRefused, ReceiveReply, HandAndIntent, LoopKeepsClaims,
       channelVars, loopVars, executorVars
  <2> QED BY <1>4, <2>1, ClaimsUntouched, ProducersKeepTypes
<1>5. CASE ExecutorTask
  BY <1>5, ExecutorKeepsTypes, ExecutorKeepsProtocol
<1>6. CASE DriveTask
  BY <1>6, DriveTaskKeepsTypes, DriveTaskKeepsProtocol
<1>7. CASE UNCHANGED vars
  BY <1>7, StutterKeeps
<1> QED BY <1>1, <1>2, <1>3, <1>4, <1>5, <1>6, <1>7 DEF Next

THEOREM Inductive == Spec => []IInv
<1> QED BY InitEstablishes, StepKeeps, PTL DEF Spec

(* Every channel, flag and task-local of the drive core keeps its type.     *)
THEOREM TypeCorrect == Spec => []TypeOK
<1>1. IInv => TypeOK
  BY DEF IInv
<1> QED BY <1>1, Inductive, PTL

(* api.rs:57 "awaits one command at a time": exactly one claim stands for   *)
(* the step the executor awaits, so no completion is lost, duplicated or    *)
(* delivered to another step, and no completion channel send blocks.        *)
THEOREM CompletionsMatchSteps == Spec => []CompletionProtocol
<1>1. IInv => CompletionProtocol
  BY DEF IInv
<1> QED BY <1>1, Inductive, PTL

-----------------------------------------------------------------------------
(* One submission at a time. *)

(* Senders, interrupts and the drive task touch neither the executor nor    *)
(* what submit shares with it.                                              *)
LEMMA QuietSteps ==
  \/ DriveTask
  \/ \E s \in Senders, command \in SentCommands : SendCommand(s, command)
  \/ \E s \in Senders \cup {Executor} : FinishSend(s)
  \/ \E kind \in SentInterrupts : SendInterrupt(kind)
  \/ UNCHANGED vars
  => UNCHANGED <<executorVars, submitVars>>
<1>1. DriveTask => UNCHANGED <<executorVars, submitVars>>
  BY DEF DriveTask, DispatchStep, HandleEnvelope, ImuReady, ImuNotResponding,
     WakeElapsed, HeadingKnown, StandbyBraked, StandbyCoasted, CalibrationEnds,
     CalibrationDrives, RotationStep, RotationInProgress, RotationCorrection,
     CorrectionPulse, IntentEnds, RotationEnds, DistanceEnds, BrakeCoastEnds,
     IdleElapsed, HandleInterrupt, intentElsewhere, driveElsewhere
<1>2. ASSUME NEW s, \/ \E command \in SentCommands : SendCommand(s, command)
                    \/ FinishSend(s)
                    \/ \E kind \in SentInterrupts : SendInterrupt(kind)
      PROVE  UNCHANGED <<executorVars, submitVars>>
  BY <1>2 DEF SendCommand, FinishSend, SendInterrupt
<1>3. UNCHANGED vars => UNCHANGED <<executorVars, submitVars>>
  BY DEF vars
<1> QED BY <1>1, <1>2, <1>3

LEMMA SubmissionInit == Init => SubmissionProtocol
BY DEF Init, SubmissionProtocol

LEMMA SubmissionStep ==
  ASSUME IInv, SubmissionProtocol, [Next]_vars
  PROVE  SubmissionProtocol'
<1> USE DEF SubmissionProtocol
<1>1. ASSUME NEW p \in Producers, NEW steps \in Programs, Submit(p, steps)
      PROVE  SubmissionProtocol'
  <2>1. steps # NoRequest /\ waiting \in [Producers -> BOOLEAN]
    BY NoRequestAssumption DEF IInv, TypeOK, SubmitTypes
  <2>2. /\ ~running /\ request = NoRequest /\ ~inUse /\ \A q \in Producers : ~waiting[q]
        /\ running' = running
    BY <1>1 DEF Submit, SlotFree, executorVars
  <2> QED BY <1>1, <2>1, <2>2 DEF Submit
<1>2. ASSUME NEW p \in Producers, SubmitRefused(p) PROVE SubmissionProtocol'
  BY <1>2 DEF SubmitRefused, executorVars
<1>3. ASSUME NEW p \in Producers, ReceiveReply(p) PROVE SubmissionProtocol'
  <2>1. /\ waiting \in [Producers -> BOOLEAN] /\ \A q \in Producers : waiting[q] => q = p
        /\ inUse /\ ~busy /\ running' = running
    BY <1>3 DEF ReceiveReply, executorVars, IInv, TypeOK, SubmitTypes
  <2>2. \A q \in Producers : ~waiting'[q]
    BY <1>3, <2>1 DEF ReceiveReply
  <2> QED BY <1>3, <2>1, <2>2 DEF ReceiveReply
<1>4. CASE TakeRequest
  <2>1. EmptyTally # NoReport
    BY DEF EmptyTally, NoReport
  <2> QED BY <1>4, <2>1 DEF TakeRequest, SendReply
<1>5. CASE ReceiveCompletion
  <2>1. Tallied(tally, completion.status, Len(outcomes) + 1,
                program[Len(outcomes) + 1].abort) # NoReport
    <3>1. tally.status # "none" /\ completion.status # "none"
      BY <1>5 DEF ReceiveCompletion, IInv, TypeOK, ChannelTypes, ExecutorTypes,
         ReportType, Statuses
    <3> QED BY <3>1 DEF Tallied, NoReport
  <2> QED BY <1>5, <2>1 DEF ReceiveCompletion, SendReply
<1>6. CASE UNCHANGED <<running, request, reply, busy, inUse, waiting>>
  BY <1>6
<1>7. UNCHANGED <<executorVars, submitVars>>
        => UNCHANGED <<running, request, reply, busy, inUse, waiting>>
  BY DEF executorVars, submitVars
<1> QED
  BY <1>1, <1>2, <1>3, <1>4, <1>5, <1>6, <1>7, QuietSteps DEF Next, ExecutorTask

(* queue.rs:4-9: the busy flag, the reply slot and the waiting producer stay *)
(* in step, so a reply reaches the one producer that submitted.             *)
THEOREM OneSubmissionAtATime == Spec => []SubmissionProtocol
<1> QED BY SubmissionInit, SubmissionStep, Inductive, PTL DEF Spec

-----------------------------------------------------------------------------
(* No stale command is under way. *)

LEMMA FreshStep ==
  ASSUME IInv, NothingStaleUnderWay, [Next]_vars
  PROVE  NothingStaleUnderWay'
<1> USE DEF NothingStaleUnderWay
<1>1. CASE HandleEnvelope
  <2>1. epoch' = epoch
    BY <1>1 DEF HandleEnvelope
  <2>2. CASE Stale(Head(queue))
    BY <1>1, <2>2 DEF HandleEnvelope, CancelStale, Resolved, BackToPoll
  <2>3. CASE ~Stale(Head(queue))
    <3>1. hand' \in {Head(queue), NoEnvelope}
      BY <1>1, <2>3 DEF HandleEnvelope, WakeThenPerform, Perform, Resolved, Started,
         Suspended, BackToPoll
    <3> QED BY <2>1, <2>3, <3>1 DEF Stale
  <2> QED BY <2>2, <2>3
<1>2. CASE HandleInterrupt
  <2>1. hand = NoEnvelope /\ hand' = hand
    BY <1>2 DEF HandleInterrupt, IInv, HandAndIntent, Dispatching
  <2> QED BY <2>1
<1>3. CASE epoch' = epoch /\ hand' \in {hand, NoEnvelope}
  BY <1>3
<1>4. ASSUME DriveTask, ~HandleEnvelope, ~HandleInterrupt
      PROVE  epoch' = epoch /\ hand' \in {hand, NoEnvelope}
  BY <1>4 DEF DriveTask, DispatchStep, ImuReady, ImuNotResponding, WakeElapsed,
     HeadingKnown, StandbyBraked, StandbyCoasted, CalibrationEnds, CalibrationDrives,
     RotationStep, RotationInProgress, RotationCorrection, CorrectionPulse, IntentEnds,
     RotationEnds, DistanceEnds, BrakeCoastEnds, IdleElapsed, ApplyCompletion,
     WakeThenPerform, Perform, Resolved, Started, Suspended, BackToPoll,
     intentElsewhere
<1>5. ASSUME ~DriveTask PROVE epoch' = epoch /\ hand' = hand
  BY <1>5 DEF Next, ExecutorTask, TakeRequest, ReceiveCompletion, SendCommand,
     FinishSend, SendInterrupt, Submit, SubmitRefused, ReceiveReply, vars, loopVars
<1> QED BY <1>1, <1>2, <1>3, <1>4, <1>5

(* dispatch.rs:34: a command stamped before the last interrupt is never     *)
(* under way, however many interrupts were handled while it waited.         *)
THEOREM OnlyFreshCommandsRun == Spec => []NothingStaleUnderWay
<1>1. Init => NothingStaleUnderWay
  BY DEF Init, NothingStaleUnderWay
<1> QED BY <1>1, FreshStep, Inductive, PTL DEF Spec

-----------------------------------------------------------------------------
(* The motors. *)

(* What is driven outside a calibration is driven for an intent, and what   *)
(* the task drives or is about to drive it has woken.                       *)
MotionInv ==
  /\ motors = "drive" /\ at \notin Calibrations => intent.kind \in Moving
  /\ motors = "free" \/ intent.kind \in Moving => ~standby
  /\ at \in {"wake", "heading"} => ~standby
  /\ at = "standbyCoast" => motors = "coast"

LEMMA PerformMotion ==
  ASSUME MotionInv, intent = NoIntent, at \notin Calibrations,
         NEW envelope \in EnvelopeType, WakeThenPerform(envelope) \/ Perform(envelope),
         Perform(envelope) /\ envelope.action \in Movements => ~standby
  PROVE  MotionInv'
<1> USE DEF MotionInv, NoIntent, Moving
<1>1. motors # "drive"
  OBVIOUS
<1>2. CASE Perform(envelope)
  BY <1>1, <1>2 DEF Perform, Resolved, Started, Suspended, BackToPoll, Movements,
     Calibrations
<1>3. CASE ~Perform(envelope)
  BY <1>1, <1>3 DEF WakeThenPerform, Suspended, Calibrations
<1> QED BY <1>2, <1>3

LEMMA MotionStep ==
  ASSUME IInv, MotionInv, [Next]_vars
  PROVE  MotionInv'
<1>1. CASE HandleEnvelope
  <2>1. /\ Head(queue) \in EnvelopeType /\ intent = NoIntent /\ at = "poll"
        /\ at \notin Calibrations
    BY <1>1, HeadTailProperties DEF HandleEnvelope, IInv, TypeOK, ChannelTypes,
       Calibrations
  <2>2. CASE WakeThenPerform(Head(queue))
    <3>1. Perform(Head(queue)) /\ Head(queue).action \in Movements => ~standby
      BY <2>2 DEF WakeThenPerform, NeedsWake, Perform, Suspended, Resolved, Started,
         BackToPoll, Movements, Calibrations
    <3> QED BY <2>1, <2>2, <3>1, PerformMotion
  <2>3. CASE ~WakeThenPerform(Head(queue))
    BY <1>1, <2>1, <2>3 DEF HandleEnvelope, MotionInv, CancelStale, Resolved,
       Suspended, BackToPoll, NoIntent, Moving, Calibrations
  <2> QED BY <2>2, <2>3
<1>2. CASE ImuReady
  <2>1. hand \in EnvelopeType /\ intent = NoIntent /\ at \notin Calibrations
    BY <1>2, HandTyped DEF ImuReady, IInv, HandAndIntent, Dispatching, Places,
       Calibrations
  <2>2. Perform(hand) /\ hand.action \in Movements => ~standby
    BY <1>2 DEF ImuReady, WakeThenPerform, NeedsWake, Perform, Suspended, Resolved,
       Started, BackToPoll, Movements, Calibrations
  <2> QED BY <1>2, <2>1, <2>2, PerformMotion DEF ImuReady
<1>3. CASE WakeElapsed
  <2>1. /\ hand \in EnvelopeType /\ intent = NoIntent /\ at \notin Calibrations
        /\ ~standby
    BY <1>3, HandTyped DEF WakeElapsed, IInv, HandAndIntent, Dispatching, Places,
       Calibrations, MotionInv
  <2> QED BY <1>3, <2>1, PerformMotion DEF WakeElapsed
<1>4. CASE ImuNotResponding \/ HeadingKnown \/ StandbyBraked \/ StandbyCoasted
  <2>1. intent = NoIntent
    BY <1>4 DEF ImuNotResponding, HeadingKnown, StandbyBraked, StandbyCoasted, IInv,
       HandAndIntent, Dispatching, Places, Calibrations
  <2> QED
    BY <1>4, <2>1 DEF ImuNotResponding, HeadingKnown, StandbyBraked, StandbyCoasted,
       MotionInv, Resolved, Started, Suspended, BackToPoll, NoIntent, Moving,
       Calibrations
<1>5. CASE CalibrationDrives \/ CalibrationEnds
  BY <1>5 DEF CalibrationDrives, CalibrationEnds, MotionInv, Resolved, BackToPoll,
     Calibrations
<1>6. CASE RotationStep \/ RotationInProgress \/ RotationCorrection \/ CorrectionPulse
  BY <1>6 DEF RotationStep, RotationInProgress, RotationCorrection, CorrectionPulse,
     Ticking, MotionInv, IInv, HandAndIntent, Moving, Calibrations, intentElsewhere
<1>7. CASE IntentEnds
  BY <1>7 DEF IntentEnds, RotationEnds, DistanceEnds, BrakeCoastEnds, IdleElapsed,
     ApplyCompletion, BackToPoll, Teardown, Ticking, MotionInv, Moving, NoIntent,
     Calibrations, intentElsewhere
<1>8. CASE HandleInterrupt
  BY <1>8 DEF HandleInterrupt, StoppedMotors, MotionInv, Moving, NoIntent, Calibrations
<1>9. ASSUME ~DriveTask PROVE UNCHANGED <<motors, at, intent, standby>>
  BY <1>9 DEF Next, ExecutorTask, TakeRequest, ReceiveCompletion, SendCommand,
     FinishSend, SendInterrupt, Submit, SubmitRefused, ReceiveReply, vars, loopVars
<1> QED
  BY <1>1, <1>2, <1>3, <1>4, <1>5, <1>6, <1>7, <1>8, <1>9
     DEF DriveTask, DispatchStep, MotionInv

THEOREM MotionIsAccountedFor == Spec => []MotionInv
<1>1. Init => MotionInv
  BY DEF Init, MotionInv, NoIntent, Moving, Calibrations
<1> QED BY <1>1, MotionStep, Inductive, PTL DEF Spec

(* rotation.rs, distance.rs, dispatch.rs:264-320: no exit of a controller   *)
(* and no interrupt leaves the tracks driving with no intent to stop them.  *)
THEOREM NeverLeftDriving == Spec => []MovesOnlyForAnIntent
<1>1. MotionInv => MovesOnlyForAnIntent
  BY DEF MotionInv, MovesOnlyForAnIntent, Calibrations
<1> QED BY <1>1, MotionIsAccountedFor, PTL

(* dispatch.rs:149-162: the loop wakes the drivers, by its own account of   *)
(* them, before it drives or frees the tracks.                              *)
THEOREM DrivesAwake == Spec => []AwakeWhenDriving
<1>1. IInv /\ MotionInv => AwakeWhenDriving
  BY DEF MotionInv, AwakeWhenDriving
<1> QED BY <1>1, Inductive, MotionIsAccountedFor, PTL

-----------------------------------------------------------------------------
(* An interrupt cancels the open step. *)

(* Nothing is stamped with an epoch that is still to come. *)
EpochInv ==
  /\ \A i \in DOMAIN queue : queue[i].epoch <= epoch
  /\ \A s \in Senders \cup {Executor} : blocked[s].epoch <= epoch

LEMMA EnqueueEpochs ==
  ASSUME TypeOK, EpochInv, NEW s \in Senders \cup {Executor},
         NEW envelope \in EnvelopeType, envelope.epoch <= epoch,
         Enqueue(s, envelope), epoch' = epoch
  PROVE  EpochInv'
<1>1. CASE Len(queue) < DriveQueueSize
  <2>1. /\ DOMAIN queue' = 1 .. Len(queue) + 1 /\ DOMAIN queue = 1 .. Len(queue)
        /\ \A i \in 1 .. Len(queue) : queue'[i] = queue[i]
        /\ queue'[Len(queue) + 1] = envelope /\ Len(queue) \in Nat
        /\ blocked' = blocked
    BY <1>1, AppendProperties DEF Enqueue, TypeOK, ChannelTypes
  <2> QED BY <2>1 DEF EpochInv
<1>2. CASE ~(Len(queue) < DriveQueueSize)
  BY <1>2 DEF Enqueue, EpochInv, TypeOK, ChannelTypes
<1> QED BY <1>1, <1>2

LEMMA EpochStep ==
  ASSUME IInv, EpochInv, [Next]_vars
  PROVE  EpochInv'
<1>1. \A command, ticket : Envelope(command, ticket).epoch = epoch
  BY DEF Envelope
<1>2. epoch \in Nat /\ epoch <= epoch
  BY DEF IInv, TypeOK, ChannelTypes
<1>3. ASSUME NEW s \in Senders, NEW command \in SentCommands, SendCommand(s, command)
      PROVE  EpochInv'
  <2>1. Envelope(command, 0) \in EnvelopeType
    BY <1>2, CommandsAssumption DEF Envelope, EnvelopeType
  <2> QED BY <1>1, <1>2, <1>3, <2>1, EnqueueEpochs DEF SendCommand, IInv
<1>4. ASSUME NEW s \in Senders \cup {Executor}, FinishSend(s) PROVE EpochInv'
  <2>1. /\ blocked[s] \in EnvelopeType /\ blocked[s].epoch <= epoch
        /\ queue' = Append(queue, blocked[s]) /\ epoch' = epoch
        /\ blocked' = [blocked EXCEPT ![s] = NoEnvelope]
        /\ blocked \in [Senders \cup {Executor} -> EnvelopeType \cup {NoEnvelope}]
    BY <1>4 DEF FinishSend, IInv, TypeOK, ChannelTypes, EpochInv
  <2>2. /\ DOMAIN queue' = 1 .. Len(queue) + 1 /\ DOMAIN queue = 1 .. Len(queue)
        /\ \A i \in 1 .. Len(queue) : queue'[i] = queue[i]
        /\ queue'[Len(queue) + 1] = blocked[s] /\ Len(queue) \in Nat
    BY <2>1, AppendProperties DEF IInv, TypeOK, ChannelTypes
  <2>3. NoEnvelope.epoch <= epoch
    BY <1>2 DEF NoEnvelope
  <2> QED BY <2>1, <2>2, <2>3 DEF EpochInv
<1>5. CASE TakeRequest
  <2>1. CASE request = << >>
    BY <1>5, <2>1 DEF TakeRequest, EpochInv
  <2>2. CASE request # << >>
    <3>1. request[1] \in Steps
      BY <1>5, <2>2, ProgramsAssumption, HeadTailProperties
         DEF TakeRequest, IInv, TypeOK, SubmitTypes
    <3>2. Envelope(request[1].action, 1) \in EnvelopeType
      BY <1>2, <3>1 DEF Envelope, EnvelopeType, Steps
    <3> QED
      BY <1>1, <1>2, <1>5, <2>2, <3>2, EnqueueEpochs DEF TakeRequest, IInv
  <2> QED BY <2>1, <2>2
<1>6. CASE ReceiveCompletion
  <2> DEFINE position == Len(outcomes) + 1
             next == Envelope(program[position + 1].action, position + 1)
  <2>1. UNCHANGED <<queue, blocked>> \/ Enqueue(Executor, next)
    BY <1>6 DEF ReceiveCompletion
  <2>2. CASE UNCHANGED <<queue, blocked>>
    BY <1>6, <2>2 DEF ReceiveCompletion, EpochInv
  <2>3. CASE Enqueue(Executor, next) /\ ~UNCHANGED <<queue, blocked>>
    <3>1. /\ Len(outcomes) < Len(program) /\ position # Len(program)
          /\ outcomes \in Seq(Statuses) /\ program \in Seq(Steps)
      BY <1>6, <2>3 DEF ReceiveCompletion, IInv, CompletionProtocol, StepsRemain,
         TypeOK, ExecutorTypes
    <3>2. program[position + 1] \in Steps /\ position + 1 \in Nat
      BY <3>1
    <3>3. next \in EnvelopeType
      BY <1>2, <3>2 DEF Envelope, EnvelopeType, Steps
    <3> QED
      BY <1>1, <1>2, <1>6, <2>3, <3>3, EnqueueEpochs DEF ReceiveCompletion, IInv
  <2> QED BY <2>1, <2>2, <2>3
<1>7. CASE HandleEnvelope
  <2>1. /\ DOMAIN queue' = 1 .. Len(queue) - 1 /\ DOMAIN queue = 1 .. Len(queue)
        /\ \A i \in DOMAIN queue' : queue'[i] = queue[i + 1]
        /\ Len(queue) \in Nat
    BY <1>7, HeadTailProperties DEF HandleEnvelope, IInv, TypeOK, ChannelTypes
  <2>2. UNCHANGED <<blocked, epoch>>
    BY <1>7 DEF HandleEnvelope, driveElsewhere
  <2> QED BY <2>1, <2>2 DEF EpochInv
<1>8. CASE HandleInterrupt
  <2>1. queue' = << >> /\ blocked' = blocked /\ epoch' = epoch + 1
    BY <1>8 DEF HandleInterrupt, NextEpoch
  <2>2. \A s \in Senders \cup {Executor} : blocked[s].epoch \in Nat
    BY DEF IInv, TypeOK, ChannelTypes, EnvelopeType, NoEnvelope
  <2> QED BY <1>2, <2>1, <2>2 DEF EpochInv
<1>9. ASSUME DriveTask, ~HandleEnvelope, ~HandleInterrupt
      PROVE  UNCHANGED <<queue, blocked, epoch>>
  BY <1>9 DEF DriveTask, DispatchStep, ImuReady, ImuNotResponding, WakeElapsed,
     HeadingKnown, StandbyBraked, StandbyCoasted, CalibrationEnds, CalibrationDrives,
     RotationStep, RotationInProgress, RotationCorrection, CorrectionPulse, IntentEnds,
     RotationEnds, DistanceEnds, BrakeCoastEnds, IdleElapsed, intentElsewhere,
     driveElsewhere
<1>10. ASSUME NEW kind, NEW p,
              \/ SendInterrupt(kind)
              \/ \E steps \in Programs : Submit(p, steps)
              \/ SubmitRefused(p)
              \/ ReceiveReply(p)
              \/ UNCHANGED vars
       PROVE  UNCHANGED <<queue, blocked, epoch>>
  BY <1>10 DEF SendInterrupt, Submit, SubmitRefused, ReceiveReply, vars, channelVars
<1>11. CASE UNCHANGED <<queue, blocked, epoch>>
  BY <1>11 DEF EpochInv
<1> QED
  BY <1>3, <1>4, <1>5, <1>6, <1>7, <1>8, <1>9, <1>10, <1>11 DEF Next, ExecutorTask

(* Once an interrupt was handled with the step open, wherever the step's    *)
(* claim still is, it can only turn into Cancelled.                         *)
StruckInv ==
  struck =>
    /\ running
    /\ hand.ticket = 0 /\ intent.ticket = 0
    /\ \A i \in Claims : queue[i].epoch < epoch
    /\ blocked[Executor] # NoEnvelope => blocked[Executor].epoch < epoch
    /\ completion # NoCompletion => completion.status = "Cancelled"

(* With no claim in it, an envelope or intent leaves the completion alone.  *)
LEMMA DispatchOfNoClaim ==
  ASSUME NEW envelope, envelope.ticket = 0, intent.ticket = 0,
         \/ \E status : Resolved(envelope, status)
         \/ \E kind : Started(envelope, kind)
         \/ \E place : Suspended(envelope, place)
  PROVE  hand'.ticket = 0 /\ intent'.ticket = 0 /\ completion' = completion
BY DEF Resolved, Started, Suspended, SendCompletion, BackToPoll, NoEnvelope

LEMMA HandlersResolveStartOrSuspend ==
  ASSUME NEW envelope, WakeThenPerform(envelope) \/ Perform(envelope)
  PROVE  \/ \E status : Resolved(envelope, status)
         \/ \E kind : Started(envelope, kind)
         \/ \E place : Suspended(envelope, place)
BY DEF WakeThenPerform, Perform

LEMMA StruckHandle ==
  ASSUME IInv, StruckInv, struck, HandleEnvelope
  PROVE  StruckInv'
<1>1. /\ DOMAIN queue' = 1 .. Len(queue) - 1 /\ DOMAIN queue = 1 .. Len(queue)
      /\ \A i \in DOMAIN queue' : queue'[i] = queue[i + 1]
      /\ Len(queue) \in Nat /\ Head(queue) = queue[1] /\ 1 \in DOMAIN queue
  BY HeadTailProperties DEF HandleEnvelope, IInv, TypeOK, ChannelTypes
<1>2. /\ UNCHANGED <<epoch, blocked, running, struck>> /\ epoch \in Nat
      /\ hand.ticket = 0 /\ intent.ticket = 0
  BY DEF HandleEnvelope, driveElsewhere, executorVars, StruckInv, IInv, TypeOK,
     ChannelTypes
<1>3. \A i \in Claims' : queue'[i].epoch < epoch
  <2>1. \A i \in Claims' : i + 1 \in Claims /\ queue'[i] = queue[i + 1]
    BY <1>1 DEF Claims
  <2> QED BY <2>1 DEF StruckInv
<1>4. /\ hand'.ticket = 0 /\ intent'.ticket = 0
      /\ completion' # NoCompletion => completion'.status = "Cancelled"
  <2>1. CASE Stale(Head(queue))
    BY <1>2, <2>1 DEF HandleEnvelope, CancelStale, Resolved, SendCompletion, BackToPoll,
       NoEnvelope, StruckInv
  <2>2. CASE ~Stale(Head(queue))
    <3>1. Head(queue).ticket = 0
      <4>1. SUFFICES ASSUME Head(queue).ticket # 0 PROVE FALSE
        OBVIOUS
      <4>2. 1 \in Claims /\ queue[1].epoch < epoch
        BY <1>1, <4>1 DEF Claims, StruckInv
      <4> QED BY <1>1, <1>2, <2>2, <4>2 DEF Stale
    <3>2. WakeThenPerform(Head(queue)) \/ Suspended(Head(queue), "imuGate")
      BY <2>2 DEF HandleEnvelope
    <3>3. hand'.ticket = 0 /\ intent'.ticket = 0 /\ completion' = completion
      BY <1>2, <3>1, <3>2, HandlersResolveStartOrSuspend, DispatchOfNoClaim
    <3> QED BY <3>3 DEF StruckInv
  <2> QED BY <2>1, <2>2
<1> QED BY <1>2, <1>3, <1>4 DEF StruckInv

(* The interrupt finds the open step's claim in the intent or the queue, and *)
(* cancels it; or blocked at the full queue, and its epoch is now old.      *)
LEMMA StruckInterrupt ==
  ASSUME IInv, EpochInv, StruckInv, HandleInterrupt
  PROVE  StruckInv'
<1>1. SUFFICES ASSUME struck' PROVE StruckInv'
  BY DEF StruckInv
<1>2. /\ queue' = << >> /\ intent' = NoIntent /\ UNCHANGED <<blocked, hand, running>>
      /\ epoch' = epoch + 1 /\ epoch \in Nat
  BY DEF HandleInterrupt, NextEpoch, executorVars, IInv, TypeOK, ChannelTypes
<1>3. Claims' = {}
  BY <1>2 DEF Claims
<1>4. running
  BY <1>1 DEF HandleInterrupt, StruckInv
<1>5. hand.ticket = 0
  BY DEF HandleInterrupt, IInv, HandAndIntent, Dispatching, NoEnvelope
<1>6. blocked[Executor] # NoEnvelope => blocked'[Executor].epoch < epoch'
  <2>1. blocked[Executor].epoch \in Nat /\ blocked[Executor].epoch <= epoch
    BY DEF EpochInv, IInv, TypeOK, ChannelTypes, EnvelopeType, NoEnvelope
  <2> QED BY <1>2, <2>1
<1>7. completion' # NoCompletion => completion'.status = "Cancelled"
  <2>1. completion # NoCompletion => completion.status = "Cancelled"
    BY <1>1 DEF HandleInterrupt, StruckInv
  <2>2. completion' = completion \/ completion'.status = "Cancelled"
    BY DEF HandleInterrupt, SendCompletion
  <2> QED BY <2>1, <2>2
<1> QED
  BY <1>2, <1>3, <1>4, <1>5, <1>6, <1>7 DEF StruckInv, NoIntent

LEMMA StruckStep ==
  ASSUME IInv, EpochInv, StruckInv, [Next]_vars
  PROVE  StruckInv'
<1>1. CASE HandleEnvelope
  <2>1. struck' = struck
    BY <1>1 DEF HandleEnvelope, driveElsewhere
  <2> QED BY <1>1, <2>1, StruckHandle DEF StruckInv
<1>2. CASE HandleInterrupt
  BY <1>2, StruckInterrupt
<1>3. CASE ReceiveCompletion
  BY <1>3 DEF ReceiveCompletion, StruckInv
<1>4. CASE TakeRequest
  BY <1>4 DEF TakeRequest, StruckInv
<1>5. ASSUME NEW s \in Senders, NEW command \in SentCommands, SendCommand(s, command)
      PROVE  StruckInv'
  <2>1. /\ UNCHANGED <<struck, running, hand, intent, completion, epoch>>
        /\ Enqueue(s, Envelope(command, 0))
    BY <1>5 DEF SendCommand, executorVars, loopVars
  <2>2. blocked'[Executor] = blocked[Executor]
    BY <2>1, ExecutorAssumption DEF Enqueue, IInv, TypeOK, ChannelTypes
  <2>3. \A i \in Claims' : i \in Claims /\ queue'[i] = queue[i]
    <3>1. /\ Envelope(command, 0) \in EnvelopeType /\ Envelope(command, 0).ticket = 0
          /\ queue \in Seq(EnvelopeType)
      BY CommandsAssumption DEF Envelope, EnvelopeType, IInv, TypeOK, ChannelTypes
    <3>2. CASE queue' = queue
      BY <3>2 DEF Claims
    <3>3. CASE queue' # queue
      <4>1. queue' = Append(queue, Envelope(command, 0))
        BY <2>1, <3>3 DEF Enqueue
      <4> QED BY <3>1, <4>1, AppendedClaims
    <3> QED BY <3>2, <3>3
  <2> QED BY <2>1, <2>2, <2>3 DEF StruckInv
<1>6. ASSUME NEW s \in Senders \cup {Executor}, FinishSend(s) PROVE StruckInv'
  <2>1. /\ UNCHANGED <<struck, running, hand, intent, completion, epoch>>
        /\ blocked[s] \in EnvelopeType /\ blocked[s] # NoEnvelope
        /\ queue' = Append(queue, blocked[s])
        /\ blocked' = [blocked EXCEPT ![s] = NoEnvelope] /\ queue \in Seq(EnvelopeType)
    BY <1>6 DEF FinishSend, executorVars, loopVars, IInv, TypeOK, ChannelTypes
  <2>2. blocked'[Executor] \in {blocked[Executor], NoEnvelope}
    BY <2>1 DEF IInv, TypeOK, ChannelTypes
  <2>3. blocked[s].ticket # 0 => s = Executor
    BY DEF IInv, CompletionProtocol, OnlyExecutorClaims
  <2>4. /\ Claims' = IF blocked[s].ticket # 0 THEN Claims \cup {Len(queue) + 1} ELSE Claims
        /\ \A i \in Claims : queue'[i] = queue[i]
        /\ queue'[Len(queue) + 1] = blocked[s]
    BY <2>1, AppendedClaims
  <2>5. struck => \A i \in Claims' : queue'[i].epoch < epoch
    BY <2>1, <2>3, <2>4 DEF StruckInv
  <2> QED BY <2>1, <2>2, <2>5 DEF StruckInv
<1>7. ASSUME DispatchStep, ~HandleEnvelope PROVE StruckInv'
  <2>1. UNCHANGED <<queue, epoch, blocked, running, struck>>
    BY <1>7 DEF DispatchStep, ImuReady, ImuNotResponding, WakeElapsed, HeadingKnown,
       StandbyBraked, StandbyCoasted, CalibrationEnds, driveElsewhere, executorVars
  <2>2. \/ \E status : Resolved(hand, status)
        \/ \E kind : Started(hand, kind)
        \/ \E place : Suspended(hand, place)
    BY <1>7, HandlersResolveStartOrSuspend DEF DispatchStep, ImuReady, ImuNotResponding,
       WakeElapsed, HeadingKnown, StandbyBraked, StandbyCoasted, CalibrationEnds
  <2>3. struck => hand'.ticket = 0 /\ intent'.ticket = 0 /\ completion' = completion
    BY <2>2, DispatchOfNoClaim DEF StruckInv
  <2> QED BY <2>1, <2>3 DEF StruckInv, Claims
<1>8. CASE IntentEnds
  <2>1. UNCHANGED <<queue, epoch, blocked, running, struck>>
    BY <1>8 DEF IntentEnds, RotationEnds, DistanceEnds, BrakeCoastEnds, IdleElapsed,
       intentElsewhere, driveElsewhere, executorVars
  <2>2. struck => hand'.ticket = 0 /\ intent'.ticket = 0 /\ completion' = completion
    BY <1>8 DEF IntentEnds, RotationEnds, DistanceEnds, BrakeCoastEnds, IdleElapsed,
       ApplyCompletion, SendCompletion, BackToPoll, StruckInv, NoEnvelope, NoIntent
  <2> QED BY <2>1, <2>2 DEF StruckInv, Claims
<1>9. CASE UNCHANGED <<queue, epoch, blocked, running, struck, hand, intent, completion>>
  BY <1>9 DEF StruckInv, Claims
<1>10. ASSUME \/ CalibrationDrives \/ RotationStep \/ RotationInProgress
              \/ RotationCorrection \/ CorrectionPulse
       PROVE  UNCHANGED <<queue, epoch, blocked, running, struck, hand, intent, completion>>
  BY <1>10 DEF CalibrationDrives, RotationStep, RotationInProgress, RotationCorrection,
     CorrectionPulse, intentElsewhere, driveElsewhere, executorVars
<1>11. ASSUME NEW kind, NEW p,
              \/ SendInterrupt(kind)
              \/ \E steps \in Programs : Submit(p, steps)
              \/ SubmitRefused(p)
              \/ ReceiveReply(p)
              \/ UNCHANGED vars
       PROVE  UNCHANGED <<queue, epoch, blocked, running, struck, hand, intent, completion>>
  BY <1>11 DEF SendInterrupt, Submit, SubmitRefused, ReceiveReply, vars, channelVars,
     loopVars, executorVars
<1> QED
  BY <1>1, <1>2, <1>3, <1>4, <1>5, <1>6, <1>7, <1>8, <1>9, <1>10, <1>11
     DEF Next, DriveTask, ExecutorTask

THEOREM StruckStepsAreLost == Spec => [](EpochInv /\ StruckInv)
<1>1. Init => EpochInv /\ StruckInv
  BY DEF Init, EpochInv, StruckInv, NoEnvelope
<1>2. IInv /\ EpochInv /\ StruckInv /\ [Next]_vars => EpochInv' /\ StruckInv'
  BY EpochStep, StruckStep
<1> QED BY <1>1, <1>2, Inductive, PTL DEF Spec

(* intent.rs:8-14, dispatch.rs:264-320: after an interrupt was handled with *)
(* a step open, that step resolves as Cancelled, wherever its command was.  *)
THEOREM OpenStepsAreCancelled == Spec => []InterruptCancelsOpenStep
<1>1. StruckInv => InterruptCancelsOpenStep
  BY DEF StruckInv, InterruptCancelsOpenStep
<1> QED BY <1>1, StruckStepsAreLost, PTL

-----------------------------------------------------------------------------
(* The drive queue keeps the promise of DriveQueueService.                  *)

(* What the executor has tallied is what the outcomes so far add up to, no  *)
(* step that asked to abort has failed while the program goes on, and a     *)
(* reply in the channel is the summary of an ended program.                 *)
TallyInv ==
  /\ running => tally = [status    |-> Service!Overall(outcomes),
                         completed |-> Service!Count(outcomes, "Success"),
                         failed    |-> 0]
  /\ running => ~Service!Halted(program, outcomes)
  /\ reply # NoReport =>
       /\ reply = Service!Summary(program, outcomes)
       /\ Service!Ended(program, outcomes)

(* The library's operator, as the instance reaches it. *)
LEMMA ServiceCardinality == \A S : Service!Cardinality(S) = Cardinality(S)
BY DEF Service!Cardinality, Cardinality

LEMMA CountIsNat ==
  ASSUME NEW outs \in Seq(Statuses), NEW status
  PROVE  /\ IsFiniteSet({i \in DOMAIN outs : outs[i] = status})
         /\ Service!Count(outs, status) \in Nat
<1>1. IsFiniteSet(1 .. Len(outs))
  BY FS_Interval
<1>2. DOMAIN outs = 1 .. Len(outs)
  OBVIOUS
<1>3. {i \in DOMAIN outs : outs[i] = status} \in SUBSET (1 .. Len(outs))
  BY <1>2
<1>4. IsFiniteSet({i \in DOMAIN outs : outs[i] = status})
  BY <1>1, <1>3, FS_Subset
<1> QED BY <1>4, FS_CardinalityType, ServiceCardinality DEF Service!Count

LEMMA CountOfNone ==
  ASSUME NEW status
  PROVE  Service!Count(<< >>, status) = 0
<1>1. {i \in DOMAIN << >> : << >>[i] = status} = {}
  OBVIOUS
<1> QED BY <1>1, FS_EmptySet, ServiceCardinality DEF Service!Count

LEMMA CountOfAppend ==
  ASSUME NEW outs \in Seq(Statuses), NEW last \in Statuses, NEW status
  PROVE  Service!Count(Append(outs, last), status)
           = Service!Count(outs, status) + IF last = status THEN 1 ELSE 0
<1> DEFINE longer == Append(outs, last)
           old == {i \in DOMAIN outs : outs[i] = status}
           new == {i \in DOMAIN longer : longer[i] = status}
<1>1. /\ DOMAIN longer = DOMAIN outs \cup {Len(outs) + 1}
      /\ Len(outs) + 1 \notin DOMAIN outs
      /\ longer[Len(outs) + 1] = last
      /\ \A i \in DOMAIN outs : longer[i] = outs[i]
  OBVIOUS
<1>2. IsFiniteSet(old) /\ Cardinality(old) \in Nat
  BY CountIsNat, ServiceCardinality DEF Service!Count
<1>3. CASE last = status
  <2>1. new = old \cup {Len(outs) + 1} /\ Len(outs) + 1 \notin old
    BY <1>1, <1>3
  <2>2. Cardinality(new) = Cardinality(old) + 1
    BY <1>2, <2>1, FS_AddElement
  <2> QED BY <1>3, <2>2, ServiceCardinality DEF Service!Count
<1>4. CASE last # status
  <2>1. new = old
    BY <1>1, <1>4
  <2>2. Cardinality(new) = Cardinality(old) + 0
    <3> HIDE DEF old, new
    <3> QED BY <1>2, <2>1
  <2> QED BY <1>4, <2>2, ServiceCardinality DEF Service!Count
<1> QED BY <1>3, <1>4

(* The executor's tally of one more outcome is the service's sum of them.   *)
LEMMA TallyOfAppend ==
  ASSUME NEW outs \in Seq(Statuses), NEW status \in Statuses, NEW abort \in BOOLEAN,
         NEW position,
         tally = [status    |-> Service!Overall(outs),
                  completed |-> Service!Count(outs, "Success"),
                  failed    |-> 0]
  PROVE  Tallied(tally, status, position, abort)
           = [status    |-> Service!Overall(Append(outs, status)),
              completed |-> Service!Count(Append(outs, status), "Success"),
              failed    |-> IF status # "Success" /\ abort THEN position ELSE 0]
<1>1. \A s \in Statuses :
        /\ Service!Count(outs, s) \in Nat
        /\ Service!Count(Append(outs, status), s)
             = Service!Count(outs, s) + IF status = s THEN 1 ELSE 0
  BY CountIsNat, CountOfAppend
<1>2. Service!Overall(Append(outs, status))
        = IF status = "Success" \/ Service!Overall(outs) = "Cancelled"
            THEN Service!Overall(outs) ELSE status
  BY <1>1 DEF Service!Overall, Statuses
<1>3. Service!Count(Append(outs, status), "Success")
        = IF status = "Success" THEN Service!Count(outs, "Success") + 1
                                ELSE Service!Count(outs, "Success")
  BY <1>1 DEF Statuses
<1> QED BY <1>2, <1>3 DEF Tallied

LEMMA EmptySummary ==
  /\ Service!Overall(<< >>) = "Success"
  /\ ~Service!Halted(<< >>, << >>)
  /\ Service!Summary(<< >>, << >>) = EmptyTally
  /\ Service!Ended(<< >>, << >>)
<1>1. Service!Overall(<< >>) = "Success"
  BY CountOfNone DEF Service!Overall
<1>2. ~Service!Halted(<< >>, << >>)
  BY DEF Service!Halted
<1> QED
  BY <1>1, <1>2, CountOfNone DEF Service!Summary, Service!Ended, EmptyTally

LEMMA TallyInit == Init => TallyInv
BY DEF Init, TallyInv

LEMMA TallyCompletion ==
  ASSUME IInv, SubmissionProtocol, TallyInv, ReceiveCompletion
  PROVE  /\ completion.status \in Statuses
         /\ outcomes' = Append(outcomes, completion.status)
         /\ TallyInv'
<1> DEFINE status == completion.status
           position == Len(outcomes) + 1
           abort == program[position].abort
           longer == Append(outcomes, status)
           counted == Tallied(tally, status, position, abort)
           stopped == status # "Success" /\ abort
<1>1. /\ status \in Statuses /\ running
      /\ outcomes \in Seq(Statuses) /\ Len(outcomes) < Len(program) /\ program \in Seq(Steps)
  BY DEF ReceiveCompletion, IInv, TypeOK, ChannelTypes, ExecutorTypes,
     CompletionProtocol, StepsRemain
<1>2. position \in DOMAIN program /\ abort \in BOOLEAN
  <2>1. position \in 1 .. Len(program)
    BY <1>1
  <2>2. program[position] \in Steps
    BY <1>1, <2>1
  <2> QED BY <1>1, <2>1, <2>2 DEF Steps
<1>3. outcomes' = longer /\ tally' = counted /\ program' = program
  BY DEF ReceiveCompletion
<1>4. counted = [status    |-> Service!Overall(longer),
                 completed |-> Service!Count(longer, "Success"),
                 failed    |-> IF stopped THEN position ELSE 0]
  BY <1>1, <1>2, TallyOfAppend DEF TallyInv
<1>5. Len(longer) = position /\ longer # << >> /\ longer[position] = status
  BY <1>1
<1>6. Service!Halted(program, longer) <=> stopped
  BY <1>5 DEF Service!Halted
<1>7. reply = NoReport
  BY <1>1 DEF SubmissionProtocol
<1>8. CASE position = Len(program) \/ stopped
  <2>1. reply' = counted /\ ~running'
    BY <1>8 DEF ReceiveCompletion, SendReply
  <2>2. counted = Service!Summary(program, longer)
    BY <1>4, <1>5, <1>6 DEF Service!Summary
  <2>3. Service!Ended(program, longer)
    BY <1>5, <1>6, <1>8 DEF Service!Ended
  <2> QED BY <1>1, <1>3, <2>1, <2>2, <2>3 DEF TallyInv
<1>9. CASE ~(position = Len(program) \/ stopped)
  <2>1. reply' = reply
    BY <1>9 DEF ReceiveCompletion
  <2> QED BY <1>1, <1>3, <1>4, <1>6, <1>7, <1>9, <2>1 DEF TallyInv
<1> QED BY <1>1, <1>3, <1>8, <1>9

LEMMA TallyStep ==
  ASSUME IInv, SubmissionProtocol, TallyInv, [Next]_vars
  PROVE  TallyInv'
<1>1. ASSUME NEW p \in Producers, NEW steps \in Programs, Submit(p, steps)
      PROVE  TallyInv'
  <2>1. ~running /\ running' = running /\ reply' = NoReport
    BY <1>1 DEF Submit, SlotFree, SubmissionProtocol, executorVars
  <2> QED BY <2>1 DEF TallyInv
<1>2. ASSUME NEW p \in Producers, ReceiveReply(p) PROVE TallyInv'
  BY <1>2 DEF ReceiveReply, TallyInv, executorVars
<1>3. CASE TakeRequest
  <2>1. outcomes' = << >> /\ tally' = EmptyTally /\ program' = request /\ reply = NoReport
    BY <1>3 DEF TakeRequest, SubmissionProtocol
  <2>2. CASE request = << >>
    <3>1. ~running' /\ reply' = EmptyTally
      BY <1>3, <2>2 DEF TakeRequest, SendReply
    <3> QED BY <2>1, <2>2, <3>1, EmptySummary DEF TallyInv
  <2>3. CASE request # << >>
    <3>1. reply' = NoReport
      BY <1>3, <2>1, <2>3 DEF TakeRequest
    <3>2. ~Service!Halted(program', << >>)
      BY DEF Service!Halted
    <3> QED BY <2>1, <3>1, <3>2, EmptySummary, CountOfNone DEF TallyInv, EmptyTally
  <2> QED BY <2>2, <2>3
<1>4. CASE ReceiveCompletion
  BY <1>4, TallyCompletion
<1>5. CASE UNCHANGED <<executorVars, reply>>
  BY <1>5 DEF TallyInv, executorVars
<1>6. ASSUME NEW p \in Producers, SubmitRefused(p) PROVE UNCHANGED <<executorVars, reply>>
  BY <1>6 DEF SubmitRefused
<1>7. \/ DriveTask
      \/ \E s \in Senders, command \in SentCommands : SendCommand(s, command)
      \/ \E s \in Senders \cup {Executor} : FinishSend(s)
      \/ \E kind \in SentInterrupts : SendInterrupt(kind)
      \/ UNCHANGED vars
      => UNCHANGED <<executorVars, submitVars>>
  BY QuietSteps
<1>8. UNCHANGED <<executorVars, submitVars>> => UNCHANGED <<executorVars, reply>>
  BY DEF submitVars
<1> QED
  BY <1>1, <1>2, <1>3, <1>4, <1>5, <1>6, <1>7, <1>8 DEF Next, ExecutorTask

(* The holder of the service is the producer that waits.                    *)
HolderFits ==
  /\ inUse => Holder \in Producers /\ waiting[Holder]
  /\ ~inUse => Holder = Nobody
  /\ \A p \in Producers : waiting[p] <=> Holder = p

LEMMA HolderWaits == SubmissionProtocol => HolderFits
<1> SUFFICES ASSUME SubmissionProtocol PROVE HolderFits
  OBVIOUS
<1>1. CASE \E p \in Producers : waiting[p]
  <2>1. Holder = CHOOSE p \in Producers : waiting[p]
    BY <1>1 DEF Holder
  <2>2. Holder \in Producers /\ waiting[Holder]
    BY <1>1, <2>1
  <2> QED BY <1>1, <2>2, NobodyAssumption DEF SubmissionProtocol, HolderFits
<1>2. CASE ~\E p \in Producers : waiting[p]
  <2>1. Holder = Nobody
    BY <1>2 DEF Holder
  <2> QED BY <1>2, <2>1, NobodyAssumption DEF SubmissionProtocol, HolderFits
<1> QED BY <1>1, <1>2

LEMMA HolderWaitsNext == SubmissionProtocol' => HolderFits'
BY HolderWaits, PTL

LEMMA ServiceBegins == Init => Service!ServiceInit
<1> SUFFICES ASSUME Init PROVE Service!ServiceInit
  OBVIOUS
<1>1. Holder = Nobody
  BY DEF Init, Holder
<1> QED BY <1>1 DEF Init, Service!ServiceInit, NoReport, Service!NoReport

(* Every step of the code is a step of the service, or none of it.          *)
LEMMA ServiceStutters ==
  ASSUME UNCHANGED <<executorVars, submitVars>>
  PROVE  UNCHANGED Service!serviceVars
BY DEF Service!serviceVars, Holder, executorVars, submitVars

LEMMA SubmitIsAccept ==
  ASSUME IInv, SubmissionProtocol, SubmissionProtocol',
         NEW p \in Producers, NEW newSteps \in Programs, Submit(p, newSteps)
  PROVE  Service!Accept(p, newSteps)
<1>1. Holder = Nobody
  BY HolderWaits DEF HolderFits, Submit, SlotFree
<1>2. waiting'[p]
  BY DEF Submit, IInv, TypeOK, SubmitTypes
<1>3. Holder' = p
  BY <1>2, HolderWaitsNext DEF HolderFits
<1>4. p # Nobody /\ request' = newSteps /\ newSteps # NoRequest
  BY NobodyAssumption, NoRequestAssumption DEF Submit
<1>5. report' = report
  BY DEF Submit
<1> QED BY <1>1, <1>3, <1>4, <1>5 DEF Service!Accept

LEMMA RefusalIsRefuse ==
  ASSUME SubmissionProtocol, NEW p \in Producers, SubmitRefused(p)
  PROVE  Service!Refuse(p)
<1>1. inUse /\ ~waiting[p]
  BY DEF SubmitRefused, SlotFree, SubmissionProtocol
<1>2. Holder \notin {Nobody, p}
  BY <1>1, HolderWaits, NobodyAssumption DEF HolderFits
<1>3. UNCHANGED <<executorVars, request, waiting>>
  BY DEF SubmitRefused
<1>4. Holder' = Holder
  BY <1>3 DEF Holder
<1>5. report' = [report EXCEPT ![p] = Service!QueueBusy]
  BY DEF SubmitRefused, QueueBusy, Service!QueueBusy
<1> QED BY <1>2, <1>3, <1>4, <1>5 DEF Service!Refuse, executorVars

LEMMA ReplyIsAnswer ==
  ASSUME IInv, SubmissionProtocol, SubmissionProtocol', TallyInv,
         NEW p \in Producers, ReceiveReply(p)
  PROVE  Service!Answer
<1>1. Holder = p /\ p # Nobody
  BY HolderWaits, NobodyAssumption DEF HolderFits, ReceiveReply
<1>2. Holder' = Nobody
  BY HolderWaitsNext DEF HolderFits, ReceiveReply
<1>3. request = NoRequest
  BY DEF ReceiveReply, SubmissionProtocol
<1>4. /\ reply = Service!Summary(program, outcomes)
      /\ Service!Ended(program, outcomes)
  BY DEF ReceiveReply, TallyInv
<1>5. report' = [report EXCEPT ![p] = Service!Summary(program, outcomes)]
  BY <1>4 DEF ReceiveReply
<1> QED BY <1>1, <1>2, <1>3, <1>4, <1>5 DEF Service!Answer

LEMMA TakingStutters ==
  ASSUME IInv, SubmissionProtocol, TakeRequest
  PROVE  UNCHANGED Service!serviceVars
<1>1. Holder' = Holder /\ report' = report
  BY DEF TakeRequest, Holder
<1>2. /\ request # NoRequest /\ request' = NoRequest
      /\ program' = request /\ outcomes' = << >>
  BY DEF TakeRequest
<1> QED BY <1>1, <1>2 DEF Service!serviceVars

LEMMA CompletionIsResolve ==
  ASSUME IInv, SubmissionProtocol, TallyInv, ReceiveCompletion
  PROVE  Service!Resolve(completion.status)
<1>1. running /\ request = NoRequest /\ inUse
  BY DEF ReceiveCompletion, SubmissionProtocol
<1>2. Holder # Nobody
  BY <1>1, HolderWaits, NobodyAssumption DEF HolderFits
<1>3. Holder' = Holder /\ request' = request /\ program' = program /\ report' = report
  BY DEF ReceiveCompletion, Holder
<1>4. outcomes' = Append(outcomes, completion.status)
  BY TallyCompletion
<1>5. ~Service!Ended(program, outcomes)
  BY <1>1 DEF TallyInv, Service!Ended, IInv, CompletionProtocol, StepsRemain,
     TypeOK, ExecutorTypes
<1> QED BY <1>1, <1>2, <1>3, <1>4, <1>5 DEF Service!Resolve

LEMMA ServiceSteps ==
  ASSUME IInv, SubmissionProtocol, SubmissionProtocol', TallyInv, [Next]_vars
  PROVE  [Service!ServiceNext]_Service!serviceVars
<1>1. ASSUME NEW p \in Producers, NEW steps \in Programs, Submit(p, steps)
      PROVE  Service!ServiceNext
  BY <1>1, SubmitIsAccept DEF Service!ServiceNext
<1>2. ASSUME NEW p \in Producers, SubmitRefused(p) PROVE Service!ServiceNext
  BY <1>2, RefusalIsRefuse DEF Service!ServiceNext
<1>3. ASSUME NEW p \in Producers, ReceiveReply(p) PROVE Service!ServiceNext
  BY <1>3, ReplyIsAnswer DEF Service!ServiceNext
<1>4. CASE TakeRequest
  BY <1>4, TakingStutters
<1>5. CASE ReceiveCompletion
  BY <1>5, CompletionIsResolve, TallyCompletion
     DEF Service!ServiceNext, Statuses, Service!Statuses
<1>6. CASE \/ DriveTask
           \/ \E s \in Senders, command \in SentCommands : SendCommand(s, command)
           \/ \E s \in Senders \cup {Executor} : FinishSend(s)
           \/ \E kind \in SentInterrupts : SendInterrupt(kind)
           \/ UNCHANGED vars
  BY <1>6, QuietSteps, ServiceStutters
<1> QED BY <1>1, <1>2, <1>3, <1>4, <1>5, <1>6 DEF Next, ExecutorTask

(* queue.rs:169-259: the executor, the drive task, the channels and the     *)
(* flags together are the service a producer sees: every submission is      *)
(* refused or answered once, with the sum of its own outcomes, in order and *)
(* up to the step that aborted.                                             *)
THEOREM QueueKeepsItsPromise == Spec => ServiceSpec
<1>1. SubmissionProtocol /\ TallyInv /\ IInv /\ [Next]_vars => TallyInv'
  BY TallyStep
<1>2. IInv /\ SubmissionProtocol /\ SubmissionProtocol' /\ TallyInv /\ [Next]_vars
        => [Service!ServiceNext]_Service!serviceVars
  BY ServiceSteps
<1> QED
  BY <1>1, <1>2, TallyInit, ServiceBegins, OneSubmissionAtATime, Inductive, PTL
     DEF Spec, ServiceSpec, Service!ServiceSpec

=============================================================================
