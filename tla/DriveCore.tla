------------------------------ MODULE DriveCore ------------------------------
(***************************************************************************)
(* The drive task and the drive queue executor, with the channels, the      *)
(* interrupt signal and the epoch counter that join them to the rest of the *)
(* firmware (task/drive/{api,queue,intent,dispatch,mod}.rs).                *)
(*                                                                          *)
(* All these tasks run on one cooperative executor, so one action is the    *)
(* code between two suspension points of a task.  A send into a channel     *)
(* with room, an uncontended lock and a signal do not suspend.              *)
(*                                                                          *)
(* An envelope carries completion_requested as a ticket: 0 when no          *)
(* completion is requested, otherwise the position in the program of the    *)
(* step it stands for, so that the model can tell one completion from       *)
(* another; the code has only the Boolean.                                  *)
(***************************************************************************)
EXTENDS Naturals, Sequences, FiniteSets

CONSTANTS
  Producers,        \* tasks that submit programs and await the report
  Senders,          \* tasks that send single commands and await nothing
  Executor,         \* the drive_queue_executor task
  Nobody,           \* no producer
  NoRequest,        \* the request channel is empty
  Programs,         \* the programs submitted
  SentCommands,     \* the commands sent without a completion
  SentInterrupts,   \* the interrupt kinds raised
  DriveQueueSize,   \* DRIVE_QUEUE_SIZE
  MaxSends,         \* bound on commands sent without a completion
  MaxInterrupts     \* bound on interrupts raised

Movements == {"Differential", "RotateExact", "DriveDistance"}
Calibrations == {"MotorCalibration", "ImuCalibration"}
Commands == Movements \cup Calibrations \cup {"Coast", "Brake", "Idle", "IdleZero", "Standby"}
InterruptKinds == {"EmergencyBrake", "Stop", "CancelCurrent"}
Steps == [action : Commands, abort : BOOLEAN]

ASSUME ExecutorAssumption == Executor \notin Senders
ASSUME NobodyAssumption == Nobody \notin Producers
ASSUME ProgramsAssumption == Programs \subseteq Seq(Steps)
ASSUME NoRequestAssumption == NoRequest \notin Programs
ASSUME CommandsAssumption == SentCommands \subseteq Commands
ASSUME InterruptsAssumption == SentInterrupts \subseteq InterruptKinds
ASSUME SizeAssumption == DriveQueueSize \in Nat \ {0}
ASSUME BoundsAssumption == MaxSends \in Nat /\ MaxInterrupts \in Nat

VARIABLES
  queue,       \* DRIVE_QUEUE
  blocked,     \* the envelope a task holds while its send waits for room
  interrupt,   \* DRIVE_INTERRUPT: one slot, the last signal wins
  epoch,       \* CURRENT_EPOCH
  completion,  \* COMPLETION_CHANNEL, one slot
  at,          \* where the drive task is suspended
  looping,     \* it is back at its select and has not suspended there yet
  hand,        \* the envelope the drive task is dispatching
  intent,      \* DriveLoop.active_intent
  standby,     \* DriveLoop.standby_enabled
  motors,      \* the last motor output commanded
  enabled,     \* the last driver enable line commanded
  running,     \* the executor is inside a program
  program,     \* the program the executor took last
  outcomes,    \* history: the outcomes of its steps
  tally,       \* the executor's status, failed_step_index, completed_steps
  request,     \* DRIVE_QUEUE_REQUESTS, one slot
  reply,       \* DRIVE_QUEUE_REPLY.channel, one slot
  busy,        \* QUEUE_BUSY
  inUse,       \* DRIVE_QUEUE_REPLY.in_use
  waiting,     \* producers that await their report
  report,      \* the last answer of submit, per producer
  struck,      \* history: an interrupt was handled while the step was open
  sent,        \* commands sent so far
  raised       \* interrupts raised so far

channelVars == <<queue, blocked, completion>>
loopVars == <<at, hand, intent, standby, motors, enabled>>
executorVars == <<running, program, outcomes, tally>>
submitVars == <<request, reply, busy, inUse, waiting, report>>
boundVars == <<sent, raised>>
vars == <<channelVars, interrupt, epoch, loopVars, looping, executorVars,
          submitVars, struck, boundVars>>

-----------------------------------------------------------------------------
NoEnvelope == [action |-> "none", ticket |-> 0, epoch |-> 0]
NoIntent == [kind |-> "none", ticket |-> 0]
NoCompletion == [status |-> "none", ticket |-> 0]
NoReport == [status |-> "none", completed |-> 0, failed |-> 0]
QueueBusy == [status |-> "QueueBusy", completed |-> 0, failed |-> 0]
EmptyTally == [status |-> "Success", completed |-> 0, failed |-> 0]

Statuses == {"Success", "Cancelled", "Failed"}
Moving == {"RotateExact", "DriveDistance"}
IntentKinds == Moving \cup {"Idle", "BrakeCoast"}
Places == {"poll", "imuGate", "wake", "heading", "rotate", "correct",
           "standbyBrake", "standbyCoast"} \cup Calibrations

Envelope(action, ticket) == [action |-> action, ticket |-> ticket, epoch |-> epoch]

Init ==
  /\ queue = << >>
  /\ blocked = [s \in Senders \cup {Executor} |-> NoEnvelope]
  /\ interrupt = "none"
  /\ epoch = 0
  /\ completion = NoCompletion
  /\ at = "poll"
  /\ looping = TRUE
  /\ hand = NoEnvelope
  /\ intent = NoIntent
  /\ standby = TRUE
  /\ motors = "coast"
  /\ enabled = TRUE
  /\ running = FALSE
  /\ program = << >>
  /\ outcomes = << >>
  /\ tally = EmptyTally
  /\ request = NoRequest
  /\ reply = NoReport
  /\ busy = FALSE
  /\ inUse = FALSE
  /\ waiting = [p \in Producers |-> FALSE]
  /\ report = [p \in Producers |-> NoReport]
  /\ struck = FALSE
  /\ sent = 0
  /\ raised = 0

-----------------------------------------------------------------------------
(* Scheduling: a select that finds its work ready does not suspend, so the  *)
(* drive task, once back at its select, takes a pending interrupt or        *)
(* command before any other task runs.                                      *)

DriveReady ==
  /\ at = "poll"
  /\ interrupt # "none" \/ (intent = NoIntent /\ queue # << >>)

OtherTaskRuns == ~(looping /\ DriveReady) /\ looping' = FALSE

(* Sending: the epoch is stamped first, then the send waits for room. *)

Enqueue(who, envelope) ==
  IF Len(queue) < DriveQueueSize
    THEN /\ queue' = Append(queue, envelope)
         /\ UNCHANGED blocked
    ELSE /\ blocked' = [blocked EXCEPT ![who] = envelope]
         /\ UNCHANGED queue

SendCommand(s, command) ==
  /\ OtherTaskRuns
  /\ sent < MaxSends
  /\ blocked[s] = NoEnvelope
  /\ Enqueue(s, Envelope(command, 0))
  /\ sent' = sent + 1
  /\ UNCHANGED <<interrupt, epoch, completion, loopVars, executorVars,
                 submitVars, struck, raised>>

(* A task whose send was waiting is polled again and finds room. *)
FinishSend(s) ==
  /\ OtherTaskRuns
  /\ blocked[s] # NoEnvelope
  /\ Len(queue) < DriveQueueSize
  /\ queue' = Append(queue, blocked[s])
  /\ blocked' = [blocked EXCEPT ![s] = NoEnvelope]
  /\ UNCHANGED <<interrupt, epoch, completion, loopVars, executorVars,
                 submitVars, struck, boundVars>>

SendInterrupt(kind) ==
  /\ OtherTaskRuns
  /\ raised < MaxInterrupts
  /\ interrupt' = kind
  /\ raised' = raised + 1
  /\ UNCHANGED <<channelVars, epoch, loopVars, executorVars, submitVars,
                 struck, sent>>

-----------------------------------------------------------------------------
(* The producers. *)

SlotFreeOnBusyFlag == ~busy
SlotFree == ~busy /\ ~inUse

(* Both flags are free: claim them, drain a stale reply, send the request,  *)
(* and wait.  The request channel has room whenever QUEUE_BUSY was free.    *)
Submit(p, steps) ==
  /\ OtherTaskRuns
  /\ ~waiting[p]
  /\ SlotFree
  /\ request = NoRequest
  /\ busy' = TRUE
  /\ inUse' = TRUE
  /\ reply' = NoReport
  /\ request' = steps
  /\ waiting' = [waiting EXCEPT ![p] = TRUE]
  /\ UNCHANGED <<channelVars, interrupt, epoch, loopVars, executorVars,
                 report, struck, boundVars>>

(* QUEUE_BUSY is taken, or it is free but the reply slot is still in use:   *)
(* either way both flags are left as they were.                             *)
SubmitRefused(p) ==
  /\ OtherTaskRuns
  /\ ~waiting[p]
  /\ ~SlotFree
  /\ report' = [report EXCEPT ![p] = QueueBusy]
  /\ UNCHANGED <<channelVars, interrupt, epoch, loopVars, executorVars,
                 request, reply, busy, inUse, waiting, struck, boundVars>>

ReceiveReply(p) ==
  /\ OtherTaskRuns
  /\ waiting[p]
  /\ reply # NoReport
  /\ report' = [report EXCEPT ![p] = reply]
  /\ reply' = NoReport
  /\ inUse' = FALSE
  /\ waiting' = [waiting EXCEPT ![p] = FALSE]
  /\ UNCHANGED <<channelVars, interrupt, epoch, loopVars, executorVars,
                 request, busy, struck, boundVars>>

-----------------------------------------------------------------------------
(* The drive queue executor. *)

SendReply(result) ==
  /\ reply = NoReport
  /\ reply' = result
  /\ busy' = FALSE
  /\ running' = FALSE

TakeRequest ==
  /\ OtherTaskRuns
  /\ ~running
  /\ request # NoRequest
  /\ request' = NoRequest
  /\ program' = request
  /\ outcomes' = << >>
  /\ tally' = EmptyTally
  /\ IF request = << >>
       THEN /\ SendReply(EmptyTally)
            /\ UNCHANGED <<queue, blocked>>
       ELSE /\ running' = TRUE
            /\ Enqueue(Executor, Envelope(request[1].action, 1))
            /\ UNCHANGED <<reply, busy>>
  /\ UNCHANGED <<interrupt, epoch, completion, loopVars, inUse, waiting,
                 report, struck, boundVars>>

TalliedLastWins(t, status, position, abort) ==
  [status    |-> IF status = "Success" THEN t.status ELSE status,
   completed |-> IF status = "Success" THEN t.completed + 1 ELSE t.completed,
   failed    |-> IF status # "Success" /\ abort THEN position ELSE t.failed]

(* Cancelled outranks Failed; a step that aborts records its index. *)
Tallied(t, status, position, abort) ==
  [status    |-> IF status = "Success" \/ t.status = "Cancelled" THEN t.status ELSE status,
   completed |-> IF status = "Success" THEN t.completed + 1 ELSE t.completed,
   failed    |-> IF status # "Success" /\ abort THEN position ELSE t.failed]

ReceiveCompletion ==
  LET position == Len(outcomes) + 1
      status == completion.status
      abort == program[position].abort
      counted == Tallied(tally, status, position, abort)
      last == position = Len(program) \/ (status # "Success" /\ abort)
  IN
  /\ OtherTaskRuns
  /\ running
  /\ blocked[Executor] = NoEnvelope
  /\ completion # NoCompletion
  /\ completion' = NoCompletion
  /\ outcomes' = Append(outcomes, status)
  /\ tally' = counted
  /\ struck' = FALSE
  /\ IF last
       THEN /\ SendReply(counted)
            /\ UNCHANGED <<queue, blocked>>
       ELSE /\ Enqueue(Executor, Envelope(program[position + 1].action, position + 1))
            /\ UNCHANGED <<running, reply, busy>>
  /\ UNCHANGED <<interrupt, epoch, loopVars, program, request, inUse,
                 waiting, report, boundVars>>

-----------------------------------------------------------------------------
(* The drive task: dispatching a command. *)

(* send_completion: nothing without a request, else one slot of room. *)
SendCompletion(ticket, status) ==
  IF ticket = 0
    THEN UNCHANGED completion
    ELSE /\ completion = NoCompletion
         /\ completion' = [status |-> status, ticket |-> ticket]

BackToPoll == at' = "poll" /\ looping' = TRUE /\ hand' = NoEnvelope

Resolved(envelope, status) ==
  /\ SendCompletion(envelope.ticket, status)
  /\ BackToPoll
  /\ UNCHANGED intent

Started(envelope, kind) ==
  /\ intent' = [kind |-> kind, ticket |-> envelope.ticket]
  /\ BackToPoll
  /\ UNCHANGED completion

Suspended(envelope, place) ==
  /\ at' = place
  /\ looping' = FALSE
  /\ hand' = envelope
  /\ UNCHANGED <<intent, completion>>

(* The handler of each action, after the IMU gate and the wake-up. *)
Perform(envelope) ==
  \/ /\ envelope.action = "Differential"
     /\ motors' = "free"
     /\ Resolved(envelope, "Success")
     /\ UNCHANGED <<standby, enabled>>
  \/ /\ envelope.action = "RotateExact"
     /\ motors' = "coast"
     /\ Started(envelope, "RotateExact")
     /\ UNCHANGED <<standby, enabled>>
  \/ /\ envelope.action = "DriveDistance"
     /\ \/ Resolved(envelope, "Success") /\ UNCHANGED motors   \* trivially short
        \/ Started(envelope, "DriveDistance") /\ motors' = "drive"
        \/ Suspended(envelope, "heading") /\ UNCHANGED motors  \* no heading yet
     /\ UNCHANGED <<standby, enabled>>
  \/ /\ envelope.action \in {"Coast", "Brake"}
     /\ motors' = IF envelope.action = "Coast" THEN "coast" ELSE "brake"
     /\ Started(envelope, "BrakeCoast")
     /\ UNCHANGED <<standby, enabled>>
  \/ /\ envelope.action \in {"Idle", "IdleZero"}
     /\ motors' = "coast"
     /\ IF envelope.action = "Idle"
          THEN Started(envelope, "Idle")
          ELSE Resolved(envelope, "Success")
     /\ UNCHANGED <<standby, enabled>>
  \/ /\ envelope.action = "Standby"
     /\ IF standby
          THEN Resolved(envelope, "Success") /\ UNCHANGED motors
          ELSE Suspended(envelope, "standbyBrake") /\ motors' = "brake"
     /\ UNCHANGED <<standby, enabled>>
  \/ /\ envelope.action \in Calibrations
     /\ Suspended(envelope, envelope.action)
     /\ enabled' = (enabled \/ envelope.action = "MotorCalibration")
     /\ UNCHANGED <<standby, motors>>

NeedsWakeToDrive(action) == standby /\ action = "DriveDistance"
NeedsWake(action) == standby /\ action \in Movements

(* wake_from_standby, then the handler. *)
WakeThenPerform(envelope) ==
  IF NeedsWake(envelope.action)
    THEN /\ enabled' = TRUE
         /\ standby' = FALSE
         /\ Suspended(envelope, "wake")
         /\ UNCHANGED motors
    ELSE Perform(envelope)

driveElsewhere == <<blocked, executorVars, submitVars, struck, boundVars>>

StaleByCount(envelope) == envelope.epoch > epoch
Stale(envelope) == envelope.epoch # epoch

DropStale(envelope) == BackToPoll /\ UNCHANGED <<intent, completion>>
CancelStale(envelope) == Resolved(envelope, "Cancelled")

(* step_idle takes the queue before the interrupt; an envelope stamped in   *)
(* another epoch is cancelled; a movement passes the IMU gate first.        *)
HandleEnvelope ==
  LET envelope == Head(queue) IN
  /\ at = "poll"
  /\ intent = NoIntent
  /\ queue # << >>
  /\ queue' = Tail(queue)
  /\ IF Stale(envelope)
       THEN /\ CancelStale(envelope)
            /\ UNCHANGED <<standby, motors, enabled>>
       ELSE \/ WakeThenPerform(envelope)
            \/ /\ envelope.action \in Movements
               /\ Suspended(envelope, "imuGate")
               /\ UNCHANGED <<standby, motors, enabled>>
  /\ UNCHANGED <<interrupt, epoch, driveElsewhere>>

(* ensure_imu_ready got its sample, or gave up after its timeout. *)
ImuReady ==
  /\ at = "imuGate"
  /\ WakeThenPerform(hand)
  /\ UNCHANGED <<queue, interrupt, epoch, driveElsewhere>>

ImuNotResponding ==
  /\ at = "imuGate"
  /\ Resolved(hand, "Failed")
  /\ UNCHANGED <<standby, motors, enabled>>
  /\ UNCHANGED <<queue, interrupt, epoch, driveElsewhere>>

WakeElapsed ==
  /\ at = "wake"
  /\ Perform(hand)
  /\ UNCHANGED <<queue, interrupt, epoch, driveElsewhere>>

(* The wait for a heading ends, with one or without: the motors start. *)
HeadingKnown ==
  /\ at = "heading"
  /\ motors' = "drive"
  /\ Started(hand, "DriveDistance")
  /\ UNCHANGED <<standby, enabled>>
  /\ UNCHANGED <<queue, interrupt, epoch, driveElsewhere>>

StandbyBraked ==
  /\ at = "standbyBrake"
  /\ motors' = "coast"
  /\ Suspended(hand, "standbyCoast")
  /\ UNCHANGED <<standby, enabled>>
  /\ UNCHANGED <<queue, interrupt, epoch, driveElsewhere>>

StandbyCoasted ==
  /\ at = "standbyCoast"
  /\ enabled' = FALSE
  /\ standby' = TRUE
  /\ Resolved(hand, "Success")
  /\ UNCHANGED motors
  /\ UNCHANGED <<queue, interrupt, epoch, driveElsewhere>>

(* A calibration drives the motors itself, inside the dispatch. *)
CalibrationDrives ==
  /\ at \in Calibrations
  /\ motors' = "drive"
  /\ enabled' = TRUE
  /\ UNCHANGED <<at, looping, hand, intent, standby, completion>>
  /\ UNCHANGED <<queue, interrupt, epoch, driveElsewhere>>

(* It ends with the drivers disabled, except an IMU calibration that never  *)
(* reached its motor phase; the loop's own standby flag is not told.        *)
CalibrationEnds ==
  /\ at \in Calibrations
  /\ \/ motors' = "coast" /\ enabled' = FALSE
     \/ at = "ImuCalibration" /\ motors # "drive" /\ UNCHANGED <<motors, enabled>>
  /\ Resolved(hand, "Success")
  /\ UNCHANGED standby
  /\ UNCHANGED <<queue, interrupt, epoch, driveElsewhere>>

-----------------------------------------------------------------------------
(* The drive task: the active intent.  poll_active_intent selects on the    *)
(* interrupt first, so a tick happens only when none is pending; a control  *)
(* step, once begun, does not look at the interrupt again.                  *)

Ticking(kind) ==
  /\ at = "poll"
  /\ intent.kind = kind
  /\ interrupt = "none"

intentElsewhere == <<queue, interrupt, epoch, standby, enabled, driveElsewhere>>

(* apply_completion: teardown, completion, and the intent is gone. *)
ApplyCompletion(status) ==
  /\ SendCompletion(intent.ticket, status)
  /\ intent' = NoIntent
  /\ BackToPoll

(* Timed out, or waits for a sample. *)
RotationStep ==
  /\ Ticking("RotateExact")
  /\ at' = "rotate"
  /\ looping' = FALSE
  /\ UNCHANGED <<hand, intent, motors, completion>>
  /\ UNCHANGED intentElsewhere

(* No sample, or still turning. *)
RotationInProgress ==
  /\ at = "rotate"
  /\ motors' \in {motors, "drive"}
  /\ at' = "poll"
  /\ looping' = TRUE
  /\ UNCHANGED <<hand, intent, completion>>
  /\ UNCHANGED intentElsewhere

(* A stationary turn reached its target: stop, settle, then correct. *)
RotationCorrection ==
  /\ at = "rotate"
  /\ at' = "correct"
  /\ looping' = FALSE
  /\ motors' = "coast"
  /\ UNCHANGED <<hand, intent, completion>>
  /\ UNCHANGED intentElsewhere

(* One correction iteration drives, then stops on convergence, overshoot or *)
(* timeout.                                                                 *)
CorrectionPulse ==
  /\ at = "correct"
  /\ motors' = IF motors = "drive" THEN "coast" ELSE "drive"
  /\ UNCHANGED <<at, looping, hand, intent, completion>>
  /\ UNCHANGED intentElsewhere

(* The target is reached or a limit is hit; every exit stops the motors. *)
RotationEnds(status) ==
  /\ \/ at = "rotate" /\ motors' = "coast"
     \/ at = "correct" /\ motors # "drive" /\ UNCHANGED motors
  /\ ApplyCompletion(status)
  /\ UNCHANGED intentElsewhere

TeardownOfSensorsOnly(kind) == motors
Teardown(kind) == IF kind = "DriveDistance" THEN "coast" ELSE motors

(* Target reached, encoder timeout, stall or anomaly: on the last three the *)
(* control step returns with the motors running, the teardown stops them.   *)
DistanceEnds(status) ==
  /\ Ticking("DriveDistance")
  /\ motors' = Teardown("DriveDistance")
  /\ ApplyCompletion(status)
  /\ UNCHANGED intentElsewhere

(* The encoders settled, or did not within the settle timeout. *)
BrakeCoastEnds(status) ==
  /\ Ticking("BrakeCoast")
  /\ ApplyCompletion(status)
  /\ UNCHANGED motors
  /\ UNCHANGED intentElsewhere

IdleElapsed ==
  /\ Ticking("Idle")
  /\ ApplyCompletion("Success")
  /\ UNCHANGED motors
  /\ UNCHANGED intentElsewhere

-----------------------------------------------------------------------------
(* The drive task: an interrupt. *)

Requested == {i \in DOMAIN queue : queue[i].ticket # 0}
First(i) == \A j \in Requested : i <= j

SeenBetweenIntents == intent = NoIntent /\ queue = << >>
InterruptSeen == intent # NoIntent \/ queue = << >>

StoppedMotors ==
  IF intent.kind = "DriveDistance" THEN "coast"
  ELSE IF interrupt = "EmergencyBrake" THEN "brake" ELSE "coast"

SameEpoch == epoch
NextEpoch == epoch + 1

(* The motors first, then the active intent, whose teardown zeroes the      *)
(* tracks of a distance drive; then the epoch; then the queue is drained,   *)
(* and only one completion is sent.                                         *)
HandleInterrupt ==
  /\ at = "poll"
  /\ interrupt # "none"
  /\ InterruptSeen
  /\ interrupt' = "none"
  /\ motors' = StoppedMotors
  /\ looping' = TRUE
  /\ intent' = NoIntent
  /\ epoch' = NextEpoch
  /\ queue' = << >>
  /\ IF intent.ticket # 0
       THEN SendCompletion(intent.ticket, "Cancelled")
       ELSE IF Requested # {}
              THEN \E i \in Requested :
                     First(i) /\ SendCompletion(queue[i].ticket, "Cancelled")
              ELSE UNCHANGED completion
  /\ struck' = (struck \/ (running /\ completion = NoCompletion))
  /\ UNCHANGED <<blocked, at, hand, standby, enabled, executorVars,
                 submitVars, boundVars>>

-----------------------------------------------------------------------------
DispatchStep ==
  \/ HandleEnvelope \/ ImuReady \/ ImuNotResponding \/ WakeElapsed
  \/ HeadingKnown \/ StandbyBraked \/ StandbyCoasted \/ CalibrationEnds

IntentEnds ==
  \/ \E status \in {"Success", "Failed"} :
       RotationEnds(status) \/ DistanceEnds(status) \/ BrakeCoastEnds(status)
  \/ IdleElapsed

DriveTask ==
  \/ DispatchStep
  \/ CalibrationDrives
  \/ RotationStep \/ RotationInProgress \/ RotationCorrection \/ CorrectionPulse
  \/ IntentEnds
  \/ HandleInterrupt

ExecutorTask == TakeRequest \/ ReceiveCompletion

Next ==
  \/ \E s \in Senders, command \in SentCommands : SendCommand(s, command)
  \/ \E s \in Senders \cup {Executor} : FinishSend(s)
  \/ \E kind \in SentInterrupts : SendInterrupt(kind)
  \/ \E p \in Producers :
       \/ \E steps \in Programs : Submit(p, steps)
       \/ SubmitRefused(p)
       \/ ReceiveReply(p)
  \/ ExecutorTask
  \/ DriveTask

Spec == Init /\ [][Next]_vars

(* Every task the executor has woken is polled; a dispatch ends because     *)
(* each of its waits has a timer, an intent because each kind has a timeout *)
(* (rotation 8 s, a correction iteration 400 ms and 15 of them, encoder and *)
(* stall timeouts, settle 2 s, the idle duration).                          *)
(* A send that waits is retried each time a slot frees, and the retries of  *)
(* different tasks compete for it.                                          *)
Fairness ==
  /\ \A p \in Producers : WF_vars(ReceiveReply(p))
  /\ WF_vars(ExecutorTask)
  /\ \A s \in Senders \cup {Executor} : SF_vars(FinishSend(s))
  /\ WF_vars(DispatchStep)
  /\ WF_vars(RotationStep) /\ WF_vars(CorrectionPulse)
  /\ SF_vars(IntentEnds)
  /\ WF_vars(HandleInterrupt)

FairSpec == Spec /\ Fairness

-----------------------------------------------------------------------------
(* Type invariant of every channel, flag and task-local of the drive core. *)
EnvelopeType == [action : Commands, ticket : Nat, epoch : Nat]
ReportType == [status : Statuses, completed : Nat, failed : Nat]

ChannelTypes ==
  /\ queue \in Seq(EnvelopeType) /\ Len(queue) <= DriveQueueSize
  /\ blocked \in [Senders \cup {Executor} -> EnvelopeType \cup {NoEnvelope}]
  /\ interrupt \in InterruptKinds \cup {"none"}
  /\ epoch \in Nat
  /\ completion \in [status : Statuses, ticket : Nat \ {0}] \cup {NoCompletion}

LoopTypes ==
  /\ at \in Places
  /\ looping \in BOOLEAN
  /\ hand \in EnvelopeType \cup {NoEnvelope}
  /\ intent \in [kind : IntentKinds, ticket : Nat] \cup {NoIntent}
  /\ standby \in BOOLEAN
  /\ motors \in {"coast", "brake", "drive", "free"}
  /\ enabled \in BOOLEAN

ExecutorTypes ==
  /\ running \in BOOLEAN
  /\ program \in Seq(Steps)
  /\ outcomes \in Seq(Statuses)
  /\ tally \in ReportType
  /\ struck \in BOOLEAN

SubmitTypes ==
  /\ request \in Programs \cup {NoRequest}
  /\ reply \in ReportType \cup {NoReport}
  /\ busy \in BOOLEAN
  /\ inUse \in BOOLEAN
  /\ waiting \in [Producers -> BOOLEAN]
  /\ report \in [Producers -> ReportType \cup {NoReport, QueueBusy}]

TypeOK ==
  /\ ChannelTypes
  /\ LoopTypes
  /\ ExecutorTypes
  /\ SubmitTypes
  /\ sent \in 0 .. MaxSends
  /\ raised \in 0 .. MaxInterrupts

(* Where the dispatch is suspended decides what the task holds: an envelope *)
(* exactly while it dispatches one, an intent only otherwise.               *)
Dispatching == Places \ {"poll", "rotate", "correct"}

HandAndIntent ==
  /\ at \in Dispatching <=> hand # NoEnvelope
  /\ at \in Dispatching => intent = NoIntent
  /\ at \in {"rotate", "correct"} => intent.kind = "RotateExact"
  /\ at \in Calibrations => hand.action \in Calibrations

(* api.rs:57 "awaits one command at a time": while the executor awaits a    *)
(* step, exactly one place holds the step's claim to a completion, and the  *)
(* claim is for that step.  Hence a completion is never sent into a full    *)
(* channel, never dropped by the drain of an interrupt, never delivered to  *)
(* a later step, and the executor is never left waiting for nothing.        *)
Current == Len(outcomes) + 1

Claims ==
  {i \in DOMAIN queue : queue[i].ticket # 0}

AtMostOneClaim ==
  /\ \A i, j \in Claims : i = j
  /\ Claims # {} =>
       /\ blocked[Executor].ticket = 0 /\ hand.ticket = 0
       /\ intent.ticket = 0 /\ completion.ticket = 0
  /\ blocked[Executor].ticket # 0 =>
       hand.ticket = 0 /\ intent.ticket = 0 /\ completion.ticket = 0
  /\ hand.ticket # 0 => intent.ticket = 0 /\ completion.ticket = 0
  /\ intent.ticket # 0 => completion.ticket = 0

ClaimOfCurrentStep ==
  /\ \A i \in Claims : queue[i].ticket = Current
  /\ blocked[Executor] # NoEnvelope => blocked[Executor].ticket = Current
  /\ {hand.ticket, intent.ticket, completion.ticket} \subseteq {0, Current}

ClaimIffAwaited ==
  running <=> \/ Claims # {}
              \/ blocked[Executor].ticket # 0
              \/ hand.ticket # 0
              \/ intent.ticket # 0
              \/ completion.ticket # 0

StepsRemain == running => Len(outcomes) < Len(program)

OnlyExecutorClaims == \A s \in Senders : blocked[s].ticket = 0

CompletionProtocol ==
  /\ AtMostOneClaim
  /\ ClaimOfCurrentStep
  /\ ClaimIffAwaited
  /\ StepsRemain
  /\ OnlyExecutorClaims

(* queue.rs:4-9, one active queue: the busy flag covers a request from the  *)
(* send to the reply, the reply slot from the send to the moment its owner  *)
(* picks the reply up, and exactly one producer owns it.  Hence no reply is *)
(* lost or read by another producer, and neither one-slot channel blocks.   *)
SubmissionProtocol ==
  /\ busy <=> (running \/ request # NoRequest)
  /\ ~(running /\ request # NoRequest)
  /\ inUse <=> \E p \in Producers : waiting[p]
  /\ \A p, q \in Producers : waiting[p] /\ waiting[q] => p = q
  /\ inUse <=> (busy \/ reply # NoReport)
  /\ ~(busy /\ reply # NoReport)

(* intent.rs:8-14: once an interrupt was handled while a step's outcome was *)
(* still open, that step resolves as Cancelled, wherever its command was:   *)
(* active, queued, or not even accepted by the full queue.                  *)
InterruptCancelsOpenStep ==
  struck /\ completion # NoCompletion => completion.status = "Cancelled"

(* dispatch.rs:34: a command of an older epoch is never under way. *)
NothingStaleUnderWay == hand # NoEnvelope => hand.epoch = epoch

(* Between dispatches the tracks move only for an intent that drives them:  *)
(* no exit of a controller, no failure, no interrupt and no abandoned       *)
(* dispatch leaves the robot moving with nothing to stop it.                *)
MovesOnlyForAnIntent ==
  motors = "drive" /\ at = "poll" => intent.kind \in Moving

(* dispatch.rs:149: what the loop drives, it has first woken. *)
AwakeWhenDriving ==
  motors \in {"drive", "free"} /\ at \notin Calibrations => ~standby

-----------------------------------------------------------------------------
(* The drive queue keeps the promise of DriveQueueService. *)
Holder ==
  IF \E p \in Producers : waiting[p]
    THEN CHOOSE p \in Producers : waiting[p] ELSE Nobody

Service == INSTANCE DriveQueueService WITH
  holder  <- Holder,
  steps   <- IF Holder = Nobody THEN << >>
             ELSE IF request # NoRequest THEN request ELSE program,
  results <- IF Holder = Nobody \/ request # NoRequest THEN << >> ELSE outcomes,
  answers <- report

(* Every submission gets one report, and the report is what the outcomes of *)
(* its own steps add up to (queue.rs:169-259).                              *)
ServiceSpec == Service!ServiceSpec

(* A producer that submitted gets its report. *)
SubmissionAnswered == \A p \in Producers : waiting[p] ~> ~waiting[p]

(* An interrupt is handled in the end, however long the task is away. *)
InterruptHandled == interrupt # "none" ~> interrupt = "none"

-----------------------------------------------------------------------------
(* types.rs:145 "Immediately brake all motors", CONTEXT.md:99 "Causes       *)
(* immediate active motor braking": an emergency brake leaves the motors    *)
(* braked.                                                                  *)
EmergencyBrakeBrakes ==
  [][interrupt = "EmergencyBrake" /\ interrupt' = "none"
       => motors' = "brake"]_vars

(* dispatch.rs:149 "Wake motor drivers from standby if the action is a      *)
(* movement command": what drives has its drivers enabled.                  *)
DrivesWithDriversEnabled ==
  motors = "drive" => enabled

=============================================================================
