# Explorer robot: TLA+ models and proofs

The firmware of the explorer robot (`src/src`, Rust, embassy on an RP2350) is a
set of cooperative tasks joined by channels, one-slot signals, flags and
mutex-protected records.  This directory holds the models of that concurrency,
the TLC configurations that check them, and TLAPS proofs of what matters most.

## 1. The system

All tasks but the LiDAR's run on one embassy executor on core 0; core 1 runs
the LiDAR task alone.  A task runs from one `await` that has to wait to the
next, so the unit of interleaving, and of an action in the models, is the code
between two such points.  Four rules of the library decide what can happen:

* `Signal` holds one value, the last one signalled.
* `Channel::send` does not wait while there is room; a sender that waits is
  polled again later and competes with every other sender for the room.
* `select(a, b)` polls `a` first, and a `select` that finds a value does not
  suspend.
* A lock that nobody holds is taken without suspending.

### Components

| Component | State it keeps | Operations | Interaction |
|---|---|---|---|
| Drive task (`task/drive/{mod,api,intent,dispatch,state}.rs`) | `standby_enabled`, `active_intent`, `CURRENT_EPOCH` | dispatch a command, step an intent, handle an interrupt | takes from `DRIVE_QUEUE` (16) and `DRIVE_INTERRUPT`, answers on `COMPLETION_CHANNEL` (1), commands motors and sensors |
| Queue executor (`drive/queue.rs`) | the program it runs, its tally, `QUEUE_BUSY`, the reply slot | `submit`, run steps, reply | one request channel, one reply channel |
| Controllers (`rotation.rs`, `distance.rs`, `brake_coast.rs`) | angle, distance and settle state | one control step | read IMU and encoder data, command the motors |
| Calibrations (`drive/calibration/`) | phases, activity text | run, stop, fail | run inside the dispatch or as a procedure of their own |
| Motor driver (`motor_driver.rs`) | calibration factors, driver lines | one command at a time | channel of 16, battery voltage |
| IMU task (`sensors/imu.rs`) | fusion mode, calibration, `IMU_READY` | start, stop, set mode, load | one-slot `IMU_CONTROL`, feedback channel |
| Encoder sampler (`sensors/encoders.rs`) | interval, running | start, stop, reset, sample | cached measurement |
| LiDAR task (`sensors/lidar.rs`) | power state, status | enable, disable, bring up, stream | commands (4), other core |
| Boot (`initialization/`, `state/calibration.rs`) | load status per item | request, loaded, gate | flash task, events, UI |
| Flash (`io/flash_storage.rs`) | stored items | load, save | command channel (3), events |
| Orchestrator, behaviours | none | route an event | event channel (64) |
| Coast-and-avoid, straight line (`autonomous_mode/`) | phase | start, stop | motor channel, perception |
| Procedure lifecycle (`procedure/`) | activity slot, stop latch | start, wait or stop, complete, fail, abandon | UI, test modes, calibrations |
| UI (`ui/`, `io/panel.rs`, `touch-ui`) | screen, running procedure | gestures, start, stop | UI events (64), lifecycle |
| Library crates (`coin-d6`, `lidar-cloud`, `touch-async`, `st7789-async`) | decoder state | decode, transform | called by the tasks |

### What is hard

* A completion has no identity: one slot, one awaiting executor, and five
  places (full queue's sender, queue, dispatch, intent, slot) in which the claim
  to it may be when an interrupt empties the loop.
* The interrupt is observed only at the loop's select, although it may be
  raised at any time, and motors are commanded by the interrupt handler, by the
  teardown, by calibrations and by modes outside the drive task.
* `submit` hands over through two flags and two one-slot channels that are set
  and cleared by three tasks.
* Facts remembered in one task are changed by others: `standby_enabled` and the
  enable lines, `IMU_READY` and the IMU task, the cached encoder sample and the
  counters, the stop latch and the next procedure.
* Start-up, the wait for the first battery voltage, and the LiDAR bring-up must
  finish, or fail, without leaving somebody waiting.

What makes each component correct: every submission gets exactly one report
computed from its own steps; an interrupt cancels what was open and nothing
later; motors never run with nothing to stop them; a task that needs data gets
fresh data or fails; a procedure ends once, releases its slot and obeys Stop;
the LiDAR is powered down in the order its branch needs; boot ends.
`PROJECT.json` lists the hazards at their lines.

## 2. Modules

| Module | Content |
|---|---|
| `DriveQueueService` | abstract specification: what `submit` promises a producer |
| `DriveCore` | the drive task and the queue executor with everything between them |
| `DriveCoreMC` | instances of `DriveCore` for TLC |
| `DriveCoreProofs` | types, completion protocol and the other safety properties of `DriveCore`, and that it implements `DriveQueueService`, proved |
| `ImuControl` | the IMU task, its one-slot command signal, `IMU_READY`, the feedback channel, and the movements and procedures that command it |
| `ImuControlProofs` | its types and safety properties, proved |
| `CalibrationStore` | flash task, boot queries, calibration state, the distance calibration and the save of a motor calibration, with power loss |
| `CalibrationStoreProofs` | its types, the agreement of its copies and that a committed distance factor lasts, proved |
| `LidarModes` | the LiDAR task on core 1 with its two clients, coast-and-avoid and the Room Scan screen |
| `LidarModesProofs` | its types and safety properties, proved |
| `LidarScan` | from the bytes of the LiDAR to the obstacle flag: packet decoder, read with its watchdogs, warm-up, reduction, cloud |
| `LidarScanProofs` | that a scan is one turn and the flag tells what stood in front during it, proved |
| `Procedures` | the touch panel's menu, the activity state, the stop latches, the test modes with their slot, the calibrations, the two event channels |
| `ProceduresMC` | the view under which TLC tells states of `Procedures` apart |
| `ProceduresProofs` | its types and safety properties, proved |
| `MotorDriver` | the motor driver with the battery task and the orchestrator's part in its start and its calibration; any sender |
| `TrackProcedures` | extends `MotorDriver` by the procedures that command it themselves, the encoder sampler and the drive task's interrupt |
| `TrackScripts` | what the scripts say at every place, as facts a proof can use |
| `TrackProceduresProofs` | the types of `MotorDriver` and that the tracks follow every command, whoever sends it; then the types and all the safety properties of `TrackProcedures`, and that it implements `MotorDriver`, proved |

`DriveCore` composes the drive task, its queue and the executor; `ImuControl`,
`CalibrationStore` and `LidarModes` a task with the clients that share its state;
`Procedures` the panel with everything it starts and stops; `TrackProcedures`
the motor driver, the battery, the sampler and the procedures that command them.
They meet at interfaces that carry no data the properties need: `DriveCore` lets
the IMU gate succeed or fail and a calibration end in any way, `ImuControl` has
the movement from the other side of the gate, `Procedures` lets a leg end in any
way, `TrackProcedures` has what a calibration does between its start and its end,
and `LidarModes` reduces a scan to the flag that `LidarScan` computes.

### DriveCore and the code

* `queue`, `interrupt`, `epoch`, `completion` are the statics of `api.rs`;
  `blocked[s]` is an envelope already stamped by `send_drive_command_internal`
  whose `send` waits for room.
* `at` says where `drive()` is suspended: at its select (`poll`), in
  `ensure_imu_ready`, `wake_from_standby`, the heading wait of
  `DistanceDriveState::init`, `handle_standby`, a calibration, or a rotation
  step.  `hand` is the envelope of the dispatch under way, `intent` is
  `active_intent`.  `looping` is true from the end of an iteration until the
  task has suspended at its select again; while it is, pending work is taken
  before any other task runs.
* `running`, `program`, `tally`, `request`, `reply`, `busy`, `inUse` are the
  executor's locals and the statics of `queue.rs`; `outcomes` is the list of
  completions it has received.
* `motors` and `enabled` are the last output and the last driver-enable level
  commanded.  The motor driver itself is in `MotorDriver`.
* `ticket` replaces the Boolean `completion_requested`: 0 for false, otherwise
  the position of the step, so that the model can see a completion reach the
  wrong step.  The guards of the actions use only whether it is 0.
* `struck` is a history variable: an interrupt was handled while the executor's
  current step had no completion yet.

Abstracted: speeds, angles, distances, telemetry and durations.  A control step
ends with any of its outcomes; the IMU gate succeeds or fails; the heading wait
happens or not.  Sends to the motor and encoder channels are taken not to wait:
the motor driver empties its channel of 16 faster than the drive task fills it
once the first battery voltage is known.  The epoch is a natural number; its
wrap-around at 2^32 is not modelled.  `CancelCurrent`, `Standby` and
`Differential` have no sender in the code today; they are modelled because the
drive task handles them (`CancelCurrent` is handled exactly as `Stop`, so the
runs raise only the other two).

### ImuControl and the code

* `imuTask` is where `imu_task` waits: in `standby` on the signal, in `starting`
  (`apply_dmp_config`), `streaming` (the `select` of signal and 10 ms timer),
  `reading` a FIFO, `switching` or `restoring` the fusion mode.  `fusionMode` is
  the task's variable, `dmp` what the sensor really runs.
* `imuControl` is the signal `IMU_CONTROL`; a command sent over another one
  replaces it.  `imuReady` is the flag `IMU_READY`, `feedback` the channel.
* A queued measurement is `current` or `outdated`: outdated from the moment the
  stream is restarted or switched, or the robot is carried by hand.
* `procedure`, `movement`, `heading` are the client: a drive test, a test screen
  or the magnetometer calibration, the movement dispatched last, and what the
  movement has measured since it began.

Abstracted: angles, rates, quaternions, the published readings.
`LoadCalibration` is left out because the event that would send it never
reaches the IMU task.  A procedure's two signals with no `await` between them
are one action, so only the second is in the slot.  `CommandSettled` is an
assumption on timing: the countdown of a test and the way back through the menu
take longer than the IMU task needs to take a command.

### CalibrationStore and the code

* `flash` is the region by kind of record, `cache` the flash task's
  `CALIBRATION_DATA`, `status` and `factor` the `CALIBRATION_STATE`, `driver`
  what the motor driver was last sent, `backup` the distance calibration's
  `PREVIOUS_FACTOR`.
* `flashTask` is the command the flash task serves, or the answer it waits to
  raise; a read, a write and the wait for room in the event channel are steps of
  their own, and power may be lost between any two of them.
* `phase` is the distance calibration as `ui`, its step and the drive see it:
  counting, driving, settling, waiting for the operator's number.
* A record of IMU flags is reduced to its being there, and the factors a motor
  calibration computes to the nominal one: `motor.rs:111-123` divides the larger
  count by each track's own and clamps the quotient to 1.0, so every factor is
  1.0.  Loaded factors are arbitrary.
* `Begin` waits for nothing, as `begin` does: a boot load or the save of an earlier
  calibration may still be under way and puts its factor over the 1.0 forced for
  the drive (section 5).  What is promised, and proved, is that none of them lasts
  over a factor committed later.
* `committed` is a history variable: the factor last committed, until the next
  calibration begins or its write fails.
* The event channel holds 64 events of every kind in the code; here it holds the
  calibration events alone and is small, which only makes the flash task wait
  more often.

### LidarModes and the code

* `lidar` is where `lidar_task` is; `powered` the power line, `status`,
  `cloud`, `obstacle` what it publishes, `commands` its channel.
* `client` says where `enable()` and the wait for `Streaming` of each client are;
  `active`, `autonomous`, `spawnQueued`, `stopRequested`, `coastRequest`,
  `roomWanted`, `roomSignal` are the statics with these names.
* `coastTask` is the spawned mode, `driving` whether the mode has the tracks
  turning; the mode's states are one action to enter and one per way to leave.
* The eight steps of the power-down sequence are one action: they touch nothing
  another task reads in between.
* `HelperIsBack` is an assumption on timing: a finger takes longer to stop the mode
  and start it again than the helper task needs to leave the start before, which is
  one poll of 50 ms.  A Stop waits only for the helper's wake-up: it may meet `start`
  in its `enable`, in the reset of a latched failure or in its poll.  Without the
  assumption a Stop is lost, since `start` clears the latch when it begins.
* The emergency brake that an obstacle raises in the drive task is in
  `TrackProcedures`.

### LidarScan and the code

* A turn of the head is a sequence of packets, a packet a sequence of tokens: two
  header bytes, one token for the eight bytes of the preamble, one for the three
  bytes of a sample.  `sent` is how far the device has sent `turn`; a read takes
  the next `n` tokens, `n` one of `Chunks`, wherever that cuts the stream.
* `decoder` is `Decoder` with its `carry` and the revolution it assembles, `scan`
  the revolution a read has returned and nobody has used yet, `consumed` the byte
  watchdog of `read_revolution`, `retries` that of the device-info probe, `warmup`
  the three criteria of `Warmup`.
* A lost byte is reported by the UART and leads to `Resync`; a changed one is seen
  by the checksum.  Where `Noise` has "Body" a preamble or a sample changes, and a
  changed preamble may announce another length; the checksum covers these.
  Where it has "Header" a header byte changes, which loses the packet silently.
* Some samples look like a header, as the data of the sensor may.
* Angles count half slots of the cloud (16 to the circle), distances are none,
  touching (where the angle correction matters), near (an obstacle) and far.
  Slots, mounting offset and front sector are scaled with them; `Correct`,
  `Representative`, `CloudOf` and `FrontSectorObstacle` are otherwise the code's.
* Scenes alternate between clear and obstructed, so a sample of one turn in the
  scan of the next is visible.  `Blocked` says independently of grid and cloud what
  stands before the robot.

### Procedures and the code

* `screen`, `view` and `press` are the panel: the screen drawn, the status view's
  parent and finished flag, and what the pen is down on.  `run_ui` handles no event
  and no tick between pen down and pen up, so the world moves on under the finger.
  `HitTest` is what a tap can meet on each screen, one action per outcome of a tap.
* `uiAt` is "sending" while the panel waits with a second
  `DISTANCE_DRIVE_REQUEST` before a full channel of one.
* `activity` is `ACTIVITY_STATE` by its procedure and stage, written by whoever
  calls, whichever procedure it names; `testStop` and `calStop` are the two latches,
  `testmodeActive` the slot of the tests and the Room Scan, `roomScanWanted` the
  wish for the sensor.
* `testAt[p]` is where the task of test `p` waits, `stage` the leg it has reached;
  `driveInbox` holds the calibrations queued for the drive task, `moving` says that
  movements wait there too, `driveInterrupt` that its one-slot interrupt is signalled,
  `driveAt` is what the task does: nothing, an intent, or a calibration inline;
  `distanceAt` is the step of the distance calibration.
* `events` and `uiEvents` are the event channel and the panel's.
* A finger comes down when the executor has nothing else to do (`Settled`): the
  panel looks at its events before the pen, and a task that waits on a set latch has
  been polled.  A wait that ignores the latch (the measured averages of the
  magnetometer calibration, 12.5 s) may last longer.
* A Stop sets the latches and signals `driveInterrupt`; it takes nothing out of the
  queue.  `HandleInterrupt` does, when the drive task looks: in an intent at its next
  poll, idle only once nothing is queued, because the queue is selected first
  (`intent.rs:127`).  So a calibration queued behind a running one is taken after its
  own Stop, re-arms its latch and runs.
* Movements are only counted as some or none, and their order among the queued
  calibrations is left open; how many calibrations wait is bounded by `CommandCap`.
  An obstacle's or a floor drop's emergency brake signals the same interrupt and does
  no more to the calibrations than a Stop's; it is not raised here.  That a stopped
  leg resolves as Cancelled is `DriveCore`'s.

Abstracted: the phases shown, measurements, values entered (the distance entry's
effect on the factor is in `CalibrationStore`), coast-and-avoid (in `LidarModes`).

### MotorDriver and the code

* `channel`, `driver`, `standby`, `pins`, `duty` are the command channel, where
  the task is, and what it writes to the hardware; `motion` is what it publishes;
  `calibration`, `compensation`, `motorsActive` are its locals.
* Speeds are percent as in the code; factors and compensation are percent where the
  code has floats, rounded as its casts round (away from zero, saturating);
  voltages are tenths of a volt.
* `Measure`, `RaiseMeasured` are the battery task, `FlashAnswers` the answer to the
  boot's query, `HandleBatteryMeasured`, `LoadMotorCalibration` the orchestrator.
* `Spec` lets anybody send any command at any time.

### TrackProcedures and the code

* A procedure is a script, a sequence of statements: send a motor or an encoder
  command, wait, wait or be stopped, look at the latch, clear the cached
  measurement, read it, compute.  `orElse` names the script taken when the Stop is
  heard or the statement fails.  Scripts are read off the functions line by line.
* `counter[t]` is the set of runs in which track `t` counted pulses since the
  last reset ("before" for those of earlier procedures), `latest` the cached
  measurement (`Nothing` when cleared), `sampling` and `due` the sampler and its
  timer.  A turning track may drag the other one.
* `interrupt` is the drive task's one-slot signal, set by the operator's Stop and
  by an obstacle, and handled when no inline calibration keeps the task busy.
* Timing: the tasks share one executor, so others run only where the procedure
  awaits (`Awaiting`); a `Timer` ends when every task that was ready has run
  (`ExecutorIdle`), and the sampler's interval of at most 50 ms ends within every
  wait of 100 ms.
* Two long measurements run to their end whatever happens: `MeasureEnds` and
  `VerifyEnds` do not look at the latch.

### Variants

Some operators are preceded by a variant (`DropStale`, `SameEpoch`,
`InlineFailsOn`, ...), most of them marked "Mutant".  A variant is not part of the
specification: it is the plausible mistake against which the property named in
`PROJECT.json` is known to fail.

## 3. Runs

| Run | Asks | Bounds |
|---|---|---|
| `drive_safety` | Do completions, replies and reports ever go astray, whatever the interrupts? Is `DriveQueueService` implemented? | 2 producers (symmetric), 3 programs (empty, two aborting steps, two others), a sender with 2 commands, 2 interrupts, queue of 2 |
| `drive_commands` | Does any command, calibration or interrupt leave the tracks driving, or drive before waking? | 1 producer, one-step programs of every command, 2 calibrations sent, 1 interrupt, queue of 1 |
| `drive_live` | Is every submission answered and every interrupt handled? | 2 producers, a two-step program, 1 calibration sent, 1 interrupt, queue of 1 |
| `drive_brake` | finding: an emergency brake of a distance drive ends in coast | 1 interrupt |
| `imu_control` | Does the IMU task run the mode it keeps, does readiness vouch for a stream, do movements steer by fresh headings, is every command taken? | feedback channel of 3, 3 FIFO failures |
| `calibration_store` | Do flash, RAM copy, driver and motor status agree once all is handled and does a committed distance factor last, with boot, calibrations, failures and power loss in any order? | 2 motor calibrations, 2 distance factors, 3 flash commands, 2 events |
| `distance_calibration` | finding: a failed calibration drive leaves the factor at 1.0 | 2 motor calibrations, 3 distance factors |
| `lidar_modes` | Is the sensor always cleared and released, do the tracks stop, is the mode's task never spawned twice? | channel of 3, 2 attempts per bring-up |
| `lidar_scan` | Is every scan one complete turn of the head, is the flag that of the scene, does every read end? | reads of 2 and 6 tokens, byte watchdog of 36, 2 probe retries, 10 points, 3 warm-up spins, 2 stable ones, noise in the body of packets |
| `procedures` | Do the slot, the latches, the activity and the completions hold together under any taps? | 5 procedures (a test with legs, one that runs until stopped, two inline calibrations in the drive task or its queue, the distance calibration), event channels of 7, command queues of 1 |
| `unstoppable` | finding: a stopped calibration is re-armed by the next one | 3 procedures, event channels of 6, command queues of 2 |
| `track_procedures` | Do the tracks do what the procedure commanded, are they measured in their own run, do they stand at the end, does a calibration end? | channels of 2 and 1, voltages 5.8 V and 8.4 V, factor 1.5, 1 or 2 pulses |

Why the bounds are enough.  A queue of 1 or 2 fills with one or two commands, so
the executor's own send waits; two interrupts give two epochs between stamping
and dequeuing; two producers compete for the one slot; programs of two steps
have a step that follows a cancelled, failed or successful one.  A feedback
channel of 3 holds measurements of two streams and can be full; three failures
have a first, a middle and a last.  With two distance factors an old one differs from
the one committed over it.  Three flash commands are what boot sends at once,
and the capacity in the code; two events make the flash task wait.  Two attempts
are a retry and a last one; the LiDAR's channel of 3 (4 in the code) fills as soon
as the operator goes in and out of the Room Scan while the sensor warms up.  In
`procedures` a test with two legs, an interactive one,
the longest inline calibration and the distance calibration meet; with a command
queue of 1 one calibration waits behind a running one, which is what a Stop can miss;
the other tests and `ArcDrive`'s legs differ in nothing the properties look at, and
the proofs are for every choice.  Event channels of 7 are more than the command
queue's 1 and five, as the 64 in the code are more than 16 and five, and they never
fill (`EventsAlwaysFindRoom`).  Reads of 2 and 6 tokens cut
packets of 4 to 7 tokens at every place; the watchdog of 36 is more than two
turns of 17 tokens, so that a read that begins inside one turn can still find
the whole next one; a read is shorter than a turn (`ChunkAssumption`), as the
1024 bytes of the code's buffer are fewer than the 400 samples of three; 10 points are more than a full turn has; three spins let
the settling, the plateau and the budget each end the warm-up.  In
`track_procedures` a motor channel of 2 fills before the first voltage; 5.8 V and
8.4 V give compensations below and at full speed; 1.5 is the largest factor, where
speeds saturate; the scripts are those of the code, six interference steps
included.  Larger capacities only postpone the same states, and the proofs are for
every size.

`procedures` and `unstoppable` compare states under `ReadState`, which leaves out
what nobody can read before it is written again: the status view while another
screen is drawn, a latch nobody looks at, the stage of no test.

The types are checked by proof (section 4) rather than by runs; those of
`LidarScan` follow from the actions' shape and have no run of their own.

Every run checks for deadlock.

Fairness.  `DriveCore!Fairness`: tasks woken are polled (weak fairness of the
drive task's steps, the executor and a waiting producer); every wait of a
dispatch has a timer and every intent a limit (rotation 8 s, correction 15
times 400 ms, encoder and stall timeouts, settling 2 s), so an intent that
keeps getting ticks ends (strong fairness, because a control step alternates
with the poll); a send that waits competes for room (strong fairness).
Producers, single commands and interrupts get none: nobody has to press a
button.  `TrackProcedures!Fairness`: the other tasks that are ready are polled
wherever the procedure awaits (weak fairness of each), and the procedure's own wait
ends (strong fairness, because the battery's timer ends every five seconds and the
procedure's wait is interrupted by that and by the sampler); that no wait starves is
the timer's promise.  `LidarScan!FairSpec`: weak fairness of the task's steps while
its driver has bytes, an error or the end of the wall clock to work on; a read that
gets an error at once never waits, so the wall clock alone does not bound it, and
the byte watchdog has to count errors as well.  Nobody has to switch the sensor
on or off.  The other modules ask only that a task which can take a step takes
one (weak fairness of the task's whole next-state relation): the executor polls a
woken task, and all their waits are on timers or channels.  A floor drop, a tap,
a calibration and a power loss never have to happen.

## 4. Proofs

`DriveCoreProofs` proves `Spec => []IInv` with
`IInv == TypeOK /\ HandAndIntent /\ CompletionProtocol`.  The type of the
completion and of `program[position]` depends on the protocol (the executor
only receives a completion while steps remain), and the protocol depends on the
types, so the two are proved together.  The idea of the protocol is a claim: an
envelope, an intent or a completion with a ticket.  While the executor awaits a
step there is exactly one, wherever it is, and it is for that step.  Each
action hands the claim on: `EnvelopePasses` says what a handler does with its
envelope, `LoopPassesClaim` what the loop does, `AppendedClaims` and
`DequeueKeepsProtocol` what the queue does, and `NextClaimKeepsProtocol` how
the executor makes the next one.

It then proves, each by its own strengthening on top of `IInv`:

* `SubmissionProtocol` (inductive as it stands, given the types);
* `NothingStaleUnderWay` (inductive, because interrupts are handled only with an
  empty hand);
* `MotionInv`, from which `MovesOnlyForAnIntent` and `AwakeWhenDriving`: what
  drives outside a calibration has an intent that moves, and what moves, frees
  the tracks or is about to has been woken;
* `EpochInv` and `StruckInv`, from which `InterruptCancelsOpenStep`: nothing is
  stamped with a future epoch, so once an interrupt was handled every queued or
  waiting claim is older than the current epoch and can only become Cancelled;
* `TallyInv`, from which `ServiceSpec`: the executor's tally is the sum of the
  outcomes so far, no aborting step has failed while the program goes on, and a
  reply in the channel is the summary of an ended program.  With it `Submit` is
  the service's `Accept`, `SubmitRefused` its `Refuse`, `ReceiveReply` its
  `Answer`, `ReceiveCompletion` its `Resolve`, and every other step a stutter.
  `HolderWaits` justifies the mapping: the one producer that waits holds the
  service.  `CountOfAppend` does the counting, with the library's cardinality facts.

`ImuControlProofs` proves the types and
`StreamsTheModeItKeeps /\ SignalInv /\ ReadyInv /\ ChannelInv`.  `SignalInv`
says which commands can wait in the one-slot signal at each place of a procedure;
from it `ReadyInv` bounds how long `IMU_READY` may outlive its stream, and
`ChannelInv` says what a movement that did not drain the channel may find there.
The four properties follow: `StreamsKeptMode`, `ReadyVouchesForStream`,
`NoStreamBetweenProcedures`, `MovementsSeeCurrentHeading`.

`LidarModesProofs` proves the types and three properties, each by an invariant
that says which places of the LiDAR task, or of the mode and its slot, go
together.

`CalibrationStoreProofs` proves the types and that the copies agree once all is
handled.  For the motor factors (`CopiesInv`) the robot is `Starting`, as long as the boot's query is not
answered; or `Missing`, when the answer that nothing is stored is under way and the
gate is still shut; or `Running`, when the last motor event on its way, or the driver
if there is none, carries what flash and the flash task have, unless a save is
pending.  For the distance factor (`CommitInv`) the save of the factor committed last
is, in turn, the last distance command that waits, the one the flash task writes, its
answer, the last distance event, or done; loads and saves that are older are all in
front of it.  The channels keep their order, and from the answer on the RAM copy and
flash have the committed factor; so whatever an older answer puts in force in between,
the last event puts the committed one back.  No boot query can come behind it
(`CopiesInv`: Initialize is only in the channel before the gate opens).

`LidarScanProofs` proves `ScanIsOneTurn` and `FlagTellsTheTurn`, for any sizes of the
reads below a turn and any watchdog, retries and spins.  The invariant `StreamInv`
says where the decoder is in the stream (`Follows`): it has lost its place and holds
no point; or it carries a changed token and will discard the packet; or it has
exactly the points of the packets of this turn that were sent, or of a whole turn
while a ring-start is on its way, and of the packet under way exactly the tokens sent.
`FeedFollows` moves this on by one token, through the search for a header
(`SearchFollows`), the carrying of a packet (`GrowFollows`) and its end
(`FinishFollows`): only the packet that is being sent can check at its last token
(`FinishedPacket`), a changed one never does (`BrokenIsNotIntact`), and the revolution
handed on is what a ring-start found complete.  `PushFollows` carries it along the
tokens of a read, which may end one turn and begin another; since `push` is
recursive, its equations (`PushIs`) and this are shown by a least counterexample.
What `PacketPoints` interpolates are the bearings of the samples (`Interpolated`,
across the zero as well), and `FrontIsBlocked` shows that grid, mounting offset and
sector rule together say what `Blocked` says of the bearings.
`TrackerFollowsTheFlag`, that the edge tracker holds the flag while streaming, gives
the first scan after a restart.

`TrackProceduresProofs` begins with the motor driver and proves, whoever sends
whatever, its types, `TracksFollowCommand` and `SilentUntilPowered`.  The argument is arithmetic: the
compensation of any voltage lies between 50 and 100 percent
(`VoltageCompensation`), a factor between 50 and 150, and rounding away from zero
keeps a speed of at least one half on its side of zero, so that two scalings,
each saturated, keep the sign of a command and its being zero
(`ScaleForward`, `ScaleBackward`).

It then proves all the safety properties of `TrackProcedures`.  A
script is data, and `TrackScripts` says once what it says where: `ScriptShape`
gives, for every place of every script, what a statement of its kind can rely on
(`Shape`).  A run stands directly behind a look at the latch; an End stands behind a
rest, a disable and, in the motor calibration, the sampler's stop; a reading behind
the run it is of and a long wait; a disable behind a rest.  On this rest, in turn:

* `ProceduresAreSenders`: a step of a procedure, of the sampler or of the drive
  task's interrupt is a send to the driver or leaves it alone, so `TrackProcedures`
  implements `MotorDriver` and has its invariant.
* `HeedsStop`, from which `StopEndsRuns`: between the look at the latch and the
  command nothing awaits, so nobody can say Stop.
* `Followed`: what the script said last about the tracks is what the driver was
  told last, counted over the commands it has yet to take (`TracksTold`), or a brake
  or coast of the drive task unless a calibration keeps that busy; the same for the
  driver-enable lines (`PowerTold`); and behind a long wait the driver is up.
* `Ended`, from which `EndsAtRest`: with no procedure, and in the magnetometer
  calibration before its motor phase, the tracks were told to rest; the sampler was
  told to stop whenever no motor calibration runs.
* `Ready` with `Followed`, from which `MeasuresWhatItCommands`: the channel is empty
  where pulses are read.
* `Rested`, from which `CompensationHolds`: every Disable in the channel follows a
  rest, so that the driver which takes itself for idle stands.
* `Awakening`, `TurnsInTurn` and `CountedAlone`, from which `PulsesAreTheTracks`:
  until the driver is up nothing but coast-and-avoid's first run can drive the right
  track, so that a motor calibration starts with nothing on its way to it; from the
  opening to the end of the left track's coast only the left track turns, then only
  the right one; and from the sampler's Reset to the reading the counters, from
  Clear on the cached measurement too, hold that track's run alone.  The run before
  matters: `RightStarts` needs the left track's coast to be over.

The measurement theorems rest on the model's account of time (`ExecutorIdle`): a
timer ends only when every task that was ready has run.  That is what the calibration
itself relies on, as it gets no reply from the driver or the sampler.

`ProceduresProofs` proves the types and all the safety properties of the panel.  `SlotInv`
says that a test is in the queue or in its task and never in both, that
there is at most one, and none while the Room Scan holds the slot; the radar's and
the spawn's property follow from it together with the screens each tap can reach.
`AnnouncedInv` says that a calibration marked complete has an event in one of the
two channels; it is proved through every writer of the activity, because a late
procedure may mark another one complete.  `StopStands` follows from `SlotInv`:
only `StartTest` clears the latch, and it needs the slot free.  `EventsFindRoom`
follows from a count (`CountInv`): the completions that have been raised and not yet
handled, and what can still raise one - the calibrations that are queued, stopped or
not, or run, the test in the slot, the distance calibration and its request, a finger on an entry.
Every step passes a part of it on or uses it up; only a finger that comes down adds
to it, and then no completion is left unhandled, so it never exceeds the drive
queue's capacity by more than five.  Nothing rests on a Stop reaching the queue: a
calibration that runs after its own Stop is counted until its event is handled.

The theorems hold for every value of the constants that satisfies the named
assumption at the head of each module: every number of producers and senders,
every set of programs, every queue size above 0 (`DriveCore`), every capacity and
failure limit above 0 (`ImuControl`, `LidarModes`), every set of factors and every
flash channel with room for the boot's three queries (`CalibrationStore`), every
set of procedures and queue size above 0 (`Procedures`), every set of voltages up
to 12 V, of factors, and every channel size above 0 (`MotorDriver`), and on top of
these every choice among the three procedures and every set of pulse counts above 0
(`TrackProcedures`), every size of reads below a turn and every watchdog, retry and
spin bound (`LidarScan`).

Some have a hypothesis of their own.  `EventsAlwaysFindRoom` needs an event channel
with room for the command queue and five more, which the code's 64 and 16 have.  The
two of `LidarScan` need a point buffer for one turn, which the code has
(512 for 400), and noise that spares the headers: with a changed header they are
false (section 5).  The turns themselves, their packets and bearings, are definitions
of `LidarScan` and not constants: the proof is about this device at its two speeds.

Only model-checked: the temporal properties that need fairness (`ReadsEnd` and the
others of section 3), which are out of the prover's reach, and the refuted properties.

## 5. Findings

The three `violation` runs above; `findings` in `PROJECT.json` has the lines.

Nine more statements of comments that the model refutes are written down as
definitions at the end of their modules.  Adding the name as an INVARIANT to the
module's configuration shows the counterexample:

| Definition | What happens | Source |
|---|---|---|
| `DriveCore!DrivesWithDriversEnabled` | a movement after a calibration drives with its drivers disabled | `drive/dispatch.rs:151` |
| `ImuControl!CalibrationHasReadings` | the magnetometer calibration never gets a reading: its Start is replaced in the signal | `calibration/imu.rs:91` |
| `CalibrationStore!InitializedOnceQueried` | the panel never opens on an empty flash: nobody answers for the flags | `initialization/mod.rs:134` |
| `CalibrationStore!DriveIsNominal` | a boot load handled after the calibration began puts the loaded factor in force for its drive | `calibration/distance.rs:80` |
| `CalibrationStore!LoadedDistanceIsStored` | a distance calibration that is stopped shows its factor as loaded although nothing is stored: `abort` sets the status | `state.rs:23` |
| `LidarModes!DrivesOnlyWhileStreaming` | the mode drives on while the sensor warms up again | `sensors/lidar.rs:604` |
| `TrackProcedures!SlowerIsAttenuated` | the slower track keeps factor 1.0, as does the faster | `calibration/motor.rs:111-123` |
| `TrackProcedures!VerifiedOnReadings` | a magnetometer calibration without a single sample passes its verification | `calibration/imu.rs:612` |
| `Procedures!SensorWantedOnlyByRadar` | a late completion leaves the radar with the sensor wanted and the slot held | `ui/mod.rs:524` |

With `Noise = {"Header"}` `LidarScan!ScanIsOneTurn` fails as well: a changed header
loses a packet that no checksum covers, and the revolution lacks its samples
without a sign (`coin-d6/src/decoder.rs:4-6` speaks of complete revolutions).

Other places where code and comments part, or that deserve a second look, met while
modelling and visible in the actions named here, without a run of their own:

* `DriveCore!RotationStep`, `CorrectionPulse`: an interrupt does not preempt a control step that
  awaits (`intent.rs:59` against the comment at `intent.rs:8-9`).
* `DriveCore!HandleEnvelope`, `InterruptSeen`: with no intent an older queued
  command is taken before a pending interrupt (`intent.rs:127` against 13-14).
* `ImuControl!ReadFails`: `IMU_READY` stays set when the IMU task ends
  (`imu.rs:751` against 101), and the gate then takes a sample left in the channel
  for a fresh one (`dispatch.rs:380` against 360).
* `ImuControl!DispatchReady`, `DispatchNotReady`: the fusion mode a distance drive
  asks for is overwritten by its own Start (`control.rs:44-48`).
* `LidarModes!CoastEnds`: the Disable of a mode that ends late darkens a Room Scan
  already open (`ui/mod.rs:220-221`).
* `CalibrationStore!Commit`: "Persists before clearing the backup" only queues the
  save.  `SaveData` for a magnetometer record: only the flags are used again after
  boot (`calibration/imu.rs:848-856`).
* `Procedures!LegEnds`: the straight drive does not look whether its leg was
  cancelled, so a test that was stopped in its last leg raises TestingCompleted.
* `Procedures!HandleTestingCompleted`, `Complete`, `InlineFinishes`: a completion
  carries no name; it resets the panel, or marks complete or failed, whatever
  procedure the activity names by then.
* `Procedures!TakeDistanceRequest`: a Stop given while the request waits for the
  previous step to end is lost, because `start` re-arms the latch.
* `Procedures!HandleInterrupt`, `RunInline`: a queued calibration is taken before the
  Stop that was meant for it (`intent.rs:127`); the `unstoppable` run shows the step.
* `DriveCore!HandleEnvelope`: a Stop handled before the executor enqueues its next step
  does not touch that step, so a leg that was just submitted runs.
* `TrackProcedures!Stop`, `HandleInterrupt`: a Stop given during an inline
  calibration stays in the interrupt's slot and is handled after the
  calibration, whatever was started since; it replaces an emergency brake that waits.
* `TrackProcedures!HandleInterrupt`: an obstacle's BrakeAll falls between the
  commands of coast-and-avoid, in any order; the mode goes on with its script.
* `TrackProcedures!ObstacleSeen`: a flag that is up for less than the mode's poll brakes
  the tracks through the drive task and is missed by the mode, which stays in its
  forward state with the tracks braked.
* `TrackProcedures!ClearMeasurement`: the drive task clears the cached sample before
  its Reset is handled (`sensors/control.rs:60-66`); what saves a distance drive is
  the 150 ms its IMU gate takes.
* `MotorDriver!TakeCommand`: Disable leaves duty and pins as they are, so an Enable
  resumes the last speed; no sender does that today (`EndsAtRest`).
* `MotorDriver!DriverStarts`: until the first voltage the channel is not drained, and
  its senders wait.
* `drive/queue.rs:180-183` can answer QueueBusy when the executor has replied
  and not yet cleared the flag (`DriveCore!Submit`).
* `drive/dispatch.rs:269`: CancelCurrent is documented to keep the queue and is
  handled as Stop.
* `event.rs:105-107` describes a floor-drop event that nothing raises.

## 6. Plan

Done: `DriveCore` with `DriveQueueService`, `ImuControl`, `CalibrationStore`,
`LidarModes`, `LidarScan`, `Procedures`, `MotorDriver`, `TrackProcedures`, and the
proofs above.  Left, in this order:

1. The gyroscope and accelerometer calibrations as further scripts of
   `TrackProcedures`.
2. Gap analysis against a reference definition, once a mode calls it.
3. The controllers' arithmetic: rotation angles across the wrap, encoder deltas.

## 7. Not modelled

* `vl53l0x_stub.rs`: a stub with no behaviour.
* `gap_analysis.rs`: a function of one cloud, called by a hardware test only.
* `touch-async`: register reads and an affine correction of one point.
* `st7789-async`, `touch-ui`'s drawing, geometry and widgets: output only; which
  target a point meets is reduced to the set of targets of a screen.
* `main.rs`, `resources.rs`: pins and spawning.
* `hardware-tests`: bring-up examples for single parts, each a program of its own.
* In modelled components: telemetry and its filters, the statistics of calibration
  samples, the straight-line mode, which has no caller, the list scrolling and
  sliders of the panel, the intensities and the fusion of several revolutions of
  the LiDAR crate, which the firmware does not use.
