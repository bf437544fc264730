---------------------------- MODULE TrackProcedures ----------------------------
(***************************************************************************)
(* The procedures that command the motor driver by themselves, with what   *)
(* they read back: the motor calibration and the magnetometer calibration, *)
(* which the drive task runs inline, coast-and-avoid, and the drive task's *)
(* brake for an obstacle; the encoder sampler and its cached measurement,  *)
(* the magnetometer's averages (src/src/task/drive/calibration,            *)
(* src/src/task/sensors/encoders.rs, src/src/task/drive/sensors/data.rs).  *)
(*                                                                         *)
(* A procedure is a script, a list of statements; a statement that looks   *)
(* for the operator's Stop, or may fail, names the script that is executed *)
(* instead.  One procedure runs at a time, as the panel starts them.       *)
(*                                                                         *)
(* Time: the tasks share one executor (main.rs:96-100), so another runs    *)
(* only where the running one awaits; a Timer::after ends when every task  *)
(* that was ready has run; the sampler's, 50 ms at most, ends within every *)
(* wait of 100 ms.                                                         *)
(***************************************************************************)
EXTENDS MotorDriver, FiniteSets

CONSTANTS Started,      \* the procedures that are started
          PulseCounts   \* how many pulses a moving track may count

ASSUME StartedAssumption ==
    Started \subseteq {"MotorCalibration", "MagCalibration", "CoastAndAvoid"}
ASSUME PulseAssumption == PulseCounts \subseteq Nat \ {0}

VARIABLES
    running,        \* the procedure
    at,             \* the script it executes, and where in it
    stop,           \* its stop latch
    outcome,        \* how the last one ended
    encoderChannel, sampling, due,  \* the sampler, and whether its timer runs
    counter,        \* of each track: under which runs it counted its pulses
    latest,         \* LATEST_ENCODER_MEASUREMENT, Nothing when cleared
    measured,       \* the measurement each track's calibration took
    factors,        \* what the motor calibration computed, and from what
    silent,         \* the IMU task has ended: no magnetometer sample comes
    averages,       \* the steps whose interference was measured on samples
    interrupt       \* DRIVE_INTERRUPT, one slot

procedureVars == <<running, at, stop, outcome>>
sensorVars == <<encoderChannel, sampling, due, counter, latest>>
resultVars == <<measured, factors, silent, averages>>
vars == <<motorVars, procedureVars, sensorVars, resultVars, interrupt>>

Nowhere == <<"none", 0>>
Nothing == [t \in Track |-> {"nothing"}]
NoFactors == [t \in Track |-> [pulses |-> 0, factor |-> 100]]

ProcedureInit ==
    /\ Init
    /\ running = "none" /\ at = Nowhere /\ stop = FALSE /\ outcome = "none"
    /\ encoderChannel = <<>> /\ sampling = FALSE /\ due = FALSE
    /\ counter = Both({"before"}) /\ latest = Nothing
    /\ measured = Both({}) /\ factors = NoFactors
    /\ silent = FALSE /\ averages = {} /\ interrupt = "none"

-----------------------------------------------------------------------------
(* The procedures.                                                         *)

Statement(do, what, orElse) == [do |-> do, what |-> what, orElse |-> orElse]
Motor(c) == Statement("Motor", c, "none")
Encoder(c) == Statement("Encoder", c, "none")
Wait == Statement("Wait", "short", "none")
WaitLong == Statement("Wait", "long", "none")
\* wait_or_stop, and is_stop_requested
WaitOr(orElse) == Statement("WaitOr", "long", orElse)
Check(orElse) == Statement("Check", "none", orElse)
End(how) == Statement("End", how, "none")

MotorStopped == <<Motor(CoastAll), Encoder("Stop"),
                  Motor(SetAllDriversEnable(FALSE)), End("Stopped")>>
MotorFailed == <<Motor(CoastAll), Encoder("Stop"),
                 Motor(SetAllDriversEnable(FALSE)), End("Failed")>>
RunStopped == <<Motor(CoastAll)>> \o MotorStopped
\* Mutant: the counters are not reset.
CleanEncodersKept ==
    <<Encoder("Stop"), Wait, Statement("Clear", "none", "none"), Encoder("Start"), Wait>>

CleanEncoders ==
    <<Encoder("Stop"), Wait, Encoder("Reset"), Wait,
      Statement("Clear", "none", "none"), Encoder("Start"), Wait>>
\* Mutant: the pulses are read after the track was let go.
MeasureTrackLate(side) ==
    CleanEncoders
    \o <<Check("MotorStopped"),
         Motor(IF side = "Left" THEN SetTracks(60, 0) ELSE SetTracks(0, 60)),
         WaitOr("RunStopped"),
         Motor(CoastAll),
         WaitOr("MotorStopped"),
         Statement("ReadPulses", side, "none")>>

MeasureTrack(side) ==
    CleanEncoders
    \o <<Check("MotorStopped"),
         Motor(IF side = "Left" THEN SetTracks(60, 0) ELSE SetTracks(0, 60)),
         WaitOr("RunStopped"),
         Statement("ReadPulses", side, "none"),
         Motor(CoastAll),
         WaitOr("MotorStopped")>>

MotorCalibration ==
    <<Motor(SetAllDriversEnable(TRUE)), Wait, Encoder("Start"), Wait>>
    \o MeasureTrack("Left") \o MeasureTrack("Right")
    \o <<Statement("Compute", "none", "MotorFailed"), Statement("SendFactors", "none", "none"),
         Encoder("Stop"), Motor(SetAllDriversEnable(FALSE)), End("Complete")>>

InterferenceSteps ==
    <<SetTracks(50, 50), SetTracks(100, 100), SetTracks(50, 0),
      SetTracks(100, 0), SetTracks(0, 50), SetTracks(0, 100)>>

\* Before the motor phase the drivers are as they were.
MagStopped == <<End("ByHand")>>
\* Mutant: a stopped motor phase only disables the drivers.
MotorPhaseStoppedRolling ==
    <<Motor(SetAllDriversEnable(FALSE)), End("Stopped")>>

MotorPhaseStopped ==
    <<Motor(CoastAll), Motor(SetAllDriversEnable(FALSE)), End("Stopped")>>
VerifyFailed ==
    <<Motor(CoastAll), WaitLong, Motor(SetAllDriversEnable(FALSE)), End("Failed")>>

\* Mutant: the step's command is given before the stop is looked for.
MotorStepUnchecked(do, i, rejected) ==
    <<Motor(InterferenceSteps[i]), Check("MotorPhaseStopped"),
      WaitOr("MotorPhaseStopped"), Statement(do, i, rejected),
      Motor(CoastAll), WaitOr("MotorPhaseStopped")>>

MotorStep(do, i, rejected) ==
    <<Check("MotorPhaseStopped"), Motor(InterferenceSteps[i]),
      WaitOr("MotorPhaseStopped"), Statement(do, i, rejected),
      Motor(CoastAll), WaitOr("MotorPhaseStopped")>>

EverySteps(do, rejected) ==
    [i \in 1..36 |-> MotorStep(do, ((i - 1) \div 6) + 1, rejected)[((i - 1) % 6) + 1]]

Rotate(phase) == Statement("Rotate", phase, "MagStopped")

MagCalibration ==
    <<WaitLong, WaitOr("MagStopped"),
      Rotate("ManualYaw"), Rotate("ManualPitch"), Rotate("ManualRoll"),
      WaitOr("MagStopped"),
      Motor(SetAllDriversEnable(TRUE)), Wait, WaitLong,
      Statement("Measure", 0, "none")>>
    \o EverySteps("Measure", "none") \o EverySteps("Verify", "VerifyFailed")
    \o <<Motor(CoastAll), WaitLong, Motor(SetAllDriversEnable(FALSE)), WaitLong,
         End("Complete")>>

\* coast_obstacle_avoid_task: the loop looks for the stop before each state.
CoastStopped ==
    <<Motor(BrakeAll), Wait, Motor(SetAllDriversEnable(FALSE)), End("Stopped")>>
CoastTurn(clockwise) == IF clockwise THEN SetTracks(60, -60) ELSE SetTracks(-60, 60)
CoastRound(clockwise) ==
    <<Check("CoastStopped"),
      Motor(SetTracks(80, 80)), Statement("Watch", "none", "CoastStopped"),
      Motor(BrakeAll), Wait, Check("CoastStopped"),
      Motor(SetTracks(-60, -60)), WaitLong, Check("CoastStopped"),
      Motor(BrakeAll), Wait, Check("CoastStopped"),
      Motor(CoastTurn(clockwise)), WaitLong, Check("CoastStopped"),
      Motor(BrakeAll), Wait,
      Statement("Repeat", "none", IF clockwise THEN "RoundLeft" ELSE "RoundRight")>>
CoastAndAvoid ==
    <<Motor(BrakeAll), Wait, Motor(SetAllDriversEnable(TRUE)), Wait>>
    \o CoastRound(TRUE)

Calibrations == {"MotorCalibration", "MagCalibration"}
Script == [name \in {"MotorCalibration", "RunStopped", "MotorStopped", "MotorFailed",
                    "MagCalibration", "MagStopped", "MotorPhaseStopped",
                    "VerifyFailed", "CoastAndAvoid", "RoundRight", "RoundLeft",
                    "CoastStopped"} |->
    CASE name = "MotorCalibration" -> MotorCalibration
      [] name = "RunStopped" -> RunStopped
      [] name = "MotorStopped" -> MotorStopped
      [] name = "MotorFailed" -> MotorFailed
      [] name = "MagCalibration" -> MagCalibration
      [] name = "MagStopped" -> MagStopped
      [] name = "MotorPhaseStopped" -> MotorPhaseStopped
      [] name = "VerifyFailed" -> VerifyFailed
      [] name = "CoastAndAvoid" -> CoastAndAvoid
      [] name = "RoundRight" -> CoastRound(TRUE)
      [] name = "RoundLeft" -> CoastRound(FALSE)
      [] name = "CoastStopped" -> CoastStopped]

-----------------------------------------------------------------------------
(* Executing them.                                                         *)

\* Every task that was ready has run.
ExecutorIdle ==
    /\ driver = "up" => channel = <<>> /\ events = <<>> /\ battery = NoVoltage
    /\ interrupt # "none" => driver = "waiting" \/ running \in Calibrations
    /\ encoderChannel = <<>>

Start(p) ==
    /\ running = "none" /\ ExecutorIdle
    /\ running' = p /\ at' = <<p, 1>>
    /\ stop' = FALSE /\ outcome' = "none"
    /\ measured' = Both({}) /\ factors' = NoFactors /\ averages' = {}
    \* what was counted so far was counted before this procedure
    /\ counter' = Both({"before"})
    /\ latest' = IF latest = Nothing THEN Nothing ELSE Both({"before"})
    /\ UNCHANGED <<motorVars, encoderChannel, sampling, due, silent, interrupt>>

Here == Script[at[1]][at[2]]
At(do) == running # "none" /\ Here.do = do
What == Here.what
Proceed == at' = <<at[1], at[2] + 1>> /\ UNCHANGED <<running, stop, outcome>>
Divert == at' = <<Here.orElse, 1>> /\ UNCHANGED <<running, stop, outcome>>

\* Where the operator is heard; a full channel has room before he can act.
AtAwait == \E do \in {"Wait", "WaitOr", "Watch", "Rotate", "Measure", "Verify"} : At(do)

\* The other tasks run while it waits, for a timer or for room in the channel.
Blocked == (At("Motor") \/ At("SendFactors")) /\ Len(channel) = ChannelCap
Awaiting == running = "none" \/ AtAwait \/ Blocked

\* The latch, and the drive task's one-slot interrupt signal.
Stop ==
    /\ AtAwait /\ ~stop
    /\ stop' = TRUE /\ interrupt' = "Stop"
    /\ UNCHANGED <<motorVars, running, at, outcome, sensorVars, resultVars>>

SendMotor ==
    /\ At("Motor") /\ Send(What) /\ Proceed
    /\ UNCHANGED <<driverVars, supplyVars, sensorVars, resultVars, interrupt>>

SendFactors ==
    /\ At("SendFactors") /\ Proceed
    /\ Send(UpdateAllCalibration(factors["Left"].factor, factors["Right"].factor))
    /\ UNCHANGED <<driverVars, supplyVars, sensorVars, resultVars, interrupt>>

SendEncoder ==
    /\ At("Encoder") /\ Proceed
    /\ encoderChannel' = Append(encoderChannel, What)
    /\ UNCHANGED <<motorVars, sampling, due, counter, latest, resultVars, interrupt>>

ClearMeasurement ==
    /\ At("Clear") /\ Proceed
    /\ latest' = Nothing
    /\ UNCHANGED <<motorVars, encoderChannel, sampling, due, counter, resultVars,
                   interrupt>>

\* The first voltage comes half a second after boot: within a long wait.
Elapsed(length) ==
    /\ ExecutorIdle
    /\ length = "long" => driver = "up"
    /\ sampling => latest # Nothing

Undisturbed == UNCHANGED <<motorVars, sensorVars, resultVars, interrupt>>

WaitEnds == At("Wait") /\ Elapsed(What) /\ Proceed /\ Undisturbed
WaitOrEnds ==
    /\ At("WaitOr")
    /\ IF stop THEN Divert ELSE Elapsed(What) /\ Proceed
    /\ Undisturbed
CheckStop ==
    /\ At("Check")
    /\ IF stop THEN Divert ELSE Proceed
    /\ Undisturbed
ObstacleSeen ==
    /\ At("Watch") /\ Elapsed("long")
    /\ IF stop THEN Divert ELSE Proceed
    /\ Undisturbed
RepeatRound == At("Repeat") /\ Divert /\ Undisturbed
EndProcedure ==
    /\ At("End")
    /\ running' = "none" /\ at' = Nowhere /\ outcome' = What
    /\ UNCHANGED stop /\ Undisturbed

ReadPulses ==
    /\ At("ReadPulses") /\ Proceed
    /\ measured' = [measured EXCEPT ![What] =
                       IF latest = Nothing THEN {} ELSE latest[What]]
    /\ UNCHANGED <<motorVars, sensorVars, factors, silent, averages, interrupt>>

\* Target over pulses, clamped to 0..1; a silent track keeps 1.0.
TrackFactor(target, pulses) ==
    IF pulses > 0 THEN Clamp((100 * target) \div pulses, 0, 100) ELSE 100

Computed(pulses) ==
    LET target == IF pulses["Left"] > pulses["Right"] THEN pulses["Left"]
                  ELSE pulses["Right"]
    IN  [t \in Track |-> [pulses |-> pulses[t],
                          factor |-> TrackFactor(target, pulses[t])]]

PulsesOf(t) == IF measured[t] = {} THEN {0} ELSE PulseCounts

Compute ==
    /\ At("Compute")
    /\ \E l \in PulsesOf("Left"), r \in PulsesOf("Right") :
          IF l = 0 /\ r = 0 THEN Divert /\ UNCHANGED factors
          ELSE factors' = Computed(Sides(l, r)) /\ Proceed
    /\ UNCHANGED <<motorVars, sensorVars, measured, silent, averages, interrupt>>

\* Mutant: a rotation without samples has no end of its own.
RotationEndsHeard ==
    /\ At("Rotate") /\ Elapsed("long")
    /\ \/ ~stop /\ ~silent /\ Proceed
       \/ stop /\ Divert
    /\ Undisturbed

\* A guided rotation: covered, out of time or of samples, or stopped.
RotationEnds ==
    /\ At("Rotate") /\ Elapsed("long")
    /\ \/ ~stop /\ ~silent /\ Proceed
       \/ Divert
    /\ Undisturbed

\* measure_mag_average: no sample in any window leaves a vector of zeros.
MeasureEnds ==
    /\ At("Measure") /\ Proceed
    /\ averages' = IF silent THEN averages ELSE averages \cup {What}
    /\ UNCHANGED <<motorVars, sensorVars, measured, factors, silent, interrupt>>

\* Without samples in both passes the corrected field is the baseline itself;
\* the bare interference is nowhere near it.
VerifyEnds ==
    /\ At("Verify")
    /\ \/ (What \in averages <=> ~silent) /\ Proceed
       \/ Divert
    /\ Undisturbed

ProcedureStep ==
    \/ SendMotor \/ SendFactors \/ SendEncoder \/ ClearMeasurement
    \/ WaitEnds \/ WaitOrEnds \/ CheckStop \/ ObstacleSeen \/ RepeatRound
    \/ EndProcedure \/ ReadPulses \/ Compute
    \/ RotationEnds \/ MeasureEnds \/ VerifyEnds

-----------------------------------------------------------------------------
(* The sampler, the tracks, and the drive task's interrupt.                *)

SamplerOnly == UNCHANGED <<motorVars, procedureVars, resultVars, interrupt>>

\* While it samples the task looks at its channel, then sleeps and samples.
HandleEncoderCommand ==
    /\ encoderChannel # <<>> /\ ~due
    /\ LET c == Head(encoderChannel) IN
       /\ sampling' = CASE c = "Start" -> TRUE [] c = "Stop" -> FALSE
                         [] OTHER -> sampling
       /\ counter' = IF c = "Reset" THEN Both({}) ELSE counter
    /\ encoderChannel' = Tail(encoderChannel)
    /\ UNCHANGED <<due, latest>> /\ SamplerOnly

SleepInterval ==
    /\ sampling /\ ~due /\ encoderChannel = <<>>
    /\ due' = TRUE
    /\ UNCHANGED <<encoderChannel, sampling, counter, latest>> /\ SamplerOnly

Sample ==
    /\ due /\ due' = FALSE /\ latest' = counter
    /\ UNCHANGED <<encoderChannel, sampling, counter>> /\ SamplerOnly

SamplerStep == HandleEncoderCommand \/ SleepInterval \/ Sample

\* A turning track drags the other: both may count pulses of its run.
TracksTurn ==
    /\ running = "MotorCalibration" /\ ~AtRest
    /\ \E t, run \in Track :
          /\ duty[run] > 0
          /\ counter' = [counter EXCEPT ![t] = @ \cup {run}]
    /\ UNCHANGED <<encoderChannel, sampling, due, latest>> /\ SamplerOnly

SensorFalls ==
    /\ running = "MagCalibration" /\ ~silent
    /\ silent' = TRUE
    /\ UNCHANGED <<motorVars, procedureVars, sensorVars, measured, factors,
                   averages, interrupt>>

\* handle_obstacle_detected while the mode has the sensor armed.
ObstacleRaised ==
    /\ running = "CoastAndAvoid" /\ interrupt # "EmergencyBrake"
    /\ interrupt' = "EmergencyBrake"
    /\ UNCHANGED <<motorVars, procedureVars, sensorVars, resultVars>>

\* The drive task is busy while it runs a calibration inline.
HandleInterrupt ==
    /\ interrupt # "none" /\ running \notin Calibrations
    /\ Send(IF interrupt = "EmergencyBrake" THEN BrakeAll ELSE CoastAll)
    /\ interrupt' = "none"
    /\ UNCHANGED <<driverVars, supplyVars, procedureVars, sensorVars, resultVars>>

Alone == UNCHANGED <<procedureVars, sensorVars, resultVars, interrupt>>
BatteryTimerEnds == ExecutorIdle /\ Alone /\ \E v \in Voltages : Measure(v)

OtherTasks ==
    \/ SamplerStep \/ TracksTurn \/ SensorFalls
    \/ ObstacleRaised \/ HandleInterrupt
    \/ DriverStep /\ Alone
    \/ SupplyRest /\ Alone
    \/ BatteryTimerEnds

TrackNext ==
    \/ \E p \in Started : Start(p)
    \/ Stop \/ ProcedureStep
    \/ Awaiting /\ OtherTasks

TrackSpec == ProcedureInit /\ [][TrackNext]_vars

\* The executor runs every task that is ready, and timers fire: the battery's
\* ends every 5 s, a few times within a procedure's wait and not for ever.
Fairness ==
    /\ SF_vars(ProcedureStep)
    /\ WF_vars(Awaiting /\ SamplerStep)
    /\ WF_vars(Awaiting /\ HandleInterrupt)
    /\ WF_vars(Awaiting /\ DriverStep /\ Alone)
    /\ WF_vars(Awaiting /\ BatteryTimerEnds)
    /\ WF_vars(Awaiting /\ SupplyRest /\ Alone)

FairTrackSpec == TrackSpec /\ Fairness

-----------------------------------------------------------------------------
(* What the procedures promise.                                            *)

\* However a procedure ends, stopped at any wait, failed or complete, and
\* whatever brake or coast the drive task mixes into its commands, it leaves
\* the tracks at rest, the drivers disabled and the sampler stopped once its
\* last commands are handled (motor.rs:236-252, imu.rs:751-770).
EndsAtRest ==
    running = "none" /\ outcome # "none" /\ channel = <<>> /\ encoderChannel = <<>>
    => duty = Both(0) /\ (standby => outcome = "ByHand") /\ ~sampling

\* A measurement is taken while the tracks do what its step commanded: the
\* calibrations wait for the driver without a reply from it.
MeasuresWhatItCommands ==
    /\ \A side \in Track : At("ReadPulses") /\ What = side =>
          standby /\ \A t \in Track : duty[t] > 0 <=> t = side
    /\ (At("Measure") \/ At("Verify")) /\ channel = <<>> =>
          /\ standby
          /\ motion = IF What = 0 THEN Both(0)
                      ELSE Sides(InterferenceSteps[What][2], InterferenceSteps[What][3])

\* The pulses a track is judged by were counted in its own run: none from an
\* earlier move, and none from the run of the other track that dragged it.
PulsesAreTheTracks == \A t \in Track : measured[t] \subseteq {t}

\* After the operator's Stop no procedure sets a track turning any more
\* (motor.rs:25-26, imu.rs:10-11: honoured at every step boundary).
StartsRun ==
    /\ Len(channel') > Len(channel)
    /\ channel'[Len(channel')][1] = "SetTracks"
StopEndsRuns == [][stop => ~StartsRun]_vars

\* A calibration comes to its end, although its commands may have to wait for
\* the first battery voltage in a full channel that the orchestrator, which
\* handles the battery's event, waits for as well.
CalibrationEnds == running \in Calibrations ~> running = "none"

\* motor.rs:15-16: "The faster track becomes the reference (factor = 1.0); the
\* slower track is attenuated."
SlowerIsAttenuated ==
    \A t, u \in Track :
        0 < factors[t].pulses /\ factors[t].pulses < factors[u].pulses
        => factors[t].factor < 100

\* imu.rs:612: the verification passes only on a field that was measured.
VerifiedOnReadings ==
    running = "MagCalibration" /\ At("End") /\ What = "Complete"
    => 0..6 \subseteq averages

=============
