------------------------------ MODULE MotorDriver ------------------------------
(***************************************************************************)
(* The motor driver task with what it waits for and publishes: its command *)
(* channel, the standby line, the direction pins and duty of the tracks,   *)
(* the battery task's voltage, the calibration factors the orchestrator    *)
(* loads at boot, and the commanded speeds in the motion state             *)
(* (src/src/task/motor_driver.rs, src/src/task/battery_charge_read.rs,     *)
(* src/src/system/state/power.rs, src/src/system/state/motion.rs).         *)
(*                                                                         *)
(* Factors and compensation are in percent, voltages in tenths of a volt.  *)
(* Spec lets the senders send anything; TrackProcedures says what they do. *)
(***************************************************************************)
EXTENDS Integers, Sequences

CONSTANTS ChannelCap,   \* capacity of MOTOR_COMMAND_CHANNEL
          EventCap,     \* capacity of EVENT_CHANNEL
          Voltages,     \* what the battery measures
          Factors       \* the factors flash may hold

NoVoltage == -1
MaxVoltage == 120       \* a pack of two cells stays far below

ASSUME CapAssumption == ChannelCap \in Nat \ {0} /\ EventCap \in Nat \ {0}
ASSUME VoltageAssumption == Voltages \subseteq 0..MaxVoltage
ASSUME FactorAssumption == Factors \subseteq Nat

VARIABLES
    channel,        \* MOTOR_COMMAND_CHANNEL
    driver,         \* "waiting" for the first voltage, or "up"
    standby,        \* the standby line: TRUE lets the outputs drive
    pins, duty,     \* of each track, as MotorDirection and in percent
    motion,         \* MOTION_STATE: the commanded speeds
    calibration,    \* the factors of the two tracks
    compensation, motorsActive,
    voltage,        \* POWER_STATE
    battery,        \* the measurement the battery task has yet to raise
    flashAnswered,  \* whether the motor calibration's query was answered
    events          \* EVENT_CHANNEL

outputVars == <<standby, pins, duty, motion>>
driverVars == <<driver, outputVars, calibration, compensation, motorsActive>>
supplyVars == <<voltage, battery, flashAnswered, events>>
motorVars == <<channel, driverVars, supplyVars>>

Track == {"Left", "Right"}
Both(x) == [t \in Track |-> x]
Sides(l, r) == [t \in Track |-> IF t = "Left" THEN l ELSE r]

Speed == -100..100
SetTracks(l, r) == <<"SetTracks", l, r>>
BrakeAll == <<"BrakeAll", 0, 0>>
CoastAll == <<"CoastAll", 0, 0>>
SetAllDriversEnable(enabled) == <<IF enabled THEN "Enable" ELSE "Disable", 0, 0>>
LoadCalibration(l, r) == <<"LoadCalibration", l, r>>
UpdateAllCalibration(l, r) == <<"UpdateAllCalibration", l, r>>

Factor == 50..150
Command ==
    ({"SetTracks"} \X Speed \X Speed)
    \cup ({"BrakeAll", "CoastAll", "Enable", "Disable"} \X {0} \X {0})
    \cup ({"LoadCalibration"} \X Factor \X Factor)
    \cup ({"UpdateAllCalibration"} \X Nat \X Nat)

Direction == {"Forward", "Backward", "Coast", "Brake"}
Event == ({"BatteryMeasured"} \X Voltages) \cup ({"MotorLoaded"} \X Factors)

TypeOK ==
    /\ channel \in Seq(Command) /\ Len(channel) <= ChannelCap
    /\ driver \in {"waiting", "up"}
    /\ standby \in BOOLEAN /\ motorsActive \in BOOLEAN
    /\ pins \in [Track -> Direction]
    /\ duty \in [Track -> 0..100]
    /\ motion \in [Track -> Speed]
    /\ calibration \in [Track -> Factor]
    /\ compensation \in 50..100
    /\ voltage \in Voltages \cup {NoVoltage}
    /\ battery \in Voltages \cup {NoVoltage}
    /\ flashAnswered \in BOOLEAN
    /\ events \in Seq(Event) /\ Len(events) <= EventCap

Init ==
    /\ channel = <<>> /\ driver = "waiting" /\ standby = FALSE
    /\ pins = Both("Coast") /\ duty = Both(0) /\ motion = Both(0)
    /\ calibration = Both(100) /\ compensation = 100 /\ motorsActive = FALSE
    /\ voltage = NoVoltage /\ battery = NoVoltage
    /\ flashAnswered = FALSE /\ events = <<>>

-----------------------------------------------------------------------------
(* Arithmetic.                                                             *)

Clamp(x, low, high) == IF x < low THEN low ELSE IF x > high THEN high ELSE x
\* MotorCalibration::new
ClampFactor(f) == Clamp(f, 50, 150)

\* Adding or subtracting a half before the cast rounds away from zero.
RoundPercent(n) == IF n >= 0 THEN (n + 50) \div 100 ELSE -((50 - n) \div 100)
\* Mutant: the cast to i8 wraps.
AsI8Wraps(x) == ((x + 128) % 256) - 128

\* A float cast to i8 saturates.
AsI8(x) == Clamp(x, -128, 127)
Scale(speed, percent) == Clamp(AsI8(RoundPercent(speed * percent)), -100, 100)

ApplyWithVoltageCompensation(factor, comp, speed) ==
    Scale(Scale(speed, factor), comp)

Magnitude(x) == IF x < 0 THEN -x ELSE x
SpeedToDirection(s) ==
    IF s > 0 THEN "Forward" ELSE IF s < 0 THEN "Backward" ELSE "Coast"

VoltageCompensation(v) == IF v < 60 THEN 100 ELSE 6000 \div v

-----------------------------------------------------------------------------
(* The driver task.                                                        *)

\* wait_for_battery_voltage returns; the outputs are enabled.
DriverStarts ==
    /\ driver = "waiting" /\ voltage # NoVoltage
    /\ driver' = "up"
    /\ compensation' = VoltageCompensation(voltage)
    /\ standby' = TRUE
    /\ UNCHANGED <<channel, pins, duty, motion, calibration, motorsActive, supplyVars>>
\* Mutant: a single track does not count as active.
NextActiveBoth(c) ==
    CASE c[1] = "SetTracks" -> c[2] # 0 /\ c[3] # 0
      [] c[1] \in {"BrakeAll", "CoastAll", "Disable"} -> FALSE
      [] OTHER -> motorsActive

NextActive(c) ==
    CASE c[1] = "SetTracks" -> c[2] # 0 \/ c[3] # 0
      [] c[1] \in {"BrakeAll", "CoastAll", "Disable"} -> FALSE
      [] OTHER -> motorsActive

\* Only when idle before and after, and when it differs by more than 0.01.
Recompensate(c) ==
    LET new == VoltageCompensation(voltage) IN
    IF /\ ~motorsActive /\ ~NextActive(c)
       /\ voltage # NoVoltage
       /\ Magnitude(new - compensation) > 1
    THEN new ELSE compensation

ProcessSetTracks(c) ==
    LET final == [t \in Track |->
            ApplyWithVoltageCompensation(calibration[t], compensation',
                                         Sides(c[2], c[3])[t])]
    IN  /\ pins' = [t \in Track |-> SpeedToDirection(final[t])]
        /\ duty' = [t \in Track |-> Magnitude(final[t])]
        /\ motion' = Sides(c[2], c[3])

Release(direction) ==
    pins' = Both(direction) /\ duty' = Both(0) /\ motion' = Both(0)

ProcessCommand(c) ==
    /\ CASE c[1] = "SetTracks" -> ProcessSetTracks(c)
         [] c[1] = "BrakeAll" -> Release("Brake")
         [] c[1] = "CoastAll" -> Release("Coast")
         [] OTHER -> UNCHANGED <<pins, duty, motion>>
    /\ standby' = CASE c[1] = "Enable" -> TRUE
                    [] c[1] = "Disable" -> FALSE
                    [] OTHER -> standby
    /\ calibration' = CASE c[1] = "LoadCalibration" -> Sides(c[2], c[3])
                        [] c[1] = "UpdateAllCalibration" ->
                               Sides(ClampFactor(c[2]), ClampFactor(c[3]))
                        [] OTHER -> calibration

TakeCommand ==
    /\ driver = "up" /\ channel # <<>>
    /\ channel' = Tail(channel)
    /\ compensation' = Recompensate(Head(channel))
    /\ motorsActive' = NextActive(Head(channel))
    /\ ProcessCommand(Head(channel))
    /\ UNCHANGED <<driver, supplyVars>>

\* send_motor_command waits for room.
Send(c) == Len(channel) < ChannelCap /\ channel' = Append(channel, c)

-----------------------------------------------------------------------------
(* The battery task, and the orchestrator where it meets the driver.       *)

Measure(v) ==
    /\ battery = NoVoltage
    /\ voltage' = v /\ battery' = v
    /\ UNCHANGED <<channel, driverVars, flashAnswered, events>>

RaiseMeasured ==
    /\ battery # NoVoltage /\ Len(events) < EventCap
    /\ events' = Append(events, <<"BatteryMeasured", battery>>)
    /\ battery' = NoVoltage
    /\ UNCHANGED <<channel, driverVars, voltage, flashAnswered>>

FlashAnswers(f) ==
    /\ ~flashAnswered /\ Len(events) < EventCap
    /\ flashAnswered' = TRUE
    /\ events' = Append(events, <<"MotorLoaded", f>>)
    /\ UNCHANGED <<channel, driverVars, voltage, battery>>

HandleBatteryMeasured ==
    /\ events # <<>> /\ Head(events)[1] = "BatteryMeasured"
    /\ voltage' = Head(events)[2]
    /\ events' = Tail(events)
    /\ UNCHANGED <<channel, driverVars, battery, flashAnswered>>

\* The handler waits for room in the channel with its event taken; the events
\* behind it wait for it, which is all that can be told from leaving it queued.
LoadMotorCalibration ==
    /\ events # <<>> /\ Head(events)[1] = "MotorLoaded"
    /\ LET f == ClampFactor(Head(events)[2]) IN Send(LoadCalibration(f, f))
    /\ events' = Tail(events)
    /\ UNCHANGED <<driverVars, voltage, battery, flashAnswered>>

SendAny == /\ \E c \in Command : Send(c)
           /\ UNCHANGED <<driverVars, supplyVars>>

SupplyRest ==
    \/ RaiseMeasured
    \/ \E f \in Factors : FlashAnswers(f)
    \/ HandleBatteryMeasured \/ LoadMotorCalibration

DriverStep == DriverStarts \/ TakeCommand

Next ==
    \/ DriverStep \/ SendAny
    \/ \E v \in Voltages : Measure(v)
    \/ SupplyRest

Spec == Init /\ [][Next]_motorVars

-----------------------------------------------------------------------------
(* What the driver promises.                                               *)

\* A track never turns against its command and stands when it is told to,
\* whatever factor flash held and whatever the battery said: the two roundings
\* and saturations of apply_with_voltage_compensation keep the sign
\* (motor_driver.rs:163-191), and the telemetry tells the direction driven.
TracksFollowCommand ==
    \A t \in Track :
        /\ motion[t] > 0 => pins[t] = "Forward" /\ duty[t] > 0
        /\ motion[t] < 0 => pins[t] = "Backward" /\ duty[t] > 0
        /\ motion[t] = 0 => pins[t] \in {"Coast", "Brake"} /\ duty[t] = 0

\* No output is driven before the first voltage is known.
SilentUntilPowered == driver = "waiting" => ~standby /\ duty = Both(0)

AtRest == ~standby \/ duty = Both(0)

\* motor_driver.rs:478-479: compensation changes only when nothing turns
\* before and after the command, because the voltage sags under load.
CompensationHolds ==
    [][compensation' # compensation => AtRest /\ AtRest']_motorVars

=============
