------------------------- MODULE TrackProceduresProofs -------------------------
(****************************************************************************)
(* First what the motor driver promises whoever its senders are: its types, *)
(* that a track follows its command through both scalings, and that nothing *)
(* turns before the first battery voltage is known.                         *)
(*                                                                          *)
(* Then the safety properties of TrackProcedures, for every set of          *)
(* procedures that are started, every channel size, voltage and factor the  *)
(* driver's assumptions allow.  The script says what was told last, the     *)
(* channel what of it is not yet done, and the driver does what it is told: *)
(* TracksTold and PowerTold carry one to the next.                          *)
(****************************************************************************)
EXTENDS TrackScripts

--------------------------------------------------------------------------------
(* Arithmetic.                                                             *)

LEMMA RoundingKeepsPositive ==
    ASSUME NEW n \in Int, n >= 50
    PROVE  (n + 50) \div 100 \in Int /\ (n + 50) \div 100 >= 1
  BY SMT

(* A speed in either direction keeps its direction through one scaling.    *)
LEMMA ScaleForward ==
    ASSUME NEW s \in 1 .. 100, NEW p \in 50 .. 150
    PROVE  Scale(s, p) \in 1 .. 100
<1>1. s * p \in Int /\ s * p >= 1 * p
  BY SMT
<1> DEFINE n == s * p
<1>2. n \in Int /\ n >= 50
  BY <1>1
<1> HIDE DEF n
<1>3. (n + 50) \div 100 \in Int /\ (n + 50) \div 100 >= 1
  BY <1>2, RoundingKeepsPositive
<1>4. RoundPercent(n) = (n + 50) \div 100
  BY <1>2 DEF RoundPercent
<1>5. Scale(s, p) = Clamp(AsI8((n + 50) \div 100), -100, 100)
  BY <1>4 DEF Scale, n
<1> DEFINE q == (n + 50) \div 100
<1>6. q \in Int /\ q >= 1
  BY <1>3
<1> HIDE DEF q
<1>7. Clamp(AsI8(q), -100, 100) \in 1 .. 100
  BY <1>6 DEF AsI8, Clamp
<1> QED
  BY <1>5, <1>7 DEF q

LEMMA ScaleBackward ==
    ASSUME NEW s \in -100 .. -1, NEW p \in 50 .. 150
    PROVE  Scale(s, p) \in -100 .. -1
<1>1. s * p \in Int /\ s * p <= (-1) * p
  BY SMT
<1> DEFINE n == s * p
<1>2. n \in Int /\ n <= -50
  BY <1>1
<1> HIDE DEF n
<1>3. (50 - n) \div 100 \in Int /\ (50 - n) \div 100 >= 1
  BY <1>2, SMT
<1>4. RoundPercent(n) = -((50 - n) \div 100)
  BY <1>2 DEF RoundPercent
<1>5. Scale(s, p) = Clamp(AsI8(-((50 - n) \div 100)), -100, 100)
  BY <1>4 DEF Scale, n
<1> DEFINE q == (50 - n) \div 100
<1>6. q \in Int /\ q >= 1
  BY <1>3
<1> HIDE DEF q
<1>7. Clamp(AsI8(-q), -100, 100) \in -100 .. -1
  BY <1>6 DEF AsI8, Clamp
<1> QED
  BY <1>5, <1>7 DEF q

LEMMA ScaleZero ==
    ASSUME NEW p \in 50 .. 150
    PROVE  Scale(0, p) = 0
  BY SMT DEF Scale, RoundPercent, AsI8, Clamp

LEMMA CompensationRange ==
    ASSUME NEW v \in Voltages
    PROVE  VoltageCompensation(v) \in 50 .. 100
<1>1. v \in 0 .. 120
  BY VoltageAssumption DEF MaxVoltage
<1>2. CASE v < 60
  BY <1>1, <1>2 DEF VoltageCompensation
<1>3. CASE v >= 60
  <2> DEFINE q == 6000 \div v
  <2>1. q \in Int /\ v * q <= 6000 /\ 6000 < v * (q + 1)
    BY <1>1, <1>3, SMT
  <2>2. q <= 100
    <3> SUFFICES ASSUME q >= 101 PROVE FALSE
      BY <2>1
    <3>1. v * q >= 60 * q
      BY <1>1, <1>3, <2>1, SMT
    <3> QED
      BY <1>1, <2>1, <3>1, SMT
  <2>3. q >= 50
    <3> SUFFICES ASSUME q <= 49 PROVE FALSE
      BY <2>1
    <3>1. v * (q + 1) <= v * 50
      BY <1>1, <1>3, <2>1, SMT
    <3> QED
      BY <1>1, <2>1, <3>1
  <2> QED
    BY <1>3, <2>1, <2>2, <2>3 DEF VoltageCompensation
<1> QED
  BY <1>1, <1>2, <1>3

--------------------------------------------------------------------------------
(* Types.                                                                  *)

LEMMA CommandTypes ==
    /\ \A c \in Command : c[1] = "SetTracks" => c[2] \in Speed /\ c[3] \in Speed
    /\ \A c \in Command : c[1] = "LoadCalibration" => c[2] \in Factor /\ c[3] \in Factor
    /\ \A c \in Command : c[1] = "UpdateAllCalibration" => c[2] \in Nat /\ c[3] \in Nat
    /\ \A f \in Factor : LoadCalibration(f, f) \in Command
  BY DEF Command, LoadCalibration

LEMMA ClampType ==
    ASSUME NEW f \in Nat
    PROVE  ClampFactor(f) \in Factor
  BY DEF ClampFactor, Clamp, Factor

LEMMA SidesType ==
    ASSUME NEW S, NEW l \in S, NEW r \in S
    PROVE  Sides(l, r) \in [Track -> S]
  BY DEF Sides

LEMMA BothType ==
    ASSUME NEW S, NEW x \in S
    PROVE  Both(x) \in [Track -> S]
  BY DEF Both

(* What reaches the pins for a commanded speed.                            *)
LEMMA OutputFollows ==
    ASSUME NEW f \in Factor, NEW comp \in 50 .. 100, NEW s \in Speed,
           NEW x, x = ApplyWithVoltageCompensation(f, comp, s)
    PROVE  /\ x \in -100 .. 100
           /\ SpeedToDirection(x) \in Direction
           /\ Magnitude(x) \in 0 .. 100
           /\ s > 0 => SpeedToDirection(x) = "Forward" /\ Magnitude(x) > 0
           /\ s < 0 => SpeedToDirection(x) = "Backward" /\ Magnitude(x) > 0
           /\ s = 0 => SpeedToDirection(x) = "Coast" /\ Magnitude(x) = 0
<1>1. f \in 50 .. 150 /\ comp \in 50 .. 150 /\ s \in -100 .. 100
  BY DEF Factor, Speed
<1>2. CASE s > 0
  <2> s \in 1 .. 100
    BY <1>1, <1>2
  <2>1. Scale(s, f) \in 1 .. 100
    BY <1>1, ScaleForward
  <2>2. x \in 1 .. 100
    BY <1>1, <2>1, ScaleForward DEF ApplyWithVoltageCompensation
  <2> QED
    BY <1>2, <2>2 DEF SpeedToDirection, Magnitude, Direction
<1>3. CASE s < 0
  <2> s \in -100 .. -1
    BY <1>1, <1>3
  <2>1. Scale(s, f) \in -100 .. -1
    BY <1>1, ScaleBackward
  <2>2. x \in -100 .. -1
    BY <1>1, <2>1, ScaleBackward DEF ApplyWithVoltageCompensation
  <2> QED
    BY <1>3, <2>2 DEF SpeedToDirection, Magnitude, Direction
<1>4. CASE s = 0
  <2>1. x = 0
    BY <1>1, <1>4, ScaleZero DEF ApplyWithVoltageCompensation
  <2> QED
    BY <1>4, <2>1 DEF SpeedToDirection, Magnitude, Direction
<1> QED
  BY <1>1, <1>2, <1>3, <1>4

--------------------------------------------------------------------------------
(* The invariant, in the parts that change together.                       *)

ChannelInv == channel \in Seq(Command) /\ Len(channel) <= ChannelCap
SupplyInv ==
    /\ voltage \in Voltages \cup {NoVoltage}
    /\ battery \in Voltages \cup {NoVoltage}
    /\ events \in Seq(Event) /\ Len(events) <= EventCap
ModeInv == driver \in {"waiting", "up"}
FlagInv == standby \in BOOLEAN /\ motorsActive \in BOOLEAN /\ flashAnswered \in BOOLEAN
FactorInv == calibration \in [Track -> Factor] /\ compensation \in 50..100
OutputInv ==
    /\ pins \in [Track -> Direction]
    /\ duty \in [Track -> 0..100]
    /\ motion \in [Track -> Speed]
    /\ TracksFollowCommand
IInv ==
    /\ ChannelInv /\ SupplyInv /\ ModeInv /\ FlagInv /\ FactorInv /\ OutputInv
    /\ SilentUntilPowered

LEMMA TypeParts ==
    ASSUME IInv
    PROVE  TypeOK
<1> USE DEF IInv
<1>1. channel \in Seq(Command) /\ Len(channel) <= ChannelCap
  BY DEF ChannelInv
<1>2. /\ voltage \in Voltages \cup {NoVoltage}
      /\ battery \in Voltages \cup {NoVoltage}
      /\ events \in Seq(Event) /\ Len(events) <= EventCap
  BY DEF SupplyInv
<1>3. driver \in {"waiting", "up"}
  BY DEF ModeInv
<1>4. standby \in BOOLEAN /\ motorsActive \in BOOLEAN /\ flashAnswered \in BOOLEAN
  BY DEF FlagInv
<1>5. calibration \in [Track -> Factor] /\ compensation \in 50..100
  BY DEF FactorInv
<1>6. /\ pins \in [Track -> Direction]
      /\ duty \in [Track -> 0..100]
      /\ motion \in [Track -> Speed]
  BY DEF OutputInv
<1> QED
  BY <1>1, <1>2, <1>3, <1>4, <1>5, <1>6, Zenon DEF TypeOK

LEMMA InitialParts ==
    ASSUME Init
    PROVE  IInv
<1>1. ChannelInv
  BY CapAssumption DEF Init, ChannelInv
<1>2. SupplyInv
  BY CapAssumption DEF Init, SupplyInv
<1>3. ModeInv /\ FlagInv
  BY DEF Init, ModeInv, FlagInv
<1>4. FactorInv
  BY DEF Init, FactorInv, Both, Factor
<1>5. OutputInv
  BY DEF Init, OutputInv, Both, Direction, Speed, TracksFollowCommand
<1>6. SilentUntilPowered
  BY DEF Init, SilentUntilPowered
<1> QED
  BY <1>1, <1>2, <1>3, <1>4, <1>5, <1>6 DEF IInv

(* Sending and taking.                                                     *)
LEMMA SendKeepsChannel ==
    ASSUME ChannelInv, NEW c \in Command, Send(c)
    PROVE  ChannelInv'
  BY CapAssumption DEF ChannelInv, Send

LEMMA TakeKeepsChannel ==
    ASSUME ChannelInv, channel # <<>>, channel' = Tail(channel)
    PROVE  ChannelInv' /\ Head(channel) \in Command
  BY CapAssumption DEF ChannelInv

LEMMA RecompensateType ==
    ASSUME FactorInv, SupplyInv, NEW c
    PROVE  Recompensate(c) \in 50 .. 100
<1>1. CASE voltage = NoVoltage
  BY <1>1 DEF Recompensate, FactorInv
<1>2. CASE voltage \in Voltages
  <2>1. VoltageCompensation(voltage) \in 50 .. 100
    BY <1>2, CompensationRange
  <2> QED
    BY <2>1 DEF Recompensate, FactorInv
<1> QED
  BY <1>1, <1>2 DEF SupplyInv

LEMMA SetTracksFollows ==
    ASSUME FactorInv, FactorInv', NEW c \in Command, c[1] = "SetTracks",
           ProcessSetTracks(c)
    PROVE  OutputInv'
<1> DEFINE s == Sides(c[2], c[3])
           x == [t \in Track |->
                   ApplyWithVoltageCompensation(calibration[t], compensation', s[t])]
<1>1. s \in [Track -> Speed]
  BY CommandTypes, SidesType
<1>2. \A t \in Track :
         /\ SpeedToDirection(x[t]) \in Direction
         /\ Magnitude(x[t]) \in 0 .. 100
         /\ s[t] > 0 => SpeedToDirection(x[t]) = "Forward" /\ Magnitude(x[t]) > 0
         /\ s[t] < 0 => SpeedToDirection(x[t]) = "Backward" /\ Magnitude(x[t]) > 0
         /\ s[t] = 0 => SpeedToDirection(x[t]) = "Coast" /\ Magnitude(x[t]) = 0
  <2> SUFFICES ASSUME NEW t \in Track
               PROVE  /\ SpeedToDirection(x[t]) \in Direction
                      /\ Magnitude(x[t]) \in 0 .. 100
                      /\ s[t] > 0 => SpeedToDirection(x[t]) = "Forward" /\ Magnitude(x[t]) > 0
                      /\ s[t] < 0 => SpeedToDirection(x[t]) = "Backward" /\ Magnitude(x[t]) > 0
                      /\ s[t] = 0 => SpeedToDirection(x[t]) = "Coast" /\ Magnitude(x[t]) = 0
    OBVIOUS
  <2>1. calibration[t] \in Factor /\ compensation' \in 50 .. 100 /\ s[t] \in Speed
    BY <1>1 DEF FactorInv
  <2>2. x[t] = ApplyWithVoltageCompensation(calibration[t], compensation', s[t])
    OBVIOUS
  <2> HIDE DEF s, x
  <2> QED
    BY <2>1, <2>2, OutputFollows
<1>3. /\ pins' = [t \in Track |-> SpeedToDirection(x[t])]
      /\ duty' = [t \in Track |-> Magnitude(x[t])]
      /\ motion' = s
  BY DEF ProcessSetTracks
<1> HIDE DEF s, x
<1> QED
  BY <1>1, <1>2, <1>3 DEF OutputInv, TracksFollowCommand

LEMMA ReleaseFollows ==
    ASSUME NEW d \in {"Brake", "Coast"}, Release(d)
    PROVE  OutputInv'
  BY DEF Release, OutputInv, TracksFollowCommand, Both, Direction, Speed

LEMMA TakeCommandKeeps ==
    ASSUME IInv, TakeCommand
    PROVE  IInv'
<1> DEFINE c == Head(channel)
<1>1. ChannelInv' /\ c \in Command
  BY TakeKeepsChannel DEF IInv, TakeCommand
<1>2. SupplyInv'
  BY DEF IInv, SupplyInv, TakeCommand, supplyVars
<1>3. ModeInv' /\ driver' = "up"
  BY DEF IInv, ModeInv, TakeCommand
<1>4. ProcessCommand(c) /\ compensation' = Recompensate(c) /\ motorsActive' = NextActive(c)
  BY DEF TakeCommand
<1>5. flashAnswered' = flashAnswered
  BY DEF TakeCommand, supplyVars
<1> HIDE DEF c
<1>6. FlagInv'
  <2>1. standby' \in BOOLEAN
    BY <1>4 DEF IInv, FlagInv, ProcessCommand
  <2>2. motorsActive' \in BOOLEAN
    BY <1>4, Zenon DEF IInv, FlagInv, NextActive
  <2> QED
    BY <1>5, <2>1, <2>2 DEF IInv, FlagInv
<1>7. FactorInv'
  <2>1. compensation' \in 50 .. 100
    BY <1>4, RecompensateType DEF IInv
  <2>2. calibration' \in [Track -> Factor]
    <3>1. CASE c[1] = "LoadCalibration"
      <4>1. calibration' = Sides(c[2], c[3])
        BY <1>4, <3>1 DEF ProcessCommand
      <4>2. c[2] \in Factor /\ c[3] \in Factor
        BY <1>1, <3>1, CommandTypes
      <4> QED
        BY <4>1, <4>2, SidesType
    <3>2. CASE c[1] = "UpdateAllCalibration"
      <4>1. calibration' = Sides(ClampFactor(c[2]), ClampFactor(c[3]))
        BY <1>4, <3>2 DEF ProcessCommand
      <4>2. ClampFactor(c[2]) \in Factor /\ ClampFactor(c[3]) \in Factor
        BY <1>1, <3>2, CommandTypes, ClampType
      <4> QED
        BY <4>1, <4>2, SidesType
    <3>3. CASE c[1] \notin {"LoadCalibration", "UpdateAllCalibration"}
      BY <1>4, <3>3 DEF ProcessCommand, IInv, FactorInv
    <3> QED
      BY <3>1, <3>2, <3>3
  <2> QED
    BY <2>1, <2>2 DEF FactorInv
<1>8. OutputInv'
  <2>1. CASE c[1] = "SetTracks"
    <3>1. ProcessSetTracks(c)
      BY <1>4, <2>1 DEF ProcessCommand
    <3> QED
      BY <1>1, <1>7, <2>1, <3>1, SetTracksFollows DEF IInv
  <2>2. CASE c[1] = "BrakeAll"
    BY <1>4, <2>2, ReleaseFollows DEF ProcessCommand
  <2>3. CASE c[1] = "CoastAll"
    BY <1>4, <2>3, ReleaseFollows DEF ProcessCommand
  <2>4. CASE c[1] \notin {"SetTracks", "BrakeAll", "CoastAll"}
    <3>1. UNCHANGED <<pins, duty, motion>>
      BY <1>4, <2>4 DEF ProcessCommand
    <3> QED
      BY <3>1 DEF IInv, OutputInv, TracksFollowCommand
  <2> QED
    BY <2>1, <2>2, <2>3, <2>4
<1>9. SilentUntilPowered'
  BY <1>3 DEF SilentUntilPowered
<1> QED
  BY <1>1, <1>2, <1>3, <1>6, <1>7, <1>8, <1>9 DEF IInv

LEMMA DriverStartsKeeps ==
    ASSUME IInv, DriverStarts
    PROVE  IInv'
<1> USE DEF IInv
<1>1. ChannelInv' /\ SupplyInv'
  BY DEF DriverStarts, ChannelInv, SupplyInv, supplyVars
<1>2. ModeInv' /\ SilentUntilPowered'
  BY DEF DriverStarts, ModeInv, SilentUntilPowered
<1>3. FlagInv'
  BY DEF DriverStarts, FlagInv, supplyVars
<1>4. FactorInv'
  <2>1. voltage \in Voltages
    BY DEF DriverStarts, SupplyInv
  <2>2. VoltageCompensation(voltage) \in 50 .. 100
    BY <2>1, CompensationRange
  <2> QED
    BY <2>2 DEF DriverStarts, FactorInv
<1>5. OutputInv'
  BY DEF DriverStarts, OutputInv, TracksFollowCommand
<1> QED
  BY <1>1, <1>2, <1>3, <1>4, <1>5

(* What leaves the driver alone leaves its part of the invariant alone.    *)
LEMMA DriverUntouched ==
    ASSUME IInv, UNCHANGED driverVars
    PROVE  ModeInv' /\ FactorInv' /\ OutputInv' /\ SilentUntilPowered'
           /\ standby' \in BOOLEAN /\ motorsActive' \in BOOLEAN
<1> USE DEF IInv, driverVars, outputVars
<1>1. ModeInv' /\ FactorInv'
  BY DEF ModeInv, FactorInv
<1>2. OutputInv'
  BY DEF OutputInv, TracksFollowCommand
<1>3. SilentUntilPowered'
  BY DEF SilentUntilPowered
<1>4. standby' \in BOOLEAN /\ motorsActive' \in BOOLEAN
  BY DEF FlagInv
<1> QED
  BY <1>1, <1>2, <1>3, <1>4

LEMMA SendAnyKeeps ==
    ASSUME IInv, SendAny
    PROVE  IInv'
<1>1. ChannelInv'
  BY SendKeepsChannel DEF IInv, SendAny
<1>2. SupplyInv' /\ flashAnswered' \in BOOLEAN
  BY DEF IInv, SupplyInv, FlagInv, SendAny, supplyVars
<1> QED
  BY <1>1, <1>2, DriverUntouched DEF IInv, FlagInv, SendAny

LEMMA EventTypes ==
    /\ \A e \in Event : e[1] = "BatteryMeasured" => e[2] \in Voltages
    /\ \A e \in Event : e[1] = "MotorLoaded" => e[2] \in Factors
    /\ \A v \in Voltages : <<"BatteryMeasured", v>> \in Event
    /\ \A f \in Factors : <<"MotorLoaded", f>> \in Event
  BY DEF Event

LEMMA SupplyKeeps ==
    ASSUME IInv, SupplyRest \/ \E v \in Voltages : Measure(v)
    PROVE  IInv'
<1> USE DEF IInv
<1>1. ASSUME NEW v \in Voltages, Measure(v) PROVE IInv'
  <2>1. SupplyInv' /\ flashAnswered' \in BOOLEAN
    BY <1>1 DEF Measure, SupplyInv, FlagInv
  <2>2. ChannelInv'
    BY <1>1 DEF Measure, ChannelInv
  <2> QED
    BY <1>1, <2>1, <2>2, DriverUntouched DEF Measure, FlagInv
<1>2. ASSUME RaiseMeasured PROVE IInv'
  <2>1. SupplyInv' /\ flashAnswered' \in BOOLEAN
    <3>1. battery \in Voltages
      BY <1>2 DEF RaiseMeasured, SupplyInv
    <3>2. <<"BatteryMeasured", battery>> \in Event
      BY <3>1, EventTypes
    <3> QED
      BY <1>2, <3>2, CapAssumption DEF RaiseMeasured, SupplyInv, FlagInv
  <2>2. ChannelInv'
    BY <1>2 DEF RaiseMeasured, ChannelInv
  <2> QED
    BY <1>2, <2>1, <2>2, DriverUntouched DEF RaiseMeasured, FlagInv
<1>3. ASSUME NEW f \in Factors, FlashAnswers(f) PROVE IInv'
  <2>1. SupplyInv' /\ flashAnswered' \in BOOLEAN
    <3>1. <<"MotorLoaded", f>> \in Event
      BY EventTypes
    <3> QED
      BY <1>3, <3>1, CapAssumption DEF FlashAnswers, SupplyInv
  <2>2. ChannelInv'
    BY <1>3 DEF FlashAnswers, ChannelInv
  <2> QED
    BY <1>3, <2>1, <2>2, DriverUntouched DEF FlashAnswers, FlagInv
<1>4. events # <<>> => Head(events) \in Event /\ Tail(events) \in Seq(Event)
                       /\ Len(Tail(events)) <= EventCap
  BY CapAssumption DEF SupplyInv
<1>5. ASSUME HandleBatteryMeasured PROVE IInv'
  <2>1. Head(events)[2] \in Voltages
    BY <1>4, <1>5, EventTypes DEF HandleBatteryMeasured
  <2>2. SupplyInv' /\ flashAnswered' \in BOOLEAN
    BY <1>4, <1>5, <2>1 DEF HandleBatteryMeasured, SupplyInv, FlagInv
  <2>3. ChannelInv'
    BY <1>5 DEF HandleBatteryMeasured, ChannelInv
  <2> QED
    BY <1>5, <2>2, <2>3, DriverUntouched DEF HandleBatteryMeasured, FlagInv
<1>6. ASSUME LoadMotorCalibration PROVE IInv'
  <2> DEFINE f == ClampFactor(Head(events)[2])
  <2>1. Head(events)[2] \in Nat
    BY <1>4, <1>6, EventTypes, FactorAssumption DEF LoadMotorCalibration
  <2>2. LoadCalibration(f, f) \in Command
    BY <2>1, ClampType, CommandTypes
  <2>3. Send(LoadCalibration(f, f))
    BY <1>6 DEF LoadMotorCalibration
  <2> HIDE DEF f
  <2>4. ChannelInv'
    BY <2>2, <2>3, SendKeepsChannel
  <2>5. SupplyInv' /\ flashAnswered' \in BOOLEAN
    BY <1>4, <1>6 DEF LoadMotorCalibration, SupplyInv, FlagInv
  <2> QED
    BY <1>6, <2>4, <2>5, DriverUntouched DEF LoadMotorCalibration, FlagInv
<1> QED
  BY <1>1, <1>2, <1>3, <1>5, <1>6 DEF SupplyRest

LEMMA StepKeeps ==
    ASSUME IInv, [Next]_motorVars
    PROVE  IInv'
<1>1. CASE UNCHANGED motorVars
  <2>1. UNCHANGED <<channel, driverVars>> /\ UNCHANGED supplyVars
    BY <1>1 DEF motorVars
  <2>2. ChannelInv' /\ SupplyInv' /\ flashAnswered' \in BOOLEAN
    BY <2>1 DEF IInv, ChannelInv, SupplyInv, FlagInv, supplyVars
  <2> QED
    BY <2>1, <2>2, DriverUntouched DEF IInv, FlagInv
<1> QED
  BY <1>1, DriverStartsKeeps, TakeCommandKeeps, SendAnyKeeps, SupplyKeeps
     DEF Next, DriverStep

--------------------------------------------------------------------------------
(* The theorems.                                                           *)

LEMMA InvariantHolds == Spec => []IInv
<1>1. Init => IInv
  BY InitialParts
<1>2. IInv /\ [Next]_motorVars => IInv'
  BY StepKeeps
<1> QED
  BY <1>1, <1>2, PTL DEF Spec

(* Every variable keeps its type: among others the factors stay within a   *)
(* half and one and a half, compensation within a half and one, and no     *)
(* duty leaves 0..100 (motor_driver.rs).                                   *)
THEOREM MotorTypeCorrect == Spec => []TypeOK
<1>1. IInv => TypeOK
  BY TypeParts
<1> QED
  BY <1>1, InvariantHolds, PTL

(* Whoever sends what, a track turns the way it was last told to and stands *)
(* when told to stand: for every factor flash may hold and every voltage,  *)
(* neither scaling rounds a command away or turns it round                 *)
(* (motor_driver.rs:163-191).                                              *)
THEOREM CommandsAreFollowed == Spec => []TracksFollowCommand
<1>1. IInv => TracksFollowCommand
  BY DEF IInv, OutputInv
<1> QED
  BY <1>1, InvariantHolds, PTL

(* No output is driven before the first battery voltage is known           *)
(* (motor_driver.rs, wait_for_battery_voltage).                            *)
THEOREM NoOutputUnpowered == Spec => []SilentUntilPowered
<1>1. IInv => SilentUntilPowered
  BY DEF IInv
<1> QED
  BY <1>1, InvariantHolds, PTL

--------------------------------------------------------------------------------
(* Where a procedure stands, and what its steps do.                         *)

Counted == Track \cup {"before", "nothing"}
Placed ==
    \/ running = "none" /\ at = Nowhere
    \/ /\ running # "none" /\ at \in Names \X Nat
       /\ at[2] \in 1..Len(Script[at[1]]) /\ running = Owner(at[1])
TrackTypes ==
    /\ stop \in BOOLEAN /\ sampling \in BOOLEAN /\ due \in BOOLEAN
    /\ outcome \in Outcomes \cup {"none"}
    /\ encoderChannel \in Seq({"Start", "Stop", "Reset"})
    /\ counter \in [Track -> SUBSET Counted]
    /\ latest \in [Track -> SUBSET Counted]
    /\ measured \in [Track -> SUBSET Counted]
    /\ factors \in [Track -> [pulses : Nat, factor : Nat]]
    /\ interrupt \in {"none", "Stop", "EmergencyBrake"}
Control == Placed /\ TrackTypes

LEMMA ControlInit == ProcedureInit => Control
<1>1. ProcedureInit => Placed
  BY DEF ProcedureInit, Placed
<1>2. ASSUME ProcedureInit PROVE TrackTypes
  <2>1. stop \in BOOLEAN /\ sampling \in BOOLEAN /\ due \in BOOLEAN
    BY <1>2 DEF ProcedureInit
  <2>2. /\ outcome \in Outcomes \cup {"none"}
        /\ interrupt \in {"none", "Stop", "EmergencyBrake"}
    BY <1>2 DEF ProcedureInit
  <2>3. encoderChannel \in Seq({"Start", "Stop", "Reset"})
    BY <1>2 DEF ProcedureInit
  <2>4. /\ counter \in [Track -> SUBSET Counted]
        /\ latest \in [Track -> SUBSET Counted]
        /\ measured \in [Track -> SUBSET Counted]
    BY <1>2 DEF ProcedureInit, Both, Nothing, Counted
  <2>5. factors \in [Track -> [pulses : Nat, factor : Nat]]
    BY <1>2 DEF ProcedureInit, NoFactors
  <2> QED BY <2>1, <2>2, <2>3, <2>4, <2>5 DEF TrackTypes
<1> QED BY <1>1, <1>2 DEF Control

\* What the statement a procedure stands at is like.
LEMMA HereIs ==
  ASSUME Placed, running # "none"
  PROVE  /\ at = <<at[1], at[2]>> /\ at[1] \in Names /\ at[2] \in Nat \ {0}
         /\ at[2] \in 1..Len(Script[at[1]]) /\ running = Owner(at[1])
         /\ Shape(at[1], Script[at[1]], at[2])
<1>1. /\ at \in Names \X Nat /\ at[2] \in 1..Len(Script[at[1]])
      /\ running = Owner(at[1])
  BY DEF Placed, Nowhere
<1>2. at[1] \in Names /\ at[2] \in Nat \ {0} /\ at = <<at[1], at[2]>>
  BY <1>1
<1>3. Shape(at[1], Script[at[1]], at[2])
  BY <1>1, <1>2, ScriptShape
<1> QED BY <1>1, <1>2, <1>3

LEMMA ScriptsStart ==
  ASSUME NEW n \in Names
  PROVE  Len(Script[n]) \in Nat \ {0}
<1>2. CASE n \in {"MotorStopped", "MotorFailed", "RunStopped", "MagStopped",
                 "MotorPhaseStopped", "VerifyFailed", "CoastStopped"}
  <2>1. \/ Len(Script[n]) = 1 \/ Len(Script[n]) = 3 \/ Len(Script[n]) = 4
        \/ Len(Script[n]) = 5
    BY <1>2, ScriptIs, EndingsAre
  <2> DEFINE s == Script[n]
  <2>2. \/ Len(s) = 1 \/ Len(s) = 3 \/ Len(s) = 4 \/ Len(s) = 5
    BY <2>1
  <2> HIDE DEF s
  <2>3. Len(s) \in Nat \ {0}
    BY <2>2
  <2> QED BY <2>3 DEF s
<1>3. CASE n = "MotorCalibration"
  <2>1. Len(MotorCalibration) = 35
    BY MotorCalibrationIs
  <2>2. Script[n] = MotorCalibration
    BY <1>3, ScriptIs
  <2>3. Len(Script[n]) = 35
    BY <2>1, <2>2
  <2> QED BY <2>3
<1>4. CASE n = "MagCalibration"
  <2>1. Len(MagCalibration) = 87
    BY MagCalibrationIs
  <2>2. Script[n] = MagCalibration
    BY <1>4, ScriptIs
  <2>3. Len(Script[n]) = 87
    BY <2>1, <2>2
  <2> QED BY <2>3
<1>5. CASE n = "RoundRight"
  <2>1. Len(CoastRound(TRUE)) = 18
    BY CoastRoundIs
  <2>2. Script[n] = CoastRound(TRUE)
    BY <1>5, ScriptIs
  <2>3. Len(Script[n]) = 18
    BY <2>1, <2>2
  <2> QED BY <2>3
<1>6. CASE n = "RoundLeft"
  <2>1. Len(CoastRound(FALSE)) = 18
    BY CoastRoundIs
  <2>2. Script[n] = CoastRound(FALSE)
    BY <1>6, ScriptIs
  <2>3. Len(Script[n]) = 18
    BY <2>1, <2>2
  <2> QED BY <2>3
<1>7. CASE n = "CoastAndAvoid"
  <2>1. Len(CoastAndAvoid) = 22
    BY CoastAndAvoidIs
  <2>2. Script[n] = CoastAndAvoid
    BY <1>7, ScriptIs
  <2>3. Len(Script[n]) = 22
    BY <2>1, <2>2
  <2> QED BY <2>3
<1> QED BY <1>2, <1>3, <1>4, <1>5, <1>6, <1>7 DEF Names

LEMMA NamesAre ==
  ASSUME NEW n \in Names
  PROVE  Owner(n) # "none" /\ n # "none"
BY DEF Owner, Names

LEMMA ProceedPlaced ==
  ASSUME Placed, running # "none", Proceed, Here.do \notin {"End", "Repeat"}
  PROVE  Placed'
<1>1. at[2] < Len(Script[at[1]])
  BY HereIs DEF Shape, Here
<1>2. at' = <<at[1], at[2] + 1>> /\ running' = running
  BY DEF Proceed
<1>3. /\ at[1] \in Names /\ at[2] + 1 \in Nat /\ at[2] + 1 \in 1..Len(Script[at[1]])
      /\ running = Owner(at[1])
  BY <1>1, HereIs, ScriptsStart, NamesAre
<1> QED BY <1>2, <1>3 DEF Placed

LEMMA DivertPlaced ==
  ASSUME Placed, running # "none", Divert, Here.do \in Diverting
  PROVE  Placed' /\ Here.orElse \in Names /\ Owner(Here.orElse) = Owner(at[1])
<1>1. Here.orElse \in Names /\ Owner(Here.orElse) = Owner(at[1])
  BY HereIs DEF Shape, Here
<1>2. at' = <<Here.orElse, 1>> /\ running' = running
  BY DEF Divert
<1>3. 1 \in 1..Len(Script[Here.orElse])
  BY <1>1, ScriptsStart
<1>4. running = Owner(Here.orElse)
  BY <1>1, HereIs
<1>5. at' \in Names \X Nat /\ at'[1] = Here.orElse /\ at'[2] = 1
  BY <1>1, <1>2
<1> QED BY <1>1, <1>2, <1>3, <1>4, <1>5 DEF Placed

LEMMA EndPlaced ==
  ASSUME Control, EndProcedure
  PROVE  /\ Placed' /\ running # "none" /\ running' = "none" /\ at' = Nowhere
         /\ outcome' = Here.what /\ outcome' \in Outcomes
<1>1. Placed /\ running # "none" /\ Here.do = "End"
  BY DEF Control, EndProcedure, At
<1>2. Here.what \in Outcomes
  BY <1>1, HereIs DEF Shape, Here
<1>3. running' = "none" /\ at' = Nowhere /\ outcome' = Here.what
  BY DEF EndProcedure, What
<1> QED BY <1>1, <1>2, <1>3 DEF Placed

LEMMA StartPlaced ==
  ASSUME NEW p \in Started, Start(p)
  PROVE  Placed' /\ p \in Names /\ running' = p /\ at' = <<p, 1>>
<1>1. p \in {"MotorCalibration", "MagCalibration", "CoastAndAvoid"}
  BY StartedAssumption
<1>2. p \in Names /\ Owner(p) = p
  BY <1>1 DEF Names, Owner
<1>3. 1 \in 1..Len(Script[p])
  BY <1>2, ScriptsStart
<1>4. running' = p /\ at' = <<p, 1>>
  BY DEF Start
<1>5. at' \in Names \X Nat /\ at'[1] = p /\ at'[2] = 1
  BY <1>2, <1>4
<1> QED BY <1>2, <1>3, <1>4, <1>5, NamesAre DEF Placed

(* Every step starts or ends a procedure, performs the statement it stands  *)
(* at, or belongs to another task.                                          *)
Starts == \E p \in Started : Start(p)
Sends ==
    /\ running # "none" /\ Here.do = "Motor"
    /\ Send(Here.what) /\ Proceed
    /\ UNCHANGED <<driverVars, supplyVars>>
Passes ==
    /\ running # "none" /\ Here.do \notin {"Motor", "End", "Repeat"} /\ Proceed
    /\ UNCHANGED <<driverVars, supplyVars>>
    /\ Here.do # "SendFactors" => channel' = channel
    /\ Here.do = "SendFactors" =>
          \E c \in {"UpdateAllCalibration"} \X Nat \X Nat : Send(c)
    /\ Here.do \in {"Wait", "WaitOr"} => Elapsed(Here.what)
    /\ Here.do = "Watch" => Elapsed("long")
    /\ Here.do \in {"WaitOr", "Check"} => ~stop
Diverts ==
    /\ running # "none" /\ Here.do \in Diverting /\ Divert
    /\ UNCHANGED motorVars
    /\ Here.do = "Watch" => Elapsed("long")
Meanwhile ==
    /\ UNCHANGED <<running, at, outcome>>
    /\ Blocked \/ AtAwait \/ running = "none"
    /\ AtAwait \/ UNCHANGED stop
    /\ \/ UNCHANGED motorVars
       \/ /\ running \notin Calibrations /\ UNCHANGED <<driverVars, supplyVars>>
          /\ \E c \in {BrakeAll, CoastAll} : Send(c)
       \/ DriverStep
       \/ SupplyRest
       \/ \E v \in Voltages : Measure(v)

LEMMA ProcedureSteps ==
  ASSUME Control, ProcedureStep
  PROVE  Sends \/ Passes \/ Diverts \/ EndProcedure
<1>1. CASE SendMotor
  BY <1>1 DEF SendMotor, At, What, Sends
<1>2. CASE SendFactors
  <2>1. /\ running # "none" /\ Here.do = "SendFactors" /\ Proceed
        /\ UNCHANGED <<driverVars, supplyVars>>
    BY <1>2 DEF SendFactors, At
  <2> DEFINE c == UpdateAllCalibration(factors["Left"].factor, factors["Right"].factor)
  <2>2. c \in {"UpdateAllCalibration"} \X Nat \X Nat
    BY DEF UpdateAllCalibration, Control, TrackTypes, Track
  <2>3. Send(c)
    BY <1>2 DEF SendFactors
  <2> QED BY <2>1, <2>2, <2>3 DEF Passes
<1>3. CASE SendEncoder \/ ClearMeasurement \/ ReadPulses \/ MeasureEnds
  BY <1>3 DEF SendEncoder, ClearMeasurement, ReadPulses, MeasureEnds, At, Passes, motorVars
<1>4. CASE WaitEnds \/ WaitOrEnds \/ CheckStop \/ ObstacleSeen
  BY <1>4 DEF WaitEnds, WaitOrEnds, CheckStop, ObstacleSeen, At, Passes, Diverts,
     Undisturbed, motorVars, What, Diverting
<1>5. CASE RepeatRound \/ Compute \/ RotationEnds \/ VerifyEnds
  BY <1>5 DEF RepeatRound, Compute, RotationEnds, VerifyEnds, At, Passes, Diverts,
     Undisturbed, motorVars, Diverting
<1> QED BY <1>1, <1>2, <1>3, <1>4, <1>5 DEF ProcedureStep

LEMMA OthersSteps ==
  ASSUME Stop \/ (Awaiting /\ OtherTasks)
  PROVE  Meanwhile
<1>1. CASE Stop
  BY <1>1 DEF Stop, Meanwhile
<1>2. CASE Awaiting /\ OtherTasks
  <2>1. Blocked \/ AtAwait \/ running = "none"
    BY <1>2 DEF Awaiting
  <2>2. CASE SamplerStep \/ TracksTurn \/ SensorFalls \/ ObstacleRaised
    BY <2>1, <2>2 DEF Meanwhile, SamplerStep, HandleEncoderCommand, SleepInterval,
       Sample, TracksTurn, SensorFalls, ObstacleRaised, SamplerOnly, procedureVars
  <2>3. CASE HandleInterrupt
    BY <2>1, <2>3 DEF Meanwhile, HandleInterrupt, procedureVars
  <2>4. CASE (DriverStep /\ Alone) \/ (SupplyRest /\ Alone) \/ BatteryTimerEnds
    BY <2>1, <2>4 DEF Meanwhile, Alone, BatteryTimerEnds, procedureVars
  <2> QED BY <1>2, <2>2, <2>3, <2>4 DEF OtherTasks
<1> QED BY <1>1, <1>2

LEMMA TrackSteps ==
  ASSUME Control, TrackNext
  PROVE  Starts \/ Sends \/ Passes \/ Diverts \/ EndProcedure \/ Meanwhile
BY ProcedureSteps, OthersSteps DEF TrackNext, Starts

LEMMA NumbersComputed ==
  ASSUME NEW l \in Nat, NEW r \in Nat
  PROVE  Computed(Sides(l, r)) \in [Track -> [pulses : Nat, factor : Nat]]
<1>1. ASSUME NEW x \in Nat, NEW y \in Nat
      PROVE  TrackFactor(x, y) \in Nat
  <2>1. CASE y = 0
    BY <2>1 DEF TrackFactor
  <2>2. CASE y > 0
    <3>1. (100 * x) \div y \in Int
      BY <2>2
    <3> DEFINE d == (100 * x) \div y
    <3> HIDE DEF d
    <3>2. Clamp(d, 0, 100) \in Nat
      BY <3>1 DEF Clamp, d
    <3> QED BY <2>2, <3>2 DEF TrackFactor, d
  <2> QED BY <2>1, <2>2
<1> DEFINE s == Sides(l, r)
<1>2. \A t \in Track : s[t] \in Nat
  BY DEF Sides
<1>3. s["Left"] \in Nat /\ s["Right"] \in Nat
  BY <1>2 DEF Track
<1> HIDE DEF s
<1>4. \A x \in Nat : \A t \in Track : TrackFactor(x, s[t]) \in Nat
  BY <1>1, <1>2
<1> QED BY <1>2, <1>3, <1>4 DEF Computed, s

LEMMA TypesProcedureKeeps ==
  ASSUME Control, ProcedureStep
  PROVE  TrackTypes'
<1> USE DEF Control
<1>1. CASE SendMotor \/ SendFactors
  BY <1>1 DEF SendMotor, SendFactors, sensorVars, resultVars, Proceed, TrackTypes
<1>2. CASE SendEncoder
  <2>1. running # "none" /\ Here.do = "Encoder"
    BY <1>2 DEF SendEncoder, At
  <2>2. Here.what \in {"Start", "Stop", "Reset"}
    BY <2>1, HereIs DEF Shape, Here
  <2>3. encoderChannel' \in Seq({"Start", "Stop", "Reset"})
    BY <1>2, <2>2 DEF SendEncoder, TrackTypes, What
  <2> QED BY <1>2, <2>3 DEF SendEncoder, resultVars, Proceed, TrackTypes
<1>3. CASE ClearMeasurement
  <2>1. latest' \in [Track -> SUBSET Counted]
    BY <1>3 DEF ClearMeasurement, Nothing, Counted
  <2> QED BY <1>3, <2>1 DEF ClearMeasurement, resultVars, Proceed, TrackTypes
<1>4. CASE WaitEnds \/ WaitOrEnds \/ CheckStop \/ ObstacleSeen \/ RepeatRound
           \/ RotationEnds \/ VerifyEnds
  <2>1. UNCHANGED <<sensorVars, resultVars, interrupt>> /\ (Proceed \/ Divert)
    BY <1>4 DEF WaitEnds, WaitOrEnds, CheckStop, ObstacleSeen, RepeatRound, RotationEnds,
       VerifyEnds, Undisturbed
  <2> QED BY <2>1 DEF sensorVars, resultVars, Proceed, Divert, TrackTypes
<1>5. CASE EndProcedure
  <2>1. outcome' \in Outcomes
    BY <1>5, EndPlaced
  <2> QED BY <1>5, <2>1 DEF EndProcedure, Undisturbed, sensorVars, resultVars, TrackTypes
<1>6. CASE ReadPulses
  <2> DEFINE new == IF latest = Nothing THEN {} ELSE latest[What]
  <2>1. measured' = [measured EXCEPT ![What] = new]
    BY <1>6 DEF ReadPulses
  <2>2. What \in Track => new \in SUBSET Counted
    BY DEF TrackTypes
  <2> HIDE DEF new
  <2>3. measured' \in [Track -> SUBSET Counted]
    BY <2>1, <2>2 DEF TrackTypes
  <2> QED BY <1>6, <2>3 DEF ReadPulses, sensorVars, Proceed, TrackTypes
<1>7. CASE Compute
  <2>1. factors' \in [Track -> [pulses : Nat, factor : Nat]]
    <3>1. PICK l \in PulsesOf("Left"), r \in PulsesOf("Right") :
            IF l = 0 /\ r = 0 THEN Divert /\ UNCHANGED factors
            ELSE factors' = Computed(Sides(l, r)) /\ Proceed
      BY <1>7 DEF Compute
    <3>2. \A t \in Track : PulsesOf(t) \subseteq Nat
      BY PulseAssumption DEF PulsesOf
    <3>3. l \in Nat /\ r \in Nat
      BY <3>2 DEF Track
    <3> QED BY <3>1, <3>3, NumbersComputed DEF TrackTypes
  <2>2. Proceed \/ Divert
    BY <1>7 DEF Compute
  <2> QED BY <1>7, <2>1, <2>2 DEF Compute, sensorVars, Proceed, Divert, TrackTypes
<1>8. CASE MeasureEnds
  BY <1>8 DEF MeasureEnds, sensorVars, Proceed, TrackTypes
<1> QED BY <1>1, <1>2, <1>3, <1>4, <1>5, <1>6, <1>7, <1>8 DEF ProcedureStep

LEMMA TypesOthersKeep ==
  ASSUME Control, OtherTasks
  PROVE  TrackTypes'
<1> USE DEF Control
<1>1. CASE HandleEncoderCommand
  <2>1. encoderChannel' \in Seq({"Start", "Stop", "Reset"})
    BY <1>1 DEF HandleEncoderCommand, TrackTypes
  <2>2. sampling' \in BOOLEAN
    BY <1>1 DEF HandleEncoderCommand, TrackTypes
  <2>3. counter' \in [Track -> SUBSET Counted]
    BY <1>1 DEF HandleEncoderCommand, TrackTypes, Both
  <2> QED BY <1>1, <2>1, <2>2, <2>3 DEF HandleEncoderCommand, SamplerOnly, procedureVars,
        resultVars, TrackTypes
<1>2. CASE SleepInterval \/ Sample
  BY <1>2 DEF SleepInterval, Sample, SamplerOnly, procedureVars, resultVars, TrackTypes
<1>3. CASE TracksTurn
  <2>1. PICK t \in Track, run \in Track : counter' = [counter EXCEPT ![t] = @ \cup {run}]
    BY <1>3 DEF TracksTurn
  <2>2. counter' \in [Track -> SUBSET Counted]
    BY <2>1 DEF TrackTypes, Counted
  <2> QED BY <1>3, <2>2 DEF TracksTurn, SamplerOnly, procedureVars, resultVars, TrackTypes
<1>4. CASE SensorFalls \/ ObstacleRaised \/ HandleInterrupt
  BY <1>4 DEF SensorFalls, ObstacleRaised, HandleInterrupt, procedureVars, sensorVars,
     resultVars, TrackTypes
<1>5. CASE Alone
  BY <1>5 DEF Alone, procedureVars, sensorVars, resultVars, TrackTypes
<1> QED BY <1>1, <1>2, <1>3, <1>4, <1>5 DEF OtherTasks, SamplerStep, BatteryTimerEnds

LEMMA TypesStartKeeps ==
  ASSUME Control, NEW p \in Started, Start(p)
  PROVE  TrackTypes'
<1>1. \A x \in SUBSET Counted : Both(x) \in [Track -> SUBSET Counted]
  BY DEF Both
<1>2. {} \in SUBSET Counted /\ {"before"} \in SUBSET Counted
  BY DEF Counted
<1>3. Nothing \in [Track -> SUBSET Counted]
  BY DEF Nothing, Counted
<1>4. /\ counter' \in [Track -> SUBSET Counted] /\ measured' \in [Track -> SUBSET Counted]
      /\ latest' \in [Track -> SUBSET Counted]
  BY <1>1, <1>2, <1>3 DEF Start
<1>5. factors' \in [Track -> [pulses : Nat, factor : Nat]]
  BY DEF Start, NoFactors
<1>6. stop' \in BOOLEAN /\ outcome' \in Outcomes \cup {"none"}
  BY DEF Start
<1>7. UNCHANGED <<encoderChannel, sampling, due, silent, interrupt>>
  BY DEF Start
<1> QED BY <1>4, <1>5, <1>6, <1>7 DEF Control, TrackTypes

LEMMA ControlKept ==
  ASSUME Control, TrackNext
  PROVE  Control'
<1>1. TrackTypes'
  <2>1. CASE Stop
    BY <2>1 DEF Stop, sensorVars, resultVars, Control, TrackTypes
  <2> QED BY <2>1, TypesProcedureKeeps, TypesOthersKeep, TypesStartKeeps DEF TrackNext
<1>2. Placed'
  <2>1. CASE Starts
    BY <2>1, StartPlaced DEF Starts
  <2>2. CASE Sends \/ Passes
    BY <2>2, ProceedPlaced DEF Sends, Passes, Control
  <2>3. CASE Diverts
    BY <2>3, DivertPlaced DEF Diverts, Control
  <2>4. CASE EndProcedure
    BY <2>4, EndPlaced
  <2>5. CASE Meanwhile
    BY <2>5 DEF Meanwhile, Control, Placed
  <2> QED BY <2>1, <2>2, <2>3, <2>4, <2>5, TrackSteps
<1> QED BY <1>1, <1>2 DEF Control

LEMMA ControlStutters ==
  ASSUME Control, UNCHANGED vars
  PROVE  Control'
BY DEF vars, procedureVars, sensorVars, resultVars, Control, Placed, TrackTypes

LEMMA ControlHolds == TrackSpec => []Control
<1>1. Control /\ [TrackNext]_vars => Control'
  BY ControlKept, ControlStutters
<1> QED BY ControlInit, <1>1, PTL DEF TrackSpec

--------------------------------------------------------------------------------
(* The procedures, the orchestrator and the drive task are senders of the   *)
(* motor driver's: what it promises to any of them it promises to these.    *)

LEMMA SentIsSent ==
  ASSUME NEW c \in Command, Send(c), UNCHANGED <<driverVars, supplyVars>>
  PROVE  Next
BY DEF Next, SendAny

LEMMA DriverMoves ==
  ASSUME Control, TrackNext
  PROVE  [Next]_motorVars
<1>1. CASE Starts
  BY <1>1 DEF Starts, Start
<1>2. CASE Sends
  <2>1. Here.what \in Command
    BY <1>2, HereIs DEF Sends, Shape, Here, Control
  <2> QED BY <1>2, <2>1, SentIsSent DEF Sends
<1>3. CASE Passes
  <2>1. CASE Here.do = "SendFactors"
    <3>1. PICK c \in {"UpdateAllCalibration"} \X Nat \X Nat : Send(c)
      BY <1>3, <2>1 DEF Passes
    <3>2. c \in Command
      BY DEF Command
    <3> QED BY <1>3, <3>1, <3>2, SentIsSent DEF Passes
  <2>2. CASE Here.do # "SendFactors"
    BY <1>3, <2>2 DEF Passes, motorVars
  <2> QED BY <2>1, <2>2
<1>4. CASE Diverts
  BY <1>4 DEF Diverts
<1>5. CASE EndProcedure
  BY <1>5 DEF EndProcedure, Undisturbed
<1>6. CASE Meanwhile
  <2>1. CASE \E c \in {BrakeAll, CoastAll} : Send(c) /\ UNCHANGED <<driverVars, supplyVars>>
    BY <2>1, CommandsExist, SentIsSent
  <2>2. CASE UNCHANGED motorVars \/ DriverStep \/ SupplyRest \/ \E v \in Voltages : Measure(v)
    BY <2>2 DEF Next
  <2> QED BY <1>6, <2>1, <2>2 DEF Meanwhile
<1> QED BY <1>1, <1>2, <1>3, <1>4, <1>5, <1>6, TrackSteps

(* TrackProcedures implements MotorDriver: a step of a procedure, of the    *)
(* drive task's interrupt or of the sampler is a send, or nothing at all,   *)
(* to the driver, so that what holds whoever sends what holds for them      *)
(* (motor_driver.rs:67-76).                                                 *)
THEOREM ProceduresAreSenders == TrackSpec => Spec
<1>1. ProcedureInit => Init
  BY DEF ProcedureInit
<1>2. Control /\ [TrackNext]_vars => [Next]_motorVars
  <2>1. UNCHANGED vars => UNCHANGED motorVars
    BY DEF vars
  <2> QED BY <2>1, DriverMoves
<1> QED BY <1>1, <1>2, ControlHolds, PTL DEF TrackSpec, Spec

(* What the procedures command the tracks do, for every voltage and factor  *)
(* (motor_driver.rs:163-191).                                               *)
THEOREM ProceduresAreFollowed == TrackSpec => []TracksFollowCommand
BY ProceduresAreSenders, CommandsAreFollowed, PTL

LEMMA DriverInvariant == TrackSpec => []IInv
BY ProceduresAreSenders, InvariantHolds, PTL

--------------------------------------------------------------------------------
(* After the operator's stop nothing is set turning.                        *)

\* Where a procedure sets a track turning it has just looked for the stop.
HeedsStop == running # "none" /\ StartsTrack(Here) => ~stop

LEMMA AwaitingIsNoMotor ==
  ASSUME AtAwait
  PROVE  running # "none" /\ Here.do # "Motor"
BY DEF AtAwait, At

LEMMA ProceedGoesOn ==
  ASSUME Control, running # "none", Proceed, Here.do \notin {"End", "Repeat"}
  PROVE  /\ running' # "none" /\ at'[1] = at[1] /\ at'[2] = at[2] + 1
         /\ Script[at'[1]][at'[2] - 1] = Here
         /\ Here' = Script[at[1]][at[2] + 1]
         /\ Shape(at[1], Script[at[1]], at[2] + 1)
<1>1. Placed'
  BY ProceedPlaced DEF Control
<1>2. at' = <<at[1], at[2] + 1>> /\ running' = running
  BY DEF Proceed
<1>3. /\ at'[1] = at[1] /\ at'[2] = at[2] + 1 /\ at'[2] - 1 = at[2]
  BY <1>2, HereIs DEF Control
<1>4. /\ at'[1] \in Names /\ at'[2] \in 1..Len(Script[at'[1]])
  BY <1>1, <1>2 DEF Placed
<1>5. Shape(at'[1], Script[at'[1]], at'[2])
  BY <1>4, ScriptShape
<1> QED BY <1>2, <1>3, <1>5 DEF Here

LEMMA HeedsStopKept ==
  ASSUME Control, HeedsStop, TrackNext
  PROVE  HeedsStop'
<1>1. CASE Starts
  BY <1>1 DEF Starts, Start, HeedsStop
<1>2. ASSUME running # "none", Proceed, Here.do \notin {"End", "Repeat"},
             Here.do = "Check" => ~stop
      PROVE  HeedsStop'
  <2>1. CASE Here.do = "Check"
    BY <1>2, <2>1 DEF HeedsStop, Proceed
  <2>2. CASE Here.do # "Check"
    <3>1. StartsTrack(Here') => Here.do = "Check"
      <4> DEFINE s == Script[at[1]]
                 i == at[2] + 1
      <4>1. Shape(at[1], s, i) /\ Here' = s[i]
        BY <1>2, ProceedGoesOn
      <4>2. s[i - 1] = Here
        <5>1. i - 1 = at[2]
          BY <1>2, HereIs DEF Control
        <5> HIDE DEF i
        <5> QED BY <5>1 DEF Here
      <4> HIDE DEF s, i
      <4> QED BY <4>1, <4>2 DEF Shape
    <3> QED BY <2>2, <3>1 DEF HeedsStop
  <2> QED BY <2>1, <2>2
<1>3. CASE Sends
  BY <1>2, <1>3 DEF Sends
<1>4. CASE Passes
  BY <1>2, <1>4 DEF Passes
<1>5. CASE Diverts
  <2>1. Placed' /\ Here.orElse \in Names /\ at' = <<Here.orElse, 1>>
    BY <1>5, DivertPlaced DEF Diverts, Divert, Control
  <2>2. 1 \in 1..Len(Script[Here.orElse])
    BY <2>1, ScriptsStart
  <2>3. Shape(Here.orElse, Script[Here.orElse], 1)
    BY <2>1, <2>2, ScriptShape
  <2>4. Here' = Script[Here.orElse][1]
    BY <2>1 DEF Here
  <2> QED BY <2>3, <2>4 DEF Shape, HeedsStop
<1>6. CASE EndProcedure
  BY <1>6 DEF EndProcedure, HeedsStop
<1>7. CASE Meanwhile
  <2>1. CASE AtAwait
    <3>1. Here.do # "Motor"
      BY <2>1, AwaitingIsNoMotor
    <3> QED BY <1>7, <3>1 DEF Meanwhile, HeedsStop, Here, StartsTrack
  <2>2. CASE UNCHANGED stop
    BY <1>7, <2>2 DEF Meanwhile, HeedsStop, Here, StartsTrack
  <2> QED BY <1>7, <2>1, <2>2 DEF Meanwhile
<1> QED BY <1>1, <1>3, <1>4, <1>5, <1>6, <1>7, TrackSteps

LEMMA HeedsStopHolds == TrackSpec => []HeedsStop
<1>1. ProcedureInit => HeedsStop
  BY DEF ProcedureInit, HeedsStop
<1>2. Control /\ HeedsStop /\ [TrackNext]_vars => HeedsStop'
  <2>1. HeedsStop /\ UNCHANGED vars => HeedsStop'
    BY DEF vars, procedureVars, HeedsStop, Here, StartsTrack
  <2> QED BY <2>1, HeedsStopKept
<1> QED BY <1>1, <1>2, ControlHolds, PTL DEF TrackSpec

LEMMA SentIsLast ==
  ASSUME NEW q \in Seq(Command), NEW c \in Command
  PROVE  LET a == Append(q, c) IN a[Len(a)] = c
OBVIOUS

LEMMA TurnsOnCommand ==
  ASSUME Control, ChannelInv, TrackNext, StartsRun
  PROVE  running # "none" /\ StartsTrack(Here)
<1>1. ASSUME NEW c \in Command, Send(c)
      PROVE  c[1] = "SetTracks"
  BY <1>1, SentIsLast DEF Send, StartsRun, ChannelInv
<1>2. channel' # channel
  BY DEF StartsRun
<1>3. CASE Starts
  BY <1>2, <1>3 DEF Starts, Start, motorVars
<1>4. CASE Sends
  <2>1. Here.what \in Command
    BY <1>4, HereIs DEF Sends, Shape, Here, Control
  <2> QED BY <1>1, <1>4, <2>1 DEF Sends, StartsTrack
<1>5. CASE Passes
  <2>1. CASE Here.do = "SendFactors"
    <3>1. PICK c \in {"UpdateAllCalibration"} \X Nat \X Nat : Send(c)
      BY <1>5, <2>1 DEF Passes
    <3>2. c \in Command /\ c[1] # "SetTracks"
      BY DEF Command
    <3> QED BY <1>1, <3>1, <3>2
  <2>2. CASE Here.do # "SendFactors"
    BY <1>2, <1>5, <2>2 DEF Passes
  <2> QED BY <2>1, <2>2
<1>6. CASE Diverts
  BY <1>2, <1>6 DEF Diverts, motorVars
<1>7. CASE EndProcedure
  BY <1>2, <1>7 DEF EndProcedure, Undisturbed, motorVars
<1>8. CASE Meanwhile
  <2>1. CASE \E c \in {BrakeAll, CoastAll} : Send(c)
    <3>1. \A c \in {BrakeAll, CoastAll} : c \in Command /\ c[1] # "SetTracks"
      BY CommandsExist DEF BrakeAll, CoastAll
    <3> QED BY <1>1, <2>1, <3>1
  <2>2. CASE DriverStep
    <3>1. CASE DriverStarts
      BY <1>2, <3>1 DEF DriverStarts
    <3>2. CASE TakeCommand
      <4>1. channel # <<>> /\ channel' = Tail(channel)
        BY <3>2 DEF TakeCommand
      <4>2. Len(channel') < Len(channel)
        BY <4>1 DEF ChannelInv
      <4>3. Len(channel) \in Nat /\ Len(channel') \in Nat
        BY <4>1 DEF ChannelInv
      <4> QED BY <4>2, <4>3 DEF StartsRun
    <3> QED BY <2>2, <3>1, <3>2 DEF DriverStep
  <2>3. CASE SupplyRest
    <3>1. CASE LoadMotorCalibration
      <4> DEFINE f == ClampFactor(Head(events)[2])
      <4>1. Send(LoadCalibration(f, f))
        BY <3>1 DEF LoadMotorCalibration
      <4>2. channel' = Append(channel, LoadCalibration(f, f))
        BY <4>1 DEF Send
      <4>3. channel'[Len(channel')] = LoadCalibration(f, f)
        BY <4>2 DEF ChannelInv
      <4> QED BY <4>3 DEF StartsRun, LoadCalibration
    <3>2. CASE UNCHANGED channel
      BY <1>2, <3>2
    <3> QED BY <2>3, <3>1, <3>2 DEF SupplyRest, RaiseMeasured, FlashAnswers,
          HandleBatteryMeasured
  <2>4. CASE UNCHANGED motorVars \/ \E v \in Voltages : Measure(v)
    BY <1>2, <2>4 DEF motorVars, Measure
  <2> QED BY <1>8, <2>1, <2>2, <2>3, <2>4 DEF Meanwhile
<1> QED BY <1>3, <1>4, <1>5, <1>6, <1>7, <1>8, TrackSteps

(* Once the operator has said Stop no procedure sets a track turning: every *)
(* statement that does stands behind a look at the latch, and between the   *)
(* two nothing awaits (motor.rs:25-26, imu.rs:10-11).                       *)
THEOREM StopIsHeeded == TrackSpec => StopEndsRuns
<1>1. Control /\ IInv /\ HeedsStop /\ [TrackNext]_vars => [stop => ~StartsRun]_vars
  BY TurnsOnCommand DEF HeedsStop, IInv
<1> QED BY <1>1, ControlHolds, DriverInvariant, HeedsStopHolds, PTL
        DEF TrackSpec, StopEndsRuns

--------------------------------------------------------------------------------
(* What the driver was last told, over the commands it has yet to take.     *)

Said(c) == Sides(c[2], c[3])

\* The command for the tracks before the k-th in the channel is one of W.
TracksAt(k, W) ==
    \/ Before(channel, k, Tracks, W)
    \/ Clear(channel, k, Tracks) /\ \E c \in W : motion = Said(c)
TracksTold(W) == TracksAt(Len(channel) + 1, W)
\* The last command for the drivers enables or disables them.
PowerTold(on) ==
    \/ Before(channel, Len(channel) + 1, Powers, {SetAllDriversEnable(on)})
    \/ /\ Clear(channel, Len(channel) + 1, Powers)
       /\ IF on THEN standby \/ driver = "waiting" ELSE ~standby /\ driver = "up"

LEMMA TakenMoves ==
  ASSUME ChannelInv, TakeCommand
  PROVE  /\ channel # <<>> /\ channel' = Tail(channel) /\ driver = "up" /\ driver' = "up"
         /\ Head(channel) \in Command
         /\ Head(channel) \in Tracks => motion' = Said(Head(channel))
         /\ Head(channel) \notin Tracks => motion' = motion
         /\ Head(channel) = SetAllDriversEnable(TRUE) => standby' = TRUE
         /\ Head(channel) = SetAllDriversEnable(FALSE) => standby' = FALSE
         /\ Head(channel) \notin Powers => standby' = standby
<1> DEFINE c == Head(channel)
<1>1. channel # <<>> /\ channel' = Tail(channel) /\ driver = "up" /\ driver' = "up"
  BY DEF TakeCommand
<1>2. c \in Command
  BY <1>1 DEF ChannelInv
<1>3. ProcessCommand(c)
  BY DEF TakeCommand
<1> HIDE DEF c
<1>4. CASE c[1] = "SetTracks"
  <2>1. c \in Tracks /\ c \notin Powers
    BY <1>2, <1>4 DEF Tracks, Powers, TrackWords
  <2>2. motion' = Said(c) /\ standby' = standby
    BY <1>3, <1>4 DEF ProcessCommand, ProcessSetTracks, Said
  <2> QED BY <1>1, <1>2, <1>4, <2>1, <2>2 DEF c, SetAllDriversEnable
<1>5. CASE c[1] \in {"BrakeAll", "CoastAll"}
  <2>1. c \in Tracks /\ c \notin Powers /\ c[2] = 0 /\ c[3] = 0
    BY <1>2, <1>5 DEF Tracks, Powers, TrackWords, Command
  <2>2. motion' = Both(0) /\ standby' = standby
    BY <1>3, <1>5 DEF ProcessCommand, Release
  <2>3. Both(0) = Said(c)
    BY <2>1 DEF Both, Said, Sides
  <2> QED BY <1>1, <1>2, <1>5, <2>1, <2>2, <2>3 DEF c, SetAllDriversEnable
<1>6. CASE c[1] \in {"Enable", "Disable"}
  <2>1. c \notin Tracks /\ c \in Powers
    BY <1>2, <1>6 DEF Tracks, Powers, TrackWords
  <2>2. /\ motion' = motion
        /\ c[1] = "Enable" => standby' = TRUE
        /\ c[1] = "Disable" => standby' = FALSE
    BY <1>3, <1>6 DEF ProcessCommand
  <2>3. /\ SetAllDriversEnable(TRUE)[1] = "Enable"
        /\ SetAllDriversEnable(FALSE)[1] = "Disable"
    BY DEF SetAllDriversEnable
  <2> QED BY <1>1, <1>2, <2>1, <2>2, <2>3 DEF c
<1>7. CASE c[1] \in {"LoadCalibration", "UpdateAllCalibration"}
  <2>1. c \notin Tracks /\ c \notin Powers
    BY <1>2, <1>7 DEF Tracks, Powers, TrackWords
  <2>2. motion' = motion /\ standby' = standby
    BY <1>3, <1>7 DEF ProcessCommand
  <2> QED BY <1>1, <1>2, <1>7, <2>1, <2>2 DEF c, SetAllDriversEnable
<1> QED BY <1>2, <1>4, <1>5, <1>6, <1>7 DEF Command

LEMMA TracksAppended ==
  ASSUME ChannelInv, NEW c \in Command, channel' = Append(channel, c), motion' = motion,
         NEW W, c \in W \/ (c \notin Tracks /\ TracksTold(W))
  PROVE  TracksTold(W)'
<1> DEFINE k == Len(channel) + 1
           a == Append(channel, c)
<1>1. channel \in Seq(Command)
  BY DEF ChannelInv
<1>2. /\ c \in W => Before(a, Len(a) + 1, Tracks, W)
      /\ c \notin Tracks /\ Before(channel, k, Tracks, W) => Before(a, Len(a) + 1, Tracks, W)
      /\ c \notin Tracks /\ Clear(channel, k, Tracks) => Clear(a, Len(a) + 1, Tracks)
  BY <1>1, BeforeAppended
<1>3. channel' = a
  OBVIOUS
<1> HIDE DEF a
<1> QED BY <1>2, <1>3 DEF TracksTold, TracksAt

LEMMA TracksTaken ==
  ASSUME ChannelInv, TakeCommand, NEW W \in SUBSET Tracks,
         NEW k \in 2..(Len(channel) + 1), TracksAt(k, W)
  PROVE  TracksAt(k - 1, W)'
<1> DEFINE t == Tail(channel)
           h == Head(channel)
<1>1. /\ channel # <<>> /\ channel' = t /\ h \in Command
      /\ h \in Tracks => motion' = Said(h)
      /\ h \notin Tracks => motion' = motion
  BY TakenMoves
<1>2. channel \in Seq(Command)
  BY DEF ChannelInv
<1>3. /\ Before(channel, k, Tracks, W) =>
            Before(t, k - 1, Tracks, W) \/ (h \in W /\ Clear(t, k - 1, Tracks))
      /\ Clear(channel, k, Tracks) => h \notin Tracks /\ Clear(t, k - 1, Tracks)
  BY <1>1, <1>2, BeforeTail
<1> HIDE DEF t, h
<1> QED BY <1>1, <1>3 DEF TracksAt

LEMMA TracksToldTaken ==
  ASSUME ChannelInv, TakeCommand, NEW W \in SUBSET Tracks, TracksTold(W)
  PROVE  TracksTold(W)'
<1>1. channel # <<>> /\ channel' = Tail(channel)
  BY TakenMoves
<1>2. PICK k \in 2..(Len(channel) + 1) : k = Len(channel) + 1 /\ k - 1 = Len(channel') + 1
  BY <1>1 DEF ChannelInv
<1>3. TracksAt(k, W)
  BY <1>2 DEF TracksTold
<1>4. TracksAt(k - 1, W)'
  BY <1>3, TracksTaken
<1> QED BY <1>2, <1>4 DEF TracksTold

LEMMA PowerAppended ==
  ASSUME ChannelInv, NEW c \in Command, channel' = Append(channel, c),
         UNCHANGED <<standby, driver>>, NEW on \in BOOLEAN,
         c = SetAllDriversEnable(on) \/ (c \notin Powers /\ PowerTold(on))
  PROVE  PowerTold(on)'
<1> DEFINE k == Len(channel) + 1
           a == Append(channel, c)
           W == {SetAllDriversEnable(on)}
<1>1. channel \in Seq(Command)
  BY DEF ChannelInv
<1>2. /\ c \in W => Before(a, Len(a) + 1, Powers, W)
      /\ c \notin Powers /\ Before(channel, k, Powers, W) => Before(a, Len(a) + 1, Powers, W)
      /\ c \notin Powers /\ Clear(channel, k, Powers) => Clear(a, Len(a) + 1, Powers)
  BY <1>1, BeforeAppended
<1>3. channel' = a
  OBVIOUS
<1> HIDE DEF a
<1> QED BY <1>2, <1>3 DEF PowerTold

LEMMA PowerTaken ==
  ASSUME ChannelInv, TakeCommand, NEW on \in BOOLEAN, PowerTold(on)
  PROVE  PowerTold(on)'
<1> DEFINE t == Tail(channel)
           h == Head(channel)
           W == {SetAllDriversEnable(on)}
<1>1. /\ channel # <<>> /\ channel' = t /\ driver = "up" /\ driver' = "up"
      /\ h = SetAllDriversEnable(TRUE) => standby' = TRUE
      /\ h = SetAllDriversEnable(FALSE) => standby' = FALSE
      /\ h \notin Powers => standby' = standby
  BY TakenMoves
<1>2. channel \in Seq(Command)
  BY DEF ChannelInv
<1>3. PICK k \in 2..(Len(channel) + 1) : k = Len(channel) + 1 /\ k - 1 = Len(t) + 1
  BY <1>1, <1>2
<1>4. /\ Before(channel, k, Powers, W) =>
            Before(t, k - 1, Powers, W) \/ (h \in W /\ Clear(t, k - 1, Powers))
      /\ Clear(channel, k, Powers) => h \notin Powers /\ Clear(t, k - 1, Powers)
  BY <1>1, <1>2, BeforeTail
<1>5. Before(t, k - 1, Powers, W) => PowerTold(on)'
  BY <1>1, <1>3 DEF PowerTold
<1> HIDE DEF t, h
<1>6. CASE h \in W /\ Clear(t, k - 1, Powers)
  <2>1. IF on THEN standby' ELSE ~standby'
    BY <1>1, <1>6
  <2> QED BY <1>1, <1>3, <1>6, <2>1 DEF PowerTold
<1>7. CASE Clear(channel, k, Powers) /\ ~Before(channel, k, Powers, W)
  <2>1. standby' = standby /\ Clear(t, k - 1, Powers)
    BY <1>1, <1>4, <1>7
  <2>2. IF on THEN standby ELSE ~standby
    BY <1>1, <1>3, <1>7 DEF PowerTold
  <2>3. IF on THEN standby' ELSE ~standby'
    BY <2>1, <2>2
  <2> QED BY <1>1, <1>3, <2>1, <2>3 DEF PowerTold
<1> QED BY <1>3, <1>4, <1>5, <1>6, <1>7 DEF PowerTold

\* What the other tasks do to the channel.
LEMMA QueueMoves ==
  ASSUME Control, IInv, TrackNext
  PROVE  \/ channel' = channel /\ UNCHANGED <<motion, standby, driver>>
         \/ Sends /\ Here.what \in Command /\ channel' = Append(channel, Here.what)
         \/ /\ UNCHANGED driverVars
            /\ \E c \in Command : /\ c \notin Tracks /\ c \notin Powers
                                  /\ channel' = Append(channel, c)
            /\ Passes \/ UNCHANGED <<running, at, outcome>>
         \/ /\ UNCHANGED <<driverVars, supplyVars>>
            /\ \E c \in Rest : channel' = Append(channel, c)
            /\ running \notin Calibrations /\ UNCHANGED <<running, at, outcome>>
         \/ TakeCommand /\ UNCHANGED <<running, at, outcome>>
         \/ /\ driver = "waiting" /\ driver' = "up" /\ standby' = TRUE
            /\ UNCHANGED <<channel, motion, running, at, outcome>>
<1>0. \A c \in {"LoadCalibration", "UpdateAllCalibration"} \X Nat \X Nat :
         c \notin Tracks /\ c \notin Powers
  BY CommandsApart
<1>1. CASE Starts
  BY <1>1 DEF Starts, Start, motorVars, driverVars, outputVars
<1>2. CASE Sends
  BY <1>2, HereIs DEF Sends, Send, Shape, Here, Control
<1>3. CASE Passes
  <2>1. CASE Here.do = "SendFactors"
    <3>1. PICK c \in {"UpdateAllCalibration"} \X Nat \X Nat : Send(c)
      BY <1>3, <2>1 DEF Passes
    <3>2. c \in Command /\ c \in {"LoadCalibration", "UpdateAllCalibration"} \X Nat \X Nat
      BY DEF Command
    <3>3. channel' = Append(channel, c)
      BY <3>1 DEF Send
    <3>4. UNCHANGED driverVars
      BY <1>3 DEF Passes
    <3> QED BY <1>0, <1>3, <3>2, <3>3, <3>4
  <2>2. CASE Here.do # "SendFactors"
    BY <1>3, <2>2 DEF Passes, driverVars, outputVars
  <2> QED BY <2>1, <2>2
<1>4. CASE Diverts
  BY <1>4 DEF Diverts, motorVars, driverVars, outputVars
<1>5. CASE EndProcedure
  BY <1>5 DEF EndProcedure, Undisturbed, motorVars, driverVars, outputVars
<1>6. CASE Meanwhile
  <2>0. UNCHANGED <<running, at, outcome>>
    BY <1>6 DEF Meanwhile
  <2>1. CASE UNCHANGED motorVars \/ \E v \in Voltages : Measure(v)
    BY <2>1 DEF motorVars, driverVars, outputVars, Measure
  <2>2. CASE /\ running \notin Calibrations /\ UNCHANGED <<driverVars, supplyVars>>
             /\ \E c \in {BrakeAll, CoastAll} : Send(c)
    BY <2>0, <2>2 DEF Send, Rest
  <2>3. CASE DriverStep
    BY <2>0, <2>3 DEF DriverStep, DriverStarts
  <2>4. CASE SupplyRest
    <3>1. CASE LoadMotorCalibration
      <4> DEFINE f == ClampFactor(Head(events)[2])
      <4>1. /\ channel' = Append(channel, LoadCalibration(f, f))
            /\ UNCHANGED driverVars
        BY <3>1 DEF LoadMotorCalibration, Send
      <4>2. LoadCalibration(f, f) \in Command
        <5>1. Head(events) \in Event
          BY <3>1 DEF LoadMotorCalibration, IInv, SupplyInv
        <5>2. Head(events)[2] \in Nat
          BY <3>1, <5>1, EventTypes, FactorAssumption DEF LoadMotorCalibration
        <5> QED BY <5>2, ClampType, CommandTypes
      <4>3. LoadCalibration(f, f) \notin Tracks /\ LoadCalibration(f, f) \notin Powers
        BY DEF LoadCalibration, Tracks, Powers, TrackWords
      <4> HIDE DEF f
      <4> QED BY <2>0, <4>1, <4>2, <4>3
    <3>2. CASE UNCHANGED <<channel, driverVars>>
      BY <3>2 DEF driverVars, outputVars
    <3> QED BY <2>4, <3>1, <3>2 DEF SupplyRest, RaiseMeasured, FlashAnswers,
          HandleBatteryMeasured
  <2> QED BY <1>6, <2>1, <2>2, <2>3, <2>4 DEF Meanwhile
<1> QED BY <1>1, <1>2, <1>3, <1>4, <1>5, <1>6, TrackSteps

LEMMA DriverUnmoved ==
  ASSUME UNCHANGED driverVars
  PROVE  UNCHANGED <<motion, standby, driver>>
BY DEF driverVars, outputVars

\* A command of W stays the last until another is sent.
LEMMA TracksStep ==
  ASSUME Control, IInv, TrackNext, NEW W \in SUBSET Tracks,
         TracksTold(W) \/ (Sends /\ Here.what \in W),
         Sends => Here.what \in W \/ Here.what \notin Tracks,
         running \in Calibrations \/ Rest \subseteq W
  PROVE  TracksTold(W)'
<1>0. ChannelInv
  BY DEF IInv
<1>1. CASE Sends /\ Here.what \in Command /\ channel' = Append(channel, Here.what)
  <2>1. PICK c \in Command : c = Here.what
    BY <1>1
  <2>2. motion' = motion
    BY <1>1, DriverUnmoved DEF Sends
  <2>3. c \in W \/ (c \notin Tracks /\ TracksTold(W))
    BY <1>1, <2>1
  <2> QED BY <1>0, <1>1, <2>1, <2>2, <2>3, TracksAppended
<1>2. ASSUME ~Sends PROVE TracksTold(W)
  BY <1>2
<1>3. CASE channel' = channel /\ UNCHANGED <<motion, standby, driver>>
  <2>1. CASE Sends
    <3>1. Here.what \in Command /\ channel' = Append(channel, Here.what)
      BY <2>1, HereIs DEF Sends, Send, Shape, Here, Control
    <3> QED BY <1>1, <2>1, <3>1
  <2>2. CASE ~Sends
    BY <1>2, <1>3, <2>2 DEF TracksTold, TracksAt
  <2> QED BY <2>1, <2>2
<1>4. ASSUME NEW c \in Command, channel' = Append(channel, c), UNCHANGED driverVars,
             c \in W \/ c \notin Tracks, ~Sends
      PROVE  TracksTold(W)'
  <2>1. motion' = motion
    BY <1>4, DriverUnmoved
  <2> QED BY <1>0, <1>2, <1>4, <2>1, TracksAppended
<1>5. CASE Sends
  BY <1>1, <1>5, HereIs DEF Sends, Send, Shape, Here, Control
<1>6. CASE ~Sends
  <2>1. CASE UNCHANGED driverVars /\ \E c \in Command : /\ c \notin Tracks /\ c \notin Powers
                                                        /\ channel' = Append(channel, c)
    BY <1>4, <1>6, <2>1
  <2>2. CASE /\ UNCHANGED driverVars /\ running \notin Calibrations
             /\ \E c \in Rest : channel' = Append(channel, c)
    BY <1>4, <1>6, <2>2, CommandsApart
  <2>3. CASE TakeCommand
    BY <1>0, <1>2, <1>6, <2>3, TracksToldTaken
  <2>4. CASE UNCHANGED <<channel, motion>>
    BY <1>2, <1>6, <2>4 DEF TracksTold, TracksAt
  <2> QED BY <1>3, <1>6, <2>1, <2>2, <2>3, <2>4, QueueMoves
<1> QED BY <1>5, <1>6

LEMMA PowerStep ==
  ASSUME Control, IInv, TrackNext, NEW on \in BOOLEAN,
         PowerTold(on) \/ (Sends /\ Here.what = SetAllDriversEnable(on)),
         Sends => Here.what = SetAllDriversEnable(on) \/ Here.what \notin Powers
  PROVE  PowerTold(on)'
<1>0. ChannelInv
  BY DEF IInv
<1>1. ASSUME NEW c \in Command, channel' = Append(channel, c), UNCHANGED driverVars,
             c = SetAllDriversEnable(on) \/ (c \notin Powers /\ PowerTold(on))
      PROVE  PowerTold(on)'
  <2>1. UNCHANGED <<standby, driver>>
    BY <1>1, DriverUnmoved
  <2> QED BY <1>0, <1>1, <2>1, PowerAppended
<1>2. CASE Sends
  <2>1. Here.what \in Command /\ channel' = Append(channel, Here.what)
    BY <1>2, HereIs DEF Sends, Send, Shape, Here, Control
  <2> QED BY <1>1, <1>2, <2>1 DEF Sends
<1>3. CASE ~Sends
  <2>0. PowerTold(on)
    BY <1>3
  <2>1. CASE UNCHANGED driverVars /\ \E c \in Command : /\ c \notin Tracks /\ c \notin Powers
                                                        /\ channel' = Append(channel, c)
    BY <1>1, <2>0, <2>1
  <2>2. CASE UNCHANGED driverVars /\ \E c \in Rest : channel' = Append(channel, c)
    BY <1>1, <2>0, <2>2, CommandsApart
  <2>3. CASE TakeCommand
    BY <1>0, <2>0, <2>3, PowerTaken
  <2>4. CASE channel' = channel /\ UNCHANGED <<motion, standby, driver>>
    BY <2>0, <2>4 DEF PowerTold
  <2>5. CASE driver = "waiting" /\ driver' = "up" /\ standby' = TRUE /\ channel' = channel
    BY <2>0, <2>5 DEF PowerTold
  <2> QED BY <1>3, <2>1, <2>2, <2>3, <2>4, <2>5, QueueMoves
<1> QED BY <1>2, <1>3

\* More commands say less.
LEMMA TracksWeaken ==
  ASSUME NEW V, NEW W, V \subseteq W, TracksTold(V)
  PROVE  TracksTold(W)
BY DEF TracksTold, TracksAt, Before

--------------------------------------------------------------------------------
(* The driver was told what the script said last.                           *)

\* Of the statements of C that the script has put behind it the last is in W.
Says(C, W) == running # "none" /\ Before(Script[at[1]], at[2], C, W)

LEMMA SaysLater ==
  ASSUME Control, TrackNext, NEW C, NEW W, Says(C, W)'
  PROVE  \/ UNCHANGED <<running, at, outcome>> /\ Says(C, W)
         \/ /\ Sends \/ Passes
            /\ running' = running
            /\ Here \in W \/ (Here \notin C /\ Says(C, W))
<1>1. running' # "none" /\ Before(Script[at'[1]], at'[2], C, W)
  BY DEF Says
<1>2. at'[2] # 1
  BY <1>1, BeforeFirst
<1>3. CASE Starts
  BY <1>2, <1>3, StartPlaced DEF Starts
<1>4. CASE Diverts
  BY <1>2, <1>4 DEF Diverts, Divert
<1>5. CASE EndProcedure
  BY <1>1, <1>5, EndPlaced
<1>6. CASE Meanwhile
  BY <1>1, <1>6 DEF Meanwhile, Says
<1>7. CASE Sends \/ Passes
  <2>1. running # "none" /\ Proceed /\ Here.do \notin {"End", "Repeat"}
    BY <1>7 DEF Sends, Passes
  <2>2. at'[1] = at[1] /\ at'[2] = at[2] + 1 /\ running' = running
    BY <2>1, ProceedGoesOn DEF Proceed
  <2> DEFINE s == Script[at[1]]
  <2>3. Before(s, at[2] + 1, C, W)
    BY <1>1, <2>2
  <2>4. PICK k \in Nat \ {0} : k = at[2]
    BY <2>1, HereIs DEF Control
  <2>5. s[k] = Here
    BY <2>4 DEF Here
  <2> HIDE DEF s
  <2>6. Here \in W \/ (Here \notin C /\ Before(s, k, C, W))
    BY <2>3, <2>4, <2>5, BeforeNext
  <2> QED BY <1>7, <2>1, <2>2, <2>4, <2>6 DEF Says, s
<1> QED BY <1>3, <1>4, <1>5, <1>6, <1>7, TrackSteps

\* While the drive task handles its interrupts the tracks may also have been
\* told to rest.
Expected(c) == IF running \in Calibrations THEN {c} ELSE {c} \cup Rest
TracksAsSaid == \A c \in Tracks : Says(TrackSt, {Motor(c)}) => TracksTold(Expected(c))
PowerAsSaid ==
    \A on \in BOOLEAN :
        Says(PowerSt, {Motor(SetAllDriversEnable(on))}) => PowerTold(on)
LongWaited == Says({}, LongSt) => driver = "up"

LEMMA TracksAsSaidKept ==
  ASSUME Control, IInv, TracksAsSaid, TrackNext
  PROVE  TracksAsSaid'
<1> SUFFICES ASSUME NEW c \in Tracks, Says(TrackSt, {Motor(c)})'
             PROVE  TracksTold(Expected(c))'
  BY DEF TracksAsSaid
<1>1. \/ UNCHANGED <<running, at, outcome>> /\ Says(TrackSt, {Motor(c)})
      \/ /\ Sends \/ Passes
         /\ running' = running
         /\ Here \in {Motor(c)} \/ (Here \notin TrackSt /\ Says(TrackSt, {Motor(c)}))
  BY SaysLater
<1>2. PICK W \in SUBSET Tracks : W = Expected(c) /\ c \in W
  BY CommandsApart DEF Expected
<1>3. running' = running
  BY <1>1
<1>4. W = Expected(c)'
  BY <1>2, <1>3 DEF Expected
<1>5. running \in Calibrations \/ Rest \subseteq W
  BY <1>2 DEF Expected
<1>6. CASE Here = Motor(c) /\ (Sends \/ Passes)
  <2>1. Sends /\ Here.what = c
    BY <1>6, MotorsDiffer DEF Passes
  <2>2. TracksTold(W)'
    BY <1>2, <1>5, <2>1, TracksStep
  <2> QED BY <1>4, <2>2
<1>7. CASE Says(TrackSt, {Motor(c)}) /\ (Sends => Here \notin TrackSt)
  <2>1. TracksTold(W)
    BY <1>2, <1>7 DEF TracksAsSaid
  <2>2. Sends => Here.what \notin Tracks
    <3>1. Sends => Here = Motor(Here.what)
      BY HereIs DEF Sends, Shape, Here, Control
    <3> QED BY <1>7, <3>1 DEF TrackSt
  <2>3. TracksTold(W)'
    BY <1>5, <2>1, <2>2, TracksStep
  <2> QED BY <1>4, <2>3
<1>8. CASE UNCHANGED <<running, at, outcome>> /\ Says(TrackSt, {Motor(c)})
  <2>1. ~Sends
    <3>1. Sends => at' = <<at[1], at[2] + 1>> /\ at[2] \in Nat
      BY HereIs DEF Sends, Proceed, Control
    <3> QED BY <1>8, <3>1
  <2> QED BY <1>7, <1>8, <2>1
<1> QED BY <1>1, <1>6, <1>7, <1>8

LEMMA StandsStill ==
  ASSUME Control, UNCHANGED <<running, at, outcome>>
  PROVE  ~Sends /\ ~Passes
<1>1. running # "none" /\ Proceed => at' = <<at[1], at[2] + 1>> /\ at[2] \in Nat
  BY HereIs DEF Proceed, Control
<1> QED BY <1>1 DEF Sends, Passes

LEMMA PowerAsSaidKept ==
  ASSUME Control, IInv, PowerAsSaid, TrackNext
  PROVE  PowerAsSaid'
<1> SUFFICES ASSUME NEW on \in BOOLEAN,
                    Says(PowerSt, {Motor(SetAllDriversEnable(on))})'
             PROVE  PowerTold(on)'
  BY DEF PowerAsSaid
<1> DEFINE c == SetAllDriversEnable(on)
<1>1. \/ UNCHANGED <<running, at, outcome>> /\ Says(PowerSt, {Motor(c)})
      \/ /\ Sends \/ Passes
         /\ running' = running
         /\ Here \in {Motor(c)} \/ (Here \notin PowerSt /\ Says(PowerSt, {Motor(c)}))
  BY SaysLater
<1> HIDE DEF c
<1>2. CASE Here = Motor(c) /\ (Sends \/ Passes)
  <2>1. Sends /\ Here.what = c
    BY <1>2, MotorsDiffer DEF Passes
  <2> QED BY <2>1, PowerStep DEF c
<1>3. CASE Says(PowerSt, {Motor(c)}) /\ (Sends => Here \notin PowerSt)
  <2>1. PowerTold(on)
    BY <1>3 DEF PowerAsSaid, c
  <2>2. Sends => Here.what \notin Powers
    <3>1. Sends => Here = Motor(Here.what)
      BY HereIs DEF Sends, Shape, Here, Control
    <3> QED BY <1>3, <3>1 DEF PowerSt
  <2> QED BY <2>1, <2>2, PowerStep
<1> QED BY <1>1, <1>2, <1>3, StandsStill

LEMMA DriverStays ==
  ASSUME Control, IInv, TrackNext, driver = "up"
  PROVE  driver' = "up"
<1>1. UNCHANGED driverVars => driver' = driver
  BY DriverUnmoved
<1>2. TakeCommand => driver' = driver
  BY DEF TakeCommand
<1>3. Sends => UNCHANGED driverVars
  BY DEF Sends
<1> QED BY <1>1, <1>2, <1>3, QueueMoves

LEMMA LongWaitedKept ==
  ASSUME Control, IInv, LongWaited, TrackNext
  PROVE  LongWaited'
<1> SUFFICES ASSUME Says({}, LongSt)' PROVE driver' = "up"
  BY DEF LongWaited
<1>1. \/ Says({}, LongSt)
      \/ (Sends \/ Passes) /\ Here \in LongSt
  BY SaysLater
<1>2. CASE (Sends \/ Passes) /\ Here \in LongSt
  <2>1. /\ Here.do \in {"Wait", "WaitOr"} => Here.what = "long"
        /\ Here.do \in {"Wait", "WaitOr", "Watch"}
    BY <1>2 DEF LongSt, WaitLong, WaitOr, Statement
  <2>2. Passes
    BY <1>2, <2>1 DEF Sends
  <2>3. Elapsed("long")
    BY <2>1, <2>2 DEF Passes
  <2>4. driver = "up"
    BY <2>3 DEF Elapsed
  <2> QED BY <2>4, DriverStays
<1>3. CASE Says({}, LongSt)
  BY <1>3, DriverStays DEF LongWaited
<1> QED BY <1>1, <1>2, <1>3

Followed == TracksAsSaid /\ PowerAsSaid /\ LongWaited

LEMMA FollowedHolds == TrackSpec => []Followed
<1>1. ProcedureInit => Followed
  BY DEF ProcedureInit, Followed, TracksAsSaid, PowerAsSaid, LongWaited, Says
<1>2. Control /\ IInv /\ Followed /\ [TrackNext]_vars => Followed'
  <2>1. ASSUME Followed, UNCHANGED vars PROVE Followed'
    <3>1. UNCHANGED <<running, at, channel, motion, standby, driver>>
      BY <2>1 DEF vars, procedureVars, motorVars, driverVars, outputVars
    <3> QED BY <2>1, <3>1 DEF Followed, TracksAsSaid, PowerAsSaid, LongWaited, Says,
          Expected, TracksTold, TracksAt, PowerTold
  <2>2. ASSUME Control, IInv, Followed, TrackNext PROVE Followed'
    BY <2>2, TracksAsSaidKept, PowerAsSaidKept, LongWaitedKept DEF Followed
  <2> QED BY <2>1, <2>2
<1> QED BY <1>1, <1>2, ControlHolds, DriverInvariant, PTL DEF TrackSpec

--------------------------------------------------------------------------------
(* However a procedure ends it leaves everything at rest.                   *)

Resting ==
    \/ running = "none" \/ at[1] = "MagStopped"
    \/ at[1] = "MagCalibration" /\ at[2] <= 10
    => TracksTold(Rest)
EndedOff == running = "none" /\ outcome \notin {"none", "ByHand"} => PowerTold(FALSE)

Sampler == {"Start", "Stop"}
SamplerTold ==
    \/ Before(encoderChannel, Len(encoderChannel) + 1, Sampler, {"Stop"})
    \/ Clear(encoderChannel, Len(encoderChannel) + 1, Sampler) /\ ~sampling
SamplerAsSaid == Says(SamplerSt, {Encoder("Stop")}) => SamplerTold
SamplerAlone == running # "MotorCalibration" => SamplerTold

\* A place of a script before which the tracks were told to rest.
LEMMA ToldToRest ==
  ASSUME TracksAsSaid, running # "none", RestBefore(Script[at[1]], at[2])
  PROVE  TracksTold(Rest)
<1>1. PICK c \in Rest : Before(Script[at[1]], at[2], TrackSt, {Motor(c)})
  BY DEF RestBefore
<1>2. TracksTold(Expected(c))
  BY <1>1, CommandsApart DEF TracksAsSaid, Says
<1>3. Expected(c) \subseteq Rest
  BY DEF Expected
<1> QED BY <1>2, <1>3, TracksWeaken

LEMMA EndIsMeant ==
  ASSUME Control, EndProcedure
  PROVE  /\ running # "none" /\ EndMeant(at[1], Script[at[1]], at[2])
         /\ Here.do = "End" /\ Here = Script[at[1]][at[2]] /\ outcome' = Here.what
         /\ running' = "none"
<1>1. running # "none" /\ Here.do = "End" /\ outcome' = Here.what /\ running' = "none"
  BY DEF EndProcedure, At, What
<1>2. Shape(at[1], Script[at[1]], at[2])
  BY <1>1, HereIs DEF Control
<1> QED BY <1>1, <1>2 DEF Shape, Here

LEMMA MagBeforeMotors ==
  ASSUME Control, running # "none", Here.do = "Motor",
         at[1] = "MagStopped" \/ (at[1] = "MagCalibration" /\ at[2] <= 9)
  PROVE  Here.what \notin Tracks
<1>1. at[2] \in 1..Len(Script[at[1]])
  BY HereIs DEF Control
<1>2. CASE at[1] = "MagStopped"
  <2>1. Len(Script[at[1]]) = 1 /\ Script[at[1]][1] = End("ByHand")
    BY <1>2, ScriptIs, EndingsAre, EndingsSay
  <2>2. at[2] = 1
    BY <1>1, <2>1
  <2>3. Here = End("ByHand")
    BY <2>1, <2>2 DEF Here
  <2> QED BY <2>3, Kinds
<1>3. CASE at[1] = "MagCalibration" /\ at[2] <= 9
  <2> DEFINE m == MagCalibration
  <2>1. /\ m[1] = WaitLong /\ m[2] = WaitOr("MagStopped")
        /\ m[3] = Rotate("ManualYaw") /\ m[4] = Rotate("ManualPitch")
        /\ m[5] = Rotate("ManualRoll") /\ m[6] = WaitOr("MagStopped")
        /\ m[7] = Motor(Enable) /\ m[8] = Wait /\ m[9] = WaitLong
    BY MagEnds DEF Enable
  <2>2. Here = m[at[2]] /\ at[2] \in Nat \ {0}
    BY <1>3, ScriptIs, HereIs DEF Here, Control
  <2> HIDE DEF m
  <2>3. at[2] \in 1..9
    BY <1>3, <2>2
  <2>4. Here.do = "Motor" => Here = Motor(Enable)
    <3>1. CASE at[2] = 7
      BY <2>1, <2>2, <3>1
    <3>2. CASE at[2] # 7
      BY <2>1, <2>2, <2>3, <3>2, Kinds
    <3> QED BY <3>1, <3>2
  <2>5. Here.what = Enable
    BY <2>4, MotorsDiffer
  <2> QED BY <2>5, PowersAre, CommandsApart
<1> QED BY <1>2, <1>3

LEMMA RestingKept ==
  ASSUME Control, IInv, TracksAsSaid, Resting, TrackNext
  PROVE  Resting'
<1> SUFFICES ASSUME \/ running' = "none" \/ at'[1] = "MagStopped"
                    \/ at'[1] = "MagCalibration" /\ at'[2] <= 10
             PROVE  TracksTold(Rest)'
  BY DEF Resting
<1>1. PICK W \in SUBSET Tracks : W = Rest
  BY CommandsApart
<1>2. ASSUME TracksTold(Rest), Sends => Here.what \notin Tracks
      PROVE  TracksTold(Rest)'
  <2>1. TracksTold(W)'
    BY <1>1, <1>2, TracksStep
  <2> QED BY <1>1, <2>1
<1>3. CASE Starts
  <2>1. running = "none"
    BY <1>3 DEF Starts, Start
  <2> QED BY <1>2, <2>1 DEF Resting, Sends
<1>4. CASE Sends \/ Passes
  <2>1. running # "none" /\ Proceed /\ Here.do \notin {"End", "Repeat"}
    BY <1>4 DEF Sends, Passes
  <2>2. running' # "none" /\ at'[1] = at[1] /\ at'[2] = at[2] + 1 /\ at[2] \in Nat
    BY <2>1, ProceedGoesOn, HereIs DEF Control
  <2>3. at[1] = "MagStopped" \/ (at[1] = "MagCalibration" /\ at[2] <= 9)
    BY <2>2
  <2>4. at[1] = "MagStopped" \/ (at[1] = "MagCalibration" /\ at[2] <= 10)
    BY <2>2, <2>3
  <2>5. Sends => Here.what \notin Tracks
    BY <2>3, MagBeforeMotors DEF Sends
  <2> QED BY <1>2, <2>4, <2>5 DEF Resting
<1>5. CASE Diverts
  <2>1. Here.orElse # "MagCalibration" /\ at' = <<Here.orElse, 1>> /\ running' # "none"
        /\ (Here.orElse = "MagStopped" => at[1] = "MagCalibration" /\ at[2] <= 6)
    BY <1>5, HereIs DEF Diverts, Divert, Shape, Here, Procedures, Control
  <2>2. at'[1] = Here.orElse
    BY <2>1
  <2>3. at[1] = "MagCalibration" /\ at[2] <= 6
    BY <2>1, <2>2
  <2>4. at[2] <= 10
    BY <1>5, <2>3, HereIs DEF Diverts, Control
  <2>5. ~Sends
    BY <1>5 DEF Sends, Diverts, Diverting
  <2> QED BY <1>2, <2>3, <2>4, <2>5 DEF Resting
<1>6. CASE EndProcedure
  <2>1. /\ running # "none" /\ EndMeant(at[1], Script[at[1]], at[2])
        /\ Here.do = "End"
    BY <1>6, EndIsMeant
  <2>2. TracksTold(Rest)
    BY <2>1, ToldToRest DEF EndMeant, Resting
  <2> QED BY <1>2, <2>1, <2>2 DEF Sends
<1>7. CASE Meanwhile
  <2>1. UNCHANGED <<running, at, outcome>>
    BY <1>7 DEF Meanwhile
  <2> QED BY <1>2, <2>1, StandsStill DEF Resting
<1> QED BY <1>3, <1>4, <1>5, <1>6, <1>7, TrackSteps

LEMMA EndedOffKept ==
  ASSUME Control, IInv, PowerAsSaid, EndedOff, TrackNext
  PROVE  EndedOff'
<1> SUFFICES ASSUME running' = "none", outcome' \notin {"none", "ByHand"}
             PROVE  PowerTold(FALSE)'
  BY DEF EndedOff
<1>1. CASE Starts
  BY <1>1, StartPlaced, NamesAre DEF Starts
<1>2. CASE Sends \/ Passes \/ Diverts
  BY <1>2 DEF Sends, Passes, Diverts, Proceed, Divert
<1>3. CASE EndProcedure
  <2>1. /\ running # "none" /\ EndMeant(at[1], Script[at[1]], at[2])
        /\ Here = Script[at[1]][at[2]] /\ Here.do = "End" /\ outcome' = Here.what
    BY <1>3, EndIsMeant
  <2>2. OffBefore(Script[at[1]], at[2])
    BY <2>1 DEF EndMeant
  <2>3. PowerTold(FALSE)
    BY <2>1, <2>2 DEF PowerAsSaid, Says, OffBefore, Disable
  <2>4. ~Sends
    BY <2>1 DEF Sends
  <2> QED BY <2>3, <2>4, PowerStep
<1>4. CASE Meanwhile
  <2>1. UNCHANGED <<running, at, outcome>>
    BY <1>4 DEF Meanwhile
  <2>2. ~Sends /\ PowerTold(FALSE)
    BY <2>1, StandsStill DEF EndedOff
  <2> QED BY <2>2, PowerStep
<1> QED BY <1>1, <1>2, <1>3, <1>4, TrackSteps

\* The sampler's channel is the motor calibration's alone.
LEMMA SamplerMoves ==
  ASSUME Control, TrackNext
  PROVE  \/ UNCHANGED <<encoderChannel, sampling>> /\ ~(Passes /\ Here.do = "Encoder")
         \/ /\ SendEncoder /\ Passes /\ running' = running
            /\ running = "MotorCalibration" /\ Here = Encoder(Here.what)
            /\ Here.what \in {"Start", "Stop", "Reset"}
            /\ encoderChannel' = Append(encoderChannel, Here.what) /\ sampling' = sampling
         \/ HandleEncoderCommand /\ UNCHANGED <<running, at, outcome>>
<1>1. CASE Starts
  BY <1>1 DEF Starts, Start, Passes
<1>2. CASE Stop
  <2>1. UNCHANGED <<running, at, outcome>>
    BY <1>2 DEF Stop
  <2> QED BY <1>2, <2>1, StandsStill DEF Stop, sensorVars
<1>3. CASE ProcedureStep
  <2>1. CASE SendEncoder
    <3>1. running # "none" /\ Here.do = "Encoder" /\ Proceed
      BY <2>1 DEF SendEncoder, At
    <3>2. Shape(at[1], Script[at[1]], at[2]) /\ running = Owner(at[1])
      BY <3>1, HereIs DEF Control
    <3>3. running = "MotorCalibration" /\ Here = Encoder(Here.what)
          /\ Here.what \in {"Start", "Stop", "Reset"}
      BY <3>1, <3>2 DEF Shape, Here
    <3>4. Passes
      BY <2>1, <3>1 DEF Passes, SendEncoder, motorVars
    <3>5. running' = running
      BY <3>1 DEF Proceed
    <3> QED BY <2>1, <3>3, <3>4, <3>5 DEF SendEncoder, What
  <2>2. CASE SendMotor \/ SendFactors \/ ClearMeasurement \/ WaitEnds \/ WaitOrEnds
             \/ CheckStop \/ ObstacleSeen
    BY <2>2 DEF SendMotor, SendFactors, ClearMeasurement, WaitEnds, WaitOrEnds,
       CheckStop, ObstacleSeen, At, Undisturbed, sensorVars
  <2>3. CASE RepeatRound \/ EndProcedure \/ ReadPulses \/ Compute
             \/ RotationEnds \/ MeasureEnds \/ VerifyEnds
    BY <2>3 DEF RepeatRound, EndProcedure, ReadPulses, Compute, RotationEnds, MeasureEnds,
       VerifyEnds, At, Undisturbed, sensorVars
  <2> QED BY <1>3, <2>1, <2>2, <2>3 DEF ProcedureStep
<1>4. CASE OtherTasks
  <2>1. CASE HandleEncoderCommand
    BY <2>1 DEF HandleEncoderCommand, SamplerOnly, procedureVars
  <2>2. UNCHANGED <<running, at, outcome>>
    BY <1>4 DEF OtherTasks, SamplerStep, HandleEncoderCommand, SleepInterval, Sample,
       TracksTurn, SensorFalls, ObstacleRaised, HandleInterrupt, SamplerOnly, Alone,
       BatteryTimerEnds, procedureVars
  <2>3. ~Passes
    BY <2>2, StandsStill
  <2>4. CASE ~HandleEncoderCommand
    BY <1>4, <2>3, <2>4 DEF OtherTasks, SamplerStep, SleepInterval, Sample,
       TracksTurn, SensorFalls, ObstacleRaised, HandleInterrupt, SamplerOnly, Alone,
       BatteryTimerEnds, procedureVars, sensorVars
  <2> QED BY <2>1, <2>4
<1> QED BY <1>1, <1>2, <1>3, <1>4 DEF TrackNext, Starts

LEMMA SamplerStepKeeps ==
  ASSUME Control, TrackNext,
         SamplerTold \/ (Passes /\ Here = Encoder("Stop")),
         Passes => Here = Encoder("Stop") \/ Here \notin SamplerSt
  PROVE  SamplerTold'
<1>0. encoderChannel \in Seq({"Start", "Stop", "Reset"})
  BY DEF Control, TrackTypes
<1> DEFINE q == encoderChannel
           k == Len(q) + 1
           W == {"Stop"}
<1>1. CASE UNCHANGED <<encoderChannel, sampling>> /\ ~(Passes /\ Here.do = "Encoder")
  <2>1. SamplerTold
    BY <1>1 DEF Encoder, Statement
  <2> QED BY <1>1, <2>1 DEF SamplerTold
<1>2. CASE /\ SendEncoder /\ Passes /\ Here = Encoder(Here.what)
           /\ Here.what \in {"Start", "Stop", "Reset"}
           /\ encoderChannel' = Append(encoderChannel, Here.what) /\ sampling' = sampling
  <2>1. PICK c \in {"Start", "Stop", "Reset"} : c = Here.what /\ Here = Encoder(c)
    BY <1>2
  <2>2. /\ c = "Start" => Encoder(c) \in SamplerSt
        /\ c # "Stop" => Encoder(c) # Encoder("Stop")
    BY DEF SamplerSt, Encoder, Statement
  <2>3. c = "Stop" \/ (c \notin Sampler /\ SamplerTold)
    BY <1>2, <2>1, <2>2 DEF Sampler
  <2> DEFINE a == Append(q, c)
  <2>4. /\ c \in W => Before(a, Len(a) + 1, Sampler, W)
        /\ c \notin Sampler /\ Before(q, k, Sampler, W) => Before(a, Len(a) + 1, Sampler, W)
        /\ c \notin Sampler /\ Clear(q, k, Sampler) => Clear(a, Len(a) + 1, Sampler)
    BY <1>0, BeforeAppended
  <2>5. encoderChannel' = a /\ sampling' = sampling
    BY <1>2, <2>1
  <2> HIDE DEF a
  <2> QED BY <2>3, <2>4, <2>5 DEF SamplerTold
<1>3. CASE HandleEncoderCommand /\ UNCHANGED <<running, at, outcome>>
  <2>1. SamplerTold
    BY <1>3, StandsStill
  <2> DEFINE t == Tail(q)
             h == Head(q)
  <2>2. q # <<>> /\ encoderChannel' = t
    BY <1>3 DEF HandleEncoderCommand
  <2>3. /\ h = "Stop" => sampling' = FALSE
        /\ h \notin Sampler => sampling' = sampling
    BY <1>3 DEF HandleEncoderCommand, Sampler
  <2>4. PICK n \in 2..(Len(q) + 1) : n = k /\ n - 1 = Len(t) + 1
    BY <1>0, <2>2
  <2>5. /\ Before(q, n, Sampler, W) =>
              Before(t, n - 1, Sampler, W) \/ (h \in W /\ Clear(t, n - 1, Sampler))
        /\ Clear(q, n, Sampler) => h \notin Sampler /\ Clear(t, n - 1, Sampler)
    BY <1>0, <2>2, BeforeTail
  <2>6. Before(t, n - 1, Sampler, W) => SamplerTold'
    BY <2>2, <2>4 DEF SamplerTold
  <2>7. ASSUME Clear(t, n - 1, Sampler), ~sampling' PROVE SamplerTold'
    BY <2>2, <2>4, <2>7 DEF SamplerTold
  <2> HIDE DEF t, h
  <2> QED BY <2>1, <2>3, <2>4, <2>5, <2>6, <2>7 DEF SamplerTold
<1> QED BY <1>1, <1>2, <1>3, SamplerMoves

LEMMA SamplerKept ==
  ASSUME Control, SamplerAsSaid, SamplerAlone, TrackNext
  PROVE  SamplerAsSaid' /\ SamplerAlone'
<1>1. SamplerAsSaid'
  <2> SUFFICES ASSUME Says(SamplerSt, {Encoder("Stop")})' PROVE SamplerTold'
    BY DEF SamplerAsSaid
  <2>1. \/ UNCHANGED <<running, at, outcome>> /\ Says(SamplerSt, {Encoder("Stop")})
        \/ /\ Sends \/ Passes
           /\ \/ Here \in {Encoder("Stop")}
              \/ Here \notin SamplerSt /\ Says(SamplerSt, {Encoder("Stop")})
    BY SaysLater
  <2>2. CASE UNCHANGED <<running, at, outcome>> /\ Says(SamplerSt, {Encoder("Stop")})
    BY <2>2, StandsStill, SamplerStepKeeps DEF SamplerAsSaid
  <2>3. CASE (Sends \/ Passes) /\ Here = Encoder("Stop")
    <3>1. Passes
      BY <2>3, Kinds DEF Sends
    <3> QED BY <2>3, <3>1, SamplerStepKeeps
  <2>4. CASE Here \notin SamplerSt /\ Says(SamplerSt, {Encoder("Stop")})
    BY <2>4, SamplerStepKeeps DEF SamplerAsSaid
  <2> QED BY <2>1, <2>2, <2>3, <2>4
<1>2. SamplerAlone'
  <2> SUFFICES ASSUME running' # "MotorCalibration" PROVE SamplerTold'
    BY DEF SamplerAlone
  <2>1. ASSUME SamplerTold, ~Passes \/ running # "MotorCalibration" PROVE SamplerTold'
    <3>1. Passes => Here \notin SamplerSt
      <4>1. Passes /\ Here.do = "Encoder" => running = "MotorCalibration"
        BY HereIs DEF Passes, Shape, Here, Control
      <4> QED BY <2>1, <4>1, StatementsApart
    <3> QED BY <2>1, <3>1, SamplerStepKeeps
  <2>2. CASE running # "MotorCalibration"
    BY <2>1, <2>2 DEF SamplerAlone
  <2>3. CASE running = "MotorCalibration"
    <3>1. CASE EndProcedure
      <4>1. /\ running # "none" /\ EndMeant(at[1], Script[at[1]], at[2])
            /\ Here.do = "End"
        BY <3>1, EndIsMeant
      <4>2. Owner(at[1]) = "MotorCalibration"
        BY <2>3, HereIs DEF Control
      <4>3. StoppedBefore(Script[at[1]], at[2])
        BY <4>1, <4>2 DEF EndMeant, Owner
      <4>4. SamplerTold
        BY <4>1, <4>3 DEF SamplerAsSaid, Says, StoppedBefore
      <4>5. ~Passes
        BY <4>1 DEF Passes
      <4> QED BY <2>1, <4>4, <4>5
    <3>2. CASE ~EndProcedure
      <4>1. Starts => running = "none"
        BY DEF Starts, Start
      <4> QED BY <2>3, <3>2, <4>1, TrackSteps DEF Sends, Passes, Diverts, Meanwhile,
            Proceed, Divert
    <3> QED BY <3>1, <3>2
  <2> QED BY <2>2, <2>3
<1> QED BY <1>1, <1>2

Ended == Resting /\ EndedOff /\ SamplerAsSaid /\ SamplerAlone

LEMMA EndedHolds == TrackSpec => []Ended
<1>1. ProcedureInit => Ended
  <2>1. ASSUME ProcedureInit PROVE TracksTold(Rest)
    <3>1. channel = <<>> /\ motion = Both(0)
      BY <2>1 DEF ProcedureInit, Init
    <3>2. Clear(channel, Len(channel) + 1, Tracks)
      BY <3>1 DEF Clear
    <3>3. motion = Said(BrakeAll) /\ BrakeAll \in Rest
      BY <3>1 DEF Said, BrakeAll, Rest, Both, Sides
    <3> QED BY <3>2, <3>3 DEF TracksTold, TracksAt
  <2>2. ASSUME ProcedureInit PROVE SamplerTold
    BY <2>2 DEF ProcedureInit, SamplerTold, Clear
  <2>3. ASSUME ProcedureInit PROVE EndedOff /\ ~Says(SamplerSt, {Encoder("Stop")})
    BY <2>3 DEF ProcedureInit, EndedOff, Says
  <2> QED BY <2>1, <2>2, <2>3 DEF Ended, Resting, SamplerAsSaid, SamplerAlone
<1>2. Control /\ IInv /\ Followed /\ Ended /\ [TrackNext]_vars => Ended'
  <2>1. ASSUME Ended, UNCHANGED vars PROVE Ended'
    <3>1. UNCHANGED <<running, at, outcome, channel, motion, standby, driver,
                      encoderChannel, sampling>>
      BY <2>1 DEF vars, procedureVars, motorVars, driverVars, outputVars, sensorVars
    <3> QED BY <2>1, <3>1 DEF Ended, Resting, EndedOff, SamplerAsSaid, SamplerAlone,
          SamplerTold, Says, TracksTold, TracksAt, PowerTold
  <2>2. ASSUME Control, IInv, Followed, Ended, TrackNext PROVE Ended'
    BY <2>2, RestingKept, EndedOffKept, SamplerKept DEF Followed, Ended
  <2> QED BY <2>1, <2>2
<1> QED BY <1>1, <1>2, ControlHolds, DriverInvariant, FollowedHolds, PTL DEF TrackSpec

\* What was told is what is done once the channel is empty.
LEMMA ToldIsDone ==
  ASSUME IInv, channel = <<>>
  PROVE  /\ \A W : TracksTold(W) => \E c \in W : motion = Said(c)
         /\ PowerTold(TRUE) => standby \/ driver = "waiting"
         /\ PowerTold(FALSE) => ~standby /\ driver = "up"
         /\ motion = Both(0) => duty = Both(0)
<1>1. \A C, W : ~Before(channel, Len(channel) + 1, C, W)
  BY DEF Before
<1>2. ASSUME motion = Both(0) PROVE duty = Both(0)
  <2>1. TracksFollowCommand /\ duty \in [Track -> 0..100]
    BY DEF IInv, OutputInv
  <2>2. \A t \in Track : duty[t] = 0
    BY <1>2, <2>1 DEF TracksFollowCommand, Both
  <2> QED BY <2>1, <2>2 DEF Both
<1> QED BY <1>1, <1>2 DEF TracksTold, TracksAt, PowerTold

LEMMA RestIsRest ==
  ASSUME NEW c \in Rest
  PROVE  Said(c) = Both(0)
BY DEF Rest, Said, BrakeAll, CoastAll, Both, Sides

(* However a procedure ends, once its last commands are handled the tracks  *)
(* stand, the drivers are disabled unless it never touched them, and the    *)
(* sampler is stopped (motor.rs:236-252, imu.rs:751-770).                   *)
THEOREM ProceduresEndAtRest == TrackSpec => []EndsAtRest
<1>1. ASSUME Control, IInv, Ended PROVE EndsAtRest
  <2> SUFFICES ASSUME running = "none", outcome # "none", channel = <<>>,
                      encoderChannel = <<>>
               PROVE  duty = Both(0) /\ (standby => outcome = "ByHand") /\ ~sampling
    BY DEF EndsAtRest
  <2>1. duty = Both(0)
    <3>1. TracksTold(Rest)
      BY <1>1 DEF Ended, Resting
    <3>2. motion = Both(0)
      BY <1>1, <3>1, ToldIsDone, RestIsRest
    <3> QED BY <1>1, <3>2, ToldIsDone
  <2>2. standby => outcome = "ByHand"
    BY <1>1, ToldIsDone DEF Ended, EndedOff
  <2>3. ~sampling
    <3>1. SamplerTold
      BY <1>1 DEF Ended, SamplerAlone
    <3> QED BY <3>1 DEF SamplerTold, Before
  <2> QED BY <2>1, <2>2, <2>3
<1> QED BY <1>1, ControlHolds, DriverInvariant, EndedHolds, PTL

--------------------------------------------------------------------------------
(* A measurement is taken under what its step commanded.                    *)

\* Where the pulses are read the driver has taken every command.
Ready == At("ReadPulses") => channel = <<>>

LEMMA ReadingIsMeant ==
  ASSUME Control, At("ReadPulses")
  PROVE  PulsesMeant(at[1], Script[at[1]], at[2]) /\ running # "none"
         /\ Here = Script[at[1]][at[2]]
<1>1. running # "none" /\ Here.do = "ReadPulses"
  BY DEF At
<1> QED BY <1>1, HereIs DEF Shape, Here, Control

LEMMA ReadyKept ==
  ASSUME Control, IInv, Ready, TrackNext
  PROVE  Ready'
<1> SUFFICES ASSUME At("ReadPulses")' PROVE channel' = <<>>
  BY DEF Ready
<1>1. running' # "none" /\ Here'.do = "ReadPulses"
  BY DEF At
<1>2. Control'
  BY ControlKept
<1>3. PulsesMeant(at'[1], Script[at'[1]], at'[2])
  <2>1. at'[1] \in Names /\ at'[2] \in 1..Len(Script[at'[1]])
    BY <1>1, <1>2 DEF Control, Placed
  <2>2. Shape(at'[1], Script[at'[1]], at'[2])
    BY <2>1, ScriptShape
  <2> QED BY <1>1, <2>2 DEF Shape, Here
<1>4. at'[2] # 1
  BY <1>3 DEF PulsesMeant, Base
<1>5. CASE Starts
  BY <1>4, <1>5, StartPlaced DEF Starts
<1>6. CASE Diverts
  BY <1>4, <1>6 DEF Diverts, Divert
<1>7. CASE EndProcedure
  BY <1>1, <1>7, EndPlaced
<1>8. CASE Sends \/ Passes
  <2>1. running # "none" /\ Proceed /\ Here.do \notin {"End", "Repeat"}
    BY <1>8 DEF Sends, Passes
  <2>2. Script[at'[1]][at'[2] - 1] = Here
    BY <2>1, ProceedGoesOn
  <2>3. Here = WaitOr("RunStopped")
    BY <1>3, <2>2 DEF PulsesMeant
  <2>4. Here.do = "WaitOr" /\ Here.what = "long"
    BY <2>3 DEF WaitOr, Statement
  <2>5. Passes /\ Elapsed("long") /\ channel' = channel
    BY <1>8, <2>4 DEF Sends, Passes
  <2> QED BY <2>5 DEF Elapsed, ExecutorIdle
<1>9. CASE Meanwhile
  <2>1. running' = running /\ at' = at
    BY <1>9 DEF Meanwhile
  <2>2. running # "none" /\ Here.do = "ReadPulses"
    BY <1>1, <2>1 DEF Here
  <2> QED BY <1>9, <2>2 DEF Meanwhile, Blocked, AtAwait, At
<1> QED BY <1>5, <1>6, <1>7, <1>8, <1>9, TrackSteps

LEMMA ReadyHolds == TrackSpec => []Ready
<1>1. ProcedureInit => Ready
  BY DEF ProcedureInit, Ready, At
<1>2. Control /\ IInv /\ Ready /\ [TrackNext]_vars => Ready'
  <2>1. Ready /\ UNCHANGED vars => Ready'
    BY DEF vars, procedureVars, motorVars, Ready, At, Here
  <2> QED BY <2>1, ReadyKept
<1> QED BY <1>1, <1>2, ControlHolds, DriverInvariant, PTL DEF TrackSpec

\* The last command for the tracks and the drivers, once it was handled.
LEMMA SaidIsDone ==
  ASSUME IInv, Followed, channel = <<>>, running \in Calibrations,
         OnBefore(Script[at[1]], at[2]), LongBefore(Script[at[1]], at[2])
  PROVE  /\ standby
         /\ \A c \in Tracks : Before(Script[at[1]], at[2], TrackSt, {Motor(c)}) =>
               motion = Said(c)
<1>1. running # "none"
  BY DEF Calibrations
<1>2. driver = "up"
  BY <1>1 DEF Followed, LongWaited, Says, LongBefore
<1>3. PowerTold(TRUE)
  BY <1>1 DEF Followed, PowerAsSaid, Says, OnBefore, Enable
<1>4. ASSUME NEW c \in Tracks, Before(Script[at[1]], at[2], TrackSt, {Motor(c)})
      PROVE  motion = Said(c)
  <2>1. TracksTold(Expected(c))
    BY <1>1, <1>4 DEF Followed, TracksAsSaid, Says
  <2>2. Expected(c) = {c}
    BY DEF Expected
  <2> QED BY <2>1, <2>2, ToldIsDone
<1> QED BY <1>2, <1>3, <1>4, ToldIsDone

(* What a step measures it measures under its own command: the waits are    *)
(* long enough for the driver to have come up and emptied its channel, and  *)
(* the drive task, which could brake, is busy with the calibration itself   *)
(* (motor.rs:195-222, imu.rs:729-764).                                      *)
THEOREM StepsMeasureWhatTheyCommand == TrackSpec => []MeasuresWhatItCommands
<1>1. ASSUME Control, IInv, Followed, Ready, NEW side \in Track,
             At("ReadPulses"), What = side
      PROVE  standby /\ \A t \in Track : duty[t] > 0 <=> t = side
  <2> DEFINE s == Script[at[1]]
             i == at[2]
  <2>1. /\ PulsesMeant(at[1], s, i) /\ running # "none" /\ s[i].what = side
        /\ channel = <<>>
    BY <1>1, ReadingIsMeant DEF Ready, What
  <2>2. at[1] = "MotorCalibration" /\ running \in Calibrations
    BY <1>1, <2>1, HereIs DEF PulsesMeant, Owner, Calibrations, Control
  <2>3. Before(s, i, TrackSt, {Motor(RunOf(side))}) /\ OnBefore(s, i)
    BY <2>1 DEF PulsesMeant
  <2>4. LongBefore(s, i)
    <3>1. s[i - 1] = WaitOr("RunStopped") /\ i = Base(side) + 11
      BY <2>1 DEF PulsesMeant
    <3>2. s[i - 1] \in LongSt
      BY <3>1 DEF LongSt, Names
    <3>3. i \in Nat /\ i - 1 \in 1..(i - 1)
      BY <3>1 DEF Base
    <3> HIDE DEF s, i
    <3>4. \A m \in ((i - 1) + 1)..(i - 1) : s[m] \notin {}
      OBVIOUS
    <3> QED BY <3>2, <3>3, <3>4, BeforeAt DEF LongBefore
  <2>5. RunOf(side) \in Tracks
    BY RunsExist DEF Tracks, TrackWords, RunOf, SetTracks
  <2>6. standby /\ motion = Said(RunOf(side))
    BY <1>1, <2>1, <2>2, <2>3, <2>4, <2>5, SaidIsDone
  <2>7. \A t \in Track : motion[t] = IF t = side THEN 60 ELSE 0
    BY <2>6 DEF Said, RunOf, SetTracks, Sides, Track
  <2>8. TracksFollowCommand /\ duty \in [Track -> 0..100]
    BY <1>1 DEF IInv, OutputInv
  <2>9. ASSUME NEW t \in Track PROVE duty[t] > 0 <=> t = side
    <3>1. motion[t] > 0 => duty[t] > 0
      BY <2>8 DEF TracksFollowCommand
    <3>2. motion[t] = 0 => duty[t] = 0
      BY <2>8 DEF TracksFollowCommand
    <3> QED BY <2>7, <3>1, <3>2
  <2> QED BY <2>6, <2>9
<1>2. ASSUME Control, IInv, Followed, Ended, At("Measure") \/ At("Verify"), channel = <<>>
      PROVE  /\ standby
             /\ motion = IF What = 0 THEN Both(0)
                         ELSE Sides(InterferenceSteps[What][2], InterferenceSteps[What][3])
  <2> DEFINE s == Script[at[1]]
             i == at[2]
  <2>1. running # "none" /\ ReadingMeant(at[1], s, i) /\ s[i].what = What
    BY <1>2, HereIs DEF At, Shape, Here, What, Control
  <2>2. at[1] = "MagCalibration" /\ running \in Calibrations
    BY <1>2, <2>1, HereIs DEF ReadingMeant, Owner, Calibrations, Control
  <2>3. /\ standby
        /\ \A c \in Tracks : Before(s, i, TrackSt, {Motor(c)}) => motion = Said(c)
    BY <1>2, <2>1, <2>2, SaidIsDone DEF ReadingMeant
  <2>4. CASE What = 0 /\ i = 10
    <3>1. TracksTold(Rest)
      BY <1>2, <2>2, <2>4 DEF Ended, Resting
    <3>2. motion = Both(0)
      BY <1>2, <3>1, ToldIsDone, RestIsRest
    <3> QED BY <2>3, <2>4, <3>2
  <2>5. CASE What \in 1..6 /\ Before(s, i, TrackSt, {Motor(InterferenceSteps[What])})
    <3>1. InterferenceSteps[What] \in Tracks
      BY <2>5, InterferenceRuns DEF Tracks, TrackWords
    <3>2. motion = Said(InterferenceSteps[What])
      BY <2>3, <2>5, <3>1
    <3> QED BY <2>3, <2>5, <3>2 DEF Said
  <2> QED BY <2>1, <2>4, <2>5 DEF ReadingMeant
<1>3. Control /\ IInv /\ Followed /\ Ready /\ Ended => MeasuresWhatItCommands
  BY <1>1, <1>2 DEF MeasuresWhatItCommands
<1> QED BY <1>3, ControlHolds, DriverInvariant, FollowedHolds, ReadyHolds, EndedHolds, PTL

--------------------------------------------------------------------------------
(* The compensation changes while nothing turns.                            *)

\* The drivers are only disabled after the tracks were told to rest, so that
\* the driver, which takes itself for idle then, is.
Idle == ~motorsActive => motion = Both(0)
DisabledAtRest == \A k \in 1..Len(channel) : channel[k] = Disable => TracksAt(k, Rest)

LEMMA RestAppended ==
  ASSUME ChannelInv, DisabledAtRest, NEW c \in Command, channel' = Append(channel, c),
         motion' = motion, c = Disable => TracksTold(Rest)
  PROVE  DisabledAtRest'
<1> DEFINE a == Append(channel, c)
<1>1. channel \in Seq(Command) /\ channel' = a
  BY DEF ChannelInv
<1>2. \A k \in 1..(Len(channel) + 1) : TracksAt(k, Rest) => TracksAt(k, Rest)'
  <2>1. \A k \in 1..(Len(channel) + 1) :
          /\ Before(channel, k, Tracks, Rest) => Before(a, k, Tracks, Rest)
          /\ Clear(channel, k, Tracks) => Clear(a, k, Tracks)
    BY <1>1, BeforeAppend
  <2> HIDE DEF a
  <2> QED BY <1>1, <2>1 DEF TracksAt
<1>3. ASSUME NEW k \in 1..Len(a), a[k] = Disable PROVE TracksAt(k, Rest)
  <2>1. k \in 1..Len(channel) => a[k] = channel[k]
    BY <1>1
  <2>2. k \notin 1..Len(channel) => k = Len(channel) + 1 /\ a[k] = c
    BY <1>1
  <2>3. CASE k \in 1..Len(channel)
    BY <1>3, <2>1, <2>3 DEF DisabledAtRest
  <2>4. CASE k \notin 1..Len(channel)
    BY <1>3, <2>2, <2>4 DEF TracksTold
  <2> QED BY <2>3, <2>4
<1>4. \A k \in 1..Len(a) : k \in 1..(Len(channel) + 1)
  BY <1>1
<1> HIDE DEF a
<1>5. \A k \in 1..Len(a) : a[k] = Disable => TracksAt(k, Rest)'
  BY <1>2, <1>3, <1>4
<1> QED BY <1>1, <1>5 DEF DisabledAtRest

LEMMA RestTaken ==
  ASSUME IInv, Idle, DisabledAtRest, TakeCommand
  PROVE  Idle' /\ DisabledAtRest'
<1> DEFINE h == Head(channel)
<1>0. ChannelInv
  BY DEF IInv
<1>1. /\ channel # <<>> /\ channel' = Tail(channel) /\ h \in Command
      /\ h \in Tracks => motion' = Said(h)
      /\ h \notin Tracks => motion' = motion
  BY <1>0, TakenMoves
<1>2. motorsActive' = NextActive(h)
  BY DEF TakeCommand
<1>3. h = channel[1] /\ 1 \in 1..Len(channel)
  BY <1>0, <1>1 DEF ChannelInv
<1>4. DisabledAtRest'
  <2> SUFFICES ASSUME NEW k \in 1..Len(channel'), channel'[k] = Disable
               PROVE  TracksAt(k, Rest)'
    BY DEF DisabledAtRest
  <2>1. PICK m \in 2..(Len(channel) + 1) :
           m - 1 = k /\ m \in 1..Len(channel) /\ channel[m] = channel'[k]
    BY <1>0, <1>1 DEF ChannelInv
  <2>2. TracksAt(m, Rest)
    BY <2>1 DEF DisabledAtRest
  <2>3. TracksAt(m - 1, Rest)'
    BY <1>0, <2>2, TracksTaken, CommandsApart
  <2> QED BY <2>1, <2>3
<1> HIDE DEF h
<1>5. Idle'
  <2> SUFFICES ASSUME ~motorsActive' PROVE motion' = Both(0)
    BY DEF Idle
  <2>1. CASE h[1] = "SetTracks"
    <3>1. h[2] = 0 /\ h[3] = 0
      BY <1>2, <2>1 DEF NextActive
    <3>2. h \in Tracks
      BY <1>1, <2>1 DEF Tracks, TrackWords
    <3> QED BY <1>1, <3>1, <3>2 DEF Said, Sides, Both
  <2>2. CASE h[1] \in {"BrakeAll", "CoastAll"}
    <3>1. h \in Tracks /\ h[2] = 0 /\ h[3] = 0
      BY <1>1, <2>2 DEF Tracks, TrackWords, Command
    <3> QED BY <1>1, <3>1 DEF Said, Sides, Both
  <2>3. CASE h[1] = "Disable"
    <3>1. h = Disable
      BY <1>1, <2>3 DEF Disable, SetAllDriversEnable, Command
    <3>2. TracksAt(1, Rest)
      BY <1>3, <3>1 DEF DisabledAtRest
    <3>3. motion = Both(0)
      BY <3>2, RestIsRest, BeforeFirst DEF TracksAt
    <3> QED BY <1>1, <3>1, <3>3, PowersAre, CommandsApart
  <2>4. CASE h[1] \in {"Enable", "LoadCalibration", "UpdateAllCalibration"}
    <3>1. motorsActive' = motorsActive
      BY <1>2, <2>4 DEF NextActive
    <3>2. h \notin Tracks
      BY <2>4 DEF Tracks, TrackWords
    <3> QED BY <1>1, <3>1, <3>2 DEF Idle
  <2> QED BY <1>1, <2>1, <2>2, <2>3, <2>4 DEF Command
<1> QED BY <1>4, <1>5

LEMMA IdleUnmoved ==
  ASSUME UNCHANGED driverVars
  PROVE  motion' = motion /\ motorsActive' = motorsActive
BY DEF driverVars, outputVars

\* What a step does to the driver's own idea of being active.
LEMMA ActiveMoves ==
  ASSUME Control, TrackNext, ~TakeCommand
  PROVE  motorsActive' = motorsActive
<1>1. [Next]_motorVars
  BY DriverMoves
<1>2. UNCHANGED motorVars => motorsActive' = motorsActive
  BY DEF motorVars, driverVars
<1>3. UNCHANGED driverVars => motorsActive' = motorsActive
  BY DEF driverVars
<1>4. DriverStarts => motorsActive' = motorsActive
  BY DEF DriverStarts
<1>5. SendAny \/ SupplyRest \/ (\E v \in Voltages : Measure(v)) => UNCHANGED driverVars
  BY DEF SendAny, SupplyRest, RaiseMeasured, FlashAnswers, HandleBatteryMeasured,
     LoadMotorCalibration, Measure
<1> QED BY <1>1, <1>2, <1>3, <1>4, <1>5 DEF Next, DriverStep

LEMMA RestedKept ==
  ASSUME Control, IInv, TracksAsSaid, Idle, DisabledAtRest, TrackNext
  PROVE  Idle' /\ DisabledAtRest'
<1>0. ChannelInv
  BY DEF IInv
<1>1. CASE TakeCommand
  BY <1>1, RestTaken
<1>2. ASSUME ~TakeCommand, motion' = motion PROVE Idle'
  <2>1. motorsActive' = motorsActive
    BY <1>2, ActiveMoves
  <2> QED BY <1>2, <2>1 DEF Idle
<1>3. CASE ~TakeCommand
  <2>1. CASE channel' = channel /\ motion' = motion
    BY <1>2, <1>3, <2>1 DEF DisabledAtRest, TracksAt
  <2>2. CASE Sends /\ Here.what \in Command /\ channel' = Append(channel, Here.what)
    <3>1. motion' = motion
      BY <2>2, DriverUnmoved DEF Sends
    <3>2. ASSUME Here.what = Disable PROVE TracksTold(Rest)
      <4>1. running # "none" /\ RestBefore(Script[at[1]], at[2])
        BY <2>2, <3>2, HereIs DEF Sends, Shape, Here, Control
      <4> QED BY <4>1, ToldToRest
    <3>3. PICK c \in Command : c = Here.what /\ channel' = Append(channel, c)
      BY <2>2
    <3>4. DisabledAtRest'
      BY <1>0, <3>1, <3>2, <3>3, RestAppended
    <3> QED BY <1>2, <1>3, <3>1, <3>4
  <2>3. CASE /\ UNCHANGED driverVars
             /\ \E c \in Command : /\ c \notin Powers /\ channel' = Append(channel, c)
    <3>1. motion' = motion
      BY <2>3, DriverUnmoved
    <3>2. DisabledAtRest'
      BY <1>0, <2>3, <3>1, RestAppended, PowersAre
    <3> QED BY <1>2, <1>3, <3>1, <3>2
  <2>4. (\E c \in Rest : channel' = Append(channel, c)) =>
           \E c \in Command : c \notin Powers /\ channel' = Append(channel, c)
    BY CommandsApart
  <2> QED BY <1>3, <2>1, <2>2, <2>3, <2>4, QueueMoves
<1> QED BY <1>1, <1>3

Rested == Idle /\ DisabledAtRest

LEMMA RestedHolds == TrackSpec => []Rested
<1>1. ProcedureInit => Rested
  BY DEF ProcedureInit, Init, Rested, Idle, DisabledAtRest
<1>2. Control /\ IInv /\ Followed /\ Rested /\ [TrackNext]_vars => Rested'
  <2>1. ASSUME Rested, UNCHANGED vars PROVE Rested'
    <3>1. UNCHANGED <<channel, motion, motorsActive>>
      BY <2>1 DEF vars, motorVars, driverVars, outputVars
    <3> QED BY <2>1, <3>1 DEF Rested, Idle, DisabledAtRest, TracksAt
  <2>2. ASSUME Control, IInv, Followed, Rested, TrackNext PROVE Rested'
    BY <2>2, RestedKept DEF Followed, Rested
  <2> QED BY <2>1, <2>2
<1> QED BY <1>1, <1>2, ControlHolds, DriverInvariant, FollowedHolds, PTL DEF TrackSpec

LEMMA StillIsAtRest ==
  ASSUME IInv, motion = Both(0)
  PROVE  AtRest
<1>1. \A t \in Track : duty[t] = 0
  BY DEF IInv, OutputInv, TracksFollowCommand, Both
<1>2. duty \in [Track -> 0..100]
  BY DEF IInv, OutputInv
<1> QED BY <1>1, <1>2 DEF AtRest, Both

LEMMA StillIsAtRestNext ==
  ASSUME IInv', motion' = Both(0)
  PROVE  AtRest'
<1>1. \A t \in Track : duty'[t] = 0
  BY DEF IInv, OutputInv, TracksFollowCommand, Both
<1>2. duty' \in [Track -> 0..100]
  BY DEF IInv, OutputInv
<1> QED BY <1>1, <1>2 DEF AtRest, Both

(* The voltage compensation changes only while the tracks stand: the driver *)
(* is told to disable itself only after the tracks were told to rest, so    *)
(* that what it takes for idle is at rest (motor_driver.rs:459-493).        *)
THEOREM CompensatedAtRest == TrackSpec => CompensationHolds
<1> DEFINE Held == compensation' # compensation => AtRest /\ AtRest'
<1>1. ASSUME IInv, IInv', Rested, Rested', [Next]_motorVars PROVE [Held]_motorVars
  <2>1. CASE TakeCommand
    <3> SUFFICES ASSUME compensation' # compensation PROVE AtRest /\ AtRest'
      OBVIOUS
    <3>1. ~motorsActive /\ ~NextActive(Head(channel)) /\ motorsActive' = NextActive(Head(channel))
      BY <2>1 DEF TakeCommand, Recompensate
    <3>2. motion = Both(0) /\ motion' = Both(0)
      BY <1>1, <3>1 DEF Rested, Idle
    <3> QED BY <1>1, <3>2, StillIsAtRest, StillIsAtRestNext
  <2>2. CASE DriverStarts
    <3>1. duty = Both(0) /\ duty' = duty
      BY <1>1, <2>2 DEF DriverStarts, IInv, SilentUntilPowered
    <3> QED BY <3>1 DEF AtRest
  <2>3. CASE UNCHANGED motorVars
    BY <2>3
  <2>4. CASE SendAny \/ SupplyRest \/ \E v \in Voltages : Measure(v)
    <3>1. UNCHANGED driverVars
      BY <2>4 DEF SendAny, SupplyRest, RaiseMeasured, FlashAnswers, HandleBatteryMeasured,
         LoadMotorCalibration, Measure
    <3> QED BY <3>1 DEF driverVars
  <2> QED BY <1>1, <2>1, <2>2, <2>3, <2>4 DEF Next, DriverStep
<1>2. Control /\ IInv /\ IInv' /\ Rested /\ Rested' /\ [TrackNext]_vars => [Held]_motorVars
  <2>1. UNCHANGED vars => UNCHANGED motorVars
    BY DEF vars
  <2> QED BY <1>1, <2>1, DriverMoves
<1> QED BY <1>2, ControlHolds, DriverInvariant, RestedHolds, PTL
        DEF TrackSpec, CompensationHolds

--------------------------------------------------------------------------------
(* Before the driver is up.                                                 *)

Still == driver = "waiting" => motion = Both(0)
RoundsUp == running # "none" /\ at[1] \in Rounds => driver = "up"
\* Of what waits for it only coast-and-avoid's first run drives the right track.
QueuedLeft == \A k \in 1..Len(channel) : channel[k][1] = "SetTracks" => channel[k][3] = 0
Early == driver = "waiting" => QueuedLeft \/ at = <<"CoastAndAvoid", 7>>

LEMMA WaitingMoves ==
  ASSUME Control, IInv, TrackNext, driver' = "waiting"
  PROVE  /\ driver = "waiting" /\ motion' = motion
         /\ \/ channel' = channel
            \/ Sends /\ channel' = Append(channel, Here.what) /\ Here.what \in Command
            \/ \E c \in Command : channel' = Append(channel, c) /\ c[1] # "SetTracks"
<1>1. driver = "waiting"
  BY DriverStays DEF IInv, ModeInv
<1>2. CASE channel' = channel /\ UNCHANGED <<motion, standby, driver>>
  BY <1>1, <1>2
<1>3. CASE Sends /\ Here.what \in Command /\ channel' = Append(channel, Here.what)
  BY <1>1, <1>3, DriverUnmoved DEF Sends
<1>4. CASE UNCHANGED driverVars /\ \E c \in Command : /\ c \notin Tracks
                                                      /\ channel' = Append(channel, c)
  <2>1. \A c \in Command : c \notin Tracks => c[1] # "SetTracks"
    BY DEF Tracks, TrackWords
  <2> QED BY <1>1, <1>4, <2>1, DriverUnmoved
<1>5. CASE UNCHANGED driverVars /\ \E c \in Rest : channel' = Append(channel, c)
  <2>1. \A c \in Rest : c \in Command /\ c[1] # "SetTracks"
    BY CommandsExist DEF Rest, BrakeAll, CoastAll
  <2> QED BY <1>1, <1>5, <2>1, DriverUnmoved
<1>6. ~TakeCommand
  BY <1>1 DEF TakeCommand
<1> QED BY <1>2, <1>3, <1>4, <1>5, <1>6, QueueMoves

LEMMA StillKept ==
  ASSUME Control, IInv, Still, TrackNext
  PROVE  Still'
BY WaitingMoves DEF Still

LEMMA RoundsUpKept ==
  ASSUME Control, IInv, LongWaited, RoundsUp, TrackNext
  PROVE  RoundsUp'
<1> SUFFICES ASSUME running' # "none", at'[1] \in Rounds PROVE driver = "up"
  BY DriverStays DEF RoundsUp
<1>1. CASE Starts
  <2>1. PICK p \in Started : at' = <<p, 1>>
    BY <1>1 DEF Starts, Start
  <2>2. p \notin Rounds
    BY StartedAssumption DEF Rounds
  <2> QED BY <2>1, <2>2
<1>2. CASE Sends \/ Passes
  <2>1. running # "none" /\ Proceed /\ Here.do \notin {"End", "Repeat"}
    BY <1>2 DEF Sends, Passes
  <2>2. at'[1] = at[1]
    BY <2>1, ProceedGoesOn
  <2> QED BY <2>1, <2>2 DEF RoundsUp
<1>3. CASE Diverts
  <2>1. running # "none" /\ at'[1] = Here.orElse
    BY <1>3 DEF Diverts, Divert
  <2>2. LongBefore(Script[at[1]], at[2])
    BY <1>3, <2>1, HereIs DEF Diverts, Shape, Here, Control
  <2> QED BY <2>1, <2>2 DEF LongWaited, Says, LongBefore
<1>4. CASE EndProcedure
  BY <1>4, EndPlaced
<1>5. CASE Meanwhile
  BY <1>5 DEF Meanwhile, RoundsUp
<1> QED BY <1>1, <1>2, <1>3, <1>4, <1>5, TrackSteps

LEMMA EarlyRuns ==
  ASSUME Control, LongWaited, RoundsUp, Sends, driver = "waiting",
         Here.what[1] = "SetTracks"
  PROVE  Here.what[3] = 0 \/ at' = <<"CoastAndAvoid", 7>>
<1>1. running # "none" /\ StartsTrack(Here) /\ at' = <<at[1], at[2] + 1>>
  BY DEF Sends, StartsTrack, Proceed
<1>2. RunMeant(at[1], Script[at[1]], at[2]) /\ Here = Script[at[1]][at[2]]
  BY <1>1, HereIs DEF Shape, Here, Control
<1>3. ~LongBefore(Script[at[1]], at[2]) /\ at[1] \notin Rounds
  BY <1>1 DEF LongWaited, Says, LongBefore, RoundsUp
<1>4. CASE at[1] = "CoastAndAvoid" /\ at[2] = 6
  BY <1>1, <1>4
<1>5. CASE at[1] = "MotorCalibration" /\ at[2] = 13
  <2>1. PICK side \in Track : 13 = Base(side) + 9 /\ Here.what = RunOf(side)
    BY <1>2, <1>5 DEF RunMeant
  <2>2. side = "Left"
    BY <2>1 DEF Base, Track
  <2> QED BY <2>1, <2>2 DEF RunOf, SetTracks
<1> QED BY <1>2, <1>3, <1>4, <1>5 DEF RunMeant

LEMMA EarlyKept ==
  ASSUME Control, IInv, LongWaited, RoundsUp, Early, TrackNext
  PROVE  Early'
<1> SUFFICES ASSUME driver' = "waiting"
             PROVE  QueuedLeft' \/ at' = <<"CoastAndAvoid", 7>>
  BY DEF Early
<1>1. driver = "waiting"
  BY WaitingMoves
<1>2. CASE at = <<"CoastAndAvoid", 7>>
  <2>1. at[1] = "CoastAndAvoid" /\ at[2] = 7 /\ at # Nowhere
    BY <1>2 DEF Nowhere
  <2>2. running # "none"
    BY <2>1 DEF Control, Placed
  <2>3. Here = Statement("Watch", "none", "CoastStopped")
    <3> DEFINE s == CoastAndAvoid
               r == CoastRound(TRUE)
    <3>1. Follows(s, r, 4, 18)
      BY CoastAndAvoidIs DEF Follows
    <3>2. r[3] = Statement("Watch", "none", "CoastStopped")
      BY CoastRoundIs
    <3>3. Here = s[7]
      BY <2>1, ScriptIs DEF Here
    <3> HIDE DEF s, r
    <3>4. s[4 + 3] = r[3]
      BY <3>1 DEF Follows
    <3>5. s[7] = r[3]
      BY <3>4
    <3> QED BY <3>2, <3>3, <3>5
  <2>4. Here.do = "Watch"
    BY <2>3, Kinds
  <2>5. ~Elapsed("long")
    BY <1>1 DEF Elapsed
  <2>6. ~Passes /\ ~Diverts /\ ~Sends
    BY <2>4, <2>5 DEF Passes, Diverts, Sends
  <2>7. ~EndProcedure
    BY <2>4, EndIsMeant
  <2>8. ~Starts
    BY <2>2 DEF Starts, Start
  <2> QED BY <1>2, <2>6, <2>7, <2>8, TrackSteps DEF Meanwhile
<1>3. CASE QueuedLeft
  <2>0. channel \in Seq(Command)
    BY DEF IInv, ChannelInv
  <2>1. ASSUME NEW c \in Command, channel' = Append(channel, c),
               c[1] = "SetTracks" => c[3] = 0
        PROVE  QueuedLeft'
    <3>1. \A k \in 1..Len(channel') :
             \/ k \in 1..Len(channel) /\ channel'[k] = channel[k]
             \/ channel'[k] = c
      BY <2>0, <2>1
    <3> QED BY <1>3, <2>1, <3>1 DEF QueuedLeft
  <2>2. CASE channel' = channel
    BY <1>3, <2>2 DEF QueuedLeft
  <2>3. CASE Sends /\ channel' = Append(channel, Here.what) /\ Here.what \in Command
    <3>1. CASE at' = <<"CoastAndAvoid", 7>>
      BY <3>1
    <3>2. CASE at' # <<"CoastAndAvoid", 7>>
      <4>1. Here.what[1] = "SetTracks" => Here.what[3] = 0
        BY <1>1, <2>3, <3>2, EarlyRuns
      <4>2. PICK c \in Command : c = Here.what /\ channel' = Append(channel, c)
        BY <2>3
      <4> QED BY <2>1, <4>1, <4>2
    <3> QED BY <3>1, <3>2
  <2>4. CASE \E c \in Command : channel' = Append(channel, c) /\ c[1] # "SetTracks"
    BY <2>1, <2>4
  <2> QED BY <2>2, <2>3, <2>4, WaitingMoves
<1> QED BY <1>1, <1>2, <1>3 DEF Early

Awakening == Still /\ RoundsUp /\ Early

LEMMA AwakeningHolds == TrackSpec => []Awakening
<1>1. ProcedureInit => Awakening
  BY DEF ProcedureInit, Init, Awakening, Still, RoundsUp, Early, QueuedLeft
<1>2. Control /\ IInv /\ Followed /\ Awakening /\ [TrackNext]_vars => Awakening'
  <2>1. ASSUME Awakening, UNCHANGED vars PROVE Awakening'
    <3>1. UNCHANGED <<channel, motion, driver, running, at>>
      BY <2>1 DEF vars, motorVars, driverVars, outputVars, procedureVars
    <3> QED BY <2>1, <3>1 DEF Awakening, Still, RoundsUp, Early, QueuedLeft
  <2>2. ASSUME Control, IInv, Followed, Awakening, TrackNext PROVE Awakening'
    BY <2>2, StillKept, RoundsUpKept, EarlyKept DEF Followed, Awakening
  <2> QED BY <2>1, <2>2
<1> QED BY <1>1, <1>2, ControlHolds, DriverInvariant, FollowedHolds, PTL DEF TrackSpec

--------------------------------------------------------------------------------
(* The pulses of a track's run are its own.                                 *)

\* Only this track turns, now and by what the driver has yet to take.
OnlyTurns(side) ==
    /\ \A t \in Track : t # side => motion[t] = 0
    /\ \A k \in 1..Len(channel) : channel[k][1] = "SetTracks" =>
          \A t \in Track : t # side => Said(channel[k])[t] = 0
TurnsInTurn ==
    at[1] = "MotorCalibration" =>
        /\ at[2] <= 17 => OnlyTurns("Left")
        /\ at[2] \in 18..30 => OnlyTurns("Right")

LEMMA MeasurePlace ==
  ASSUME NEW side \in Track, NEW j \in 1..13,
         at[1] = "MotorCalibration", at[2] = Base(side) + j
  PROVE  Here = MeasureTrack(side)[j]
BY MotorCalibrationIs, ScriptIs DEF Here

LEMMA OnlyTurnsKept ==
  ASSUME Control, IInv, TrackNext, NEW side \in Track, OnlyTurns(side),
         Sends /\ Here.what[1] = "SetTracks" =>
            \A t \in Track : t # side => Said(Here.what)[t] = 0
  PROVE  OnlyTurns(side)'
<1>0. channel \in Seq(Command)
  BY DEF IInv, ChannelInv
<1>1. ASSUME NEW c \in Command, channel' = Append(channel, c), motion' = motion,
             c[1] = "SetTracks" => \A t \in Track : t # side => Said(c)[t] = 0
      PROVE  OnlyTurns(side)'
  <2>1. \A k \in 1..Len(channel') :
           \/ k \in 1..Len(channel) /\ channel'[k] = channel[k]
           \/ channel'[k] = c
    BY <1>0, <1>1
  <2> QED BY <1>1, <2>1 DEF OnlyTurns
<1>2. CASE channel' = channel /\ motion' = motion
  BY <1>2 DEF OnlyTurns
<1>3. CASE Sends /\ Here.what \in Command /\ channel' = Append(channel, Here.what)
  <2>1. PICK c \in Command : c = Here.what
    BY <1>3
  <2>2. motion' = motion
    BY <1>3, DriverUnmoved DEF Sends
  <2> QED BY <1>1, <1>3, <2>1, <2>2
<1>4. CASE UNCHANGED driverVars /\ \E c \in Command : /\ c \notin Tracks
                                                      /\ channel' = Append(channel, c)
  <2>1. \A c \in Command : c \notin Tracks => c[1] # "SetTracks"
    BY DEF Tracks, TrackWords
  <2> QED BY <1>1, <1>4, <2>1, DriverUnmoved
<1>5. CASE UNCHANGED driverVars /\ \E c \in Rest : channel' = Append(channel, c)
  <2>1. \A c \in Rest : c \in Command /\ c[1] # "SetTracks"
    BY CommandsExist DEF Rest, BrakeAll, CoastAll
  <2> QED BY <1>1, <1>5, <2>1, DriverUnmoved
<1>6. CASE TakeCommand
  <2> DEFINE h == Head(channel)
             t == Tail(channel)
  <2>1. /\ channel # <<>> /\ channel' = t /\ h \in Command
        /\ h \in Tracks => motion' = Said(h)
        /\ h \notin Tracks => motion' = motion
    BY <1>6, TakenMoves DEF IInv
  <2>2. h = channel[1] /\ \A k \in 1..Len(t) : k + 1 \in 1..Len(channel) /\ t[k] = channel[k + 1]
    BY <1>0, <2>1
  <2>3. 1 \in 1..Len(channel)
    BY <1>0, <2>1
  <2>4. CASE h[1] = "SetTracks"
    <3>1. h \in Tracks
      BY <2>1, <2>4 DEF Tracks, TrackWords
    <3> HIDE DEF h, t
    <3> QED BY <2>1, <2>2, <2>3, <2>4, <3>1 DEF OnlyTurns
  <2>5. CASE h[1] # "SetTracks" /\ h \in Tracks
    <3>1. h[2] = 0 /\ h[3] = 0
      BY <2>1, <2>5 DEF Tracks, TrackWords, Command
    <3>2. \A s \in Track : Said(h)[s] = 0
      BY <3>1 DEF Said, Sides
    <3> HIDE DEF h, t
    <3> QED BY <2>1, <2>2, <2>5, <3>2 DEF OnlyTurns
  <2>6. CASE h \notin Tracks
    <3> HIDE DEF h, t
    <3> QED BY <2>1, <2>2, <2>6 DEF OnlyTurns
  <2> QED BY <2>4, <2>5, <2>6
<1> QED BY <1>2, <1>3, <1>4, <1>5, <1>6, QueueMoves

\* With no procedure the tracks stand, but for what waits for the driver.
LEMMA StartsStanding ==
  ASSUME Control, IInv, Ended, Awakening, running = "none", ExecutorIdle
  PROVE  OnlyTurns("Left")
<1>1. TracksTold(Rest)
  BY DEF Ended, Resting
<1>2. driver \in {"waiting", "up"}
  BY DEF IInv, ModeInv
<1>3. CASE driver = "up"
  <2>1. channel = <<>>
    BY <1>3 DEF ExecutorIdle
  <2>2. motion = Both(0)
    BY <1>1, <2>1, ToldIsDone, RestIsRest
  <2> QED BY <2>1, <2>2 DEF OnlyTurns, Both
<1>4. CASE driver = "waiting"
  <2>1. motion = Both(0)
    BY <1>4 DEF Awakening, Still
  <2>2. at # <<"CoastAndAvoid", 7>>
    BY DEF Control, Placed, Nowhere
  <2>3. QueuedLeft
    BY <1>4, <2>2 DEF Awakening, Early
  <2>4. \A t \in Track : t # "Left" => t = "Right"
    BY DEF Track
  <2>5. \A c : Said(c)["Right"] = c[3]
    BY DEF Said, Sides, Track
  <2> QED BY <2>1, <2>3, <2>4, <2>5 DEF OnlyTurns, QueuedLeft, Both
<1> QED BY <1>2, <1>3, <1>4

\* Between the runs the left track has come to rest.
LEMMA RightStarts ==
  ASSUME Control, IInv, Followed, Sends \/ Passes,
         at[1] = "MotorCalibration", at[2] = 17
  PROVE  OnlyTurns("Right")'
<1>1. Here = WaitOr("MotorStopped")
  <2>1. 13 \in 1..13 /\ "Left" \in Track /\ at[2] = Base("Left") + 13
    BY DEF Base, Track
  <2> QED BY <2>1, MeasurePlace, MeasureTrackIs
<1>2. Here.do = "WaitOr" /\ Here.what = "long"
  BY <1>1 DEF WaitOr, Statement
<1>3. /\ Passes /\ Elapsed("long") /\ channel' = channel /\ motion' = motion
      /\ running # "none"
  BY <1>2, DriverUnmoved DEF Sends, Passes
<1>4. channel = <<>>
  BY <1>3 DEF Elapsed, ExecutorIdle
<1>5. Before(Script[at[1]], 17, TrackSt, {Motor(CoastAll)})
  <2> DEFINE s == MotorCalibration
  <2>1. 12 \in 1..13 /\ "Left" \in Track /\ Base("Left") = 4
    BY DEF Base, Track
  <2>2. s[4 + 12] = MeasureTrack("Left")[12]
    BY <2>1, MotorCalibrationIs
  <2>3. MeasureTrack("Left")[12] = Motor(CoastAll)
    BY <2>1, MeasureTrackIs
  <2>4. Script[at[1]] = s
    BY ScriptIs
  <2> HIDE DEF s
  <2>5. s[16] = Motor(CoastAll)
    BY <2>2, <2>3
  <2> QED BY <2>4, <2>5, BeforeAt
<1>6. CoastAll \in Tracks /\ running \in Calibrations
  <2>1. Owner(at[1]) = "MotorCalibration"
    BY DEF Owner
  <2> QED BY <1>3, <2>1, HereIs, CommandsApart DEF Rest, Calibrations, Control
<1>7. TracksTold({CoastAll})
  <2>1. TracksTold(Expected(CoastAll))
    BY <1>3, <1>5, <1>6 DEF Followed, TracksAsSaid, Says
  <2> QED BY <1>6, <2>1 DEF Expected
<1>8. motion = Both(0)
  BY <1>4, <1>7, ToldIsDone, RestIsRest DEF Rest
<1> QED BY <1>3, <1>4, <1>8 DEF OnlyTurns, Both

LEMMA TurnsInTurnKept ==
  ASSUME Control, IInv, Followed, Ended, Awakening, TurnsInTurn, TrackNext
  PROVE  TurnsInTurn'
<1> SUFFICES ASSUME at'[1] = "MotorCalibration"
             PROVE  /\ at'[2] <= 17 => OnlyTurns("Left")'
                    /\ at'[2] \in 18..30 => OnlyTurns("Right")'
  BY DEF TurnsInTurn
<1>1. CASE Starts
  <2>1. running = "none" /\ ExecutorIdle /\ UNCHANGED <<channel, motion>> /\ at'[2] = 1
    BY <1>1 DEF Starts, Start, motorVars, driverVars, outputVars
  <2>2. OnlyTurns("Left")
    BY <2>1, StartsStanding
  <2> QED BY <2>1, <2>2 DEF OnlyTurns
<1>2. CASE Sends \/ Passes
  <2>1. running # "none" /\ Proceed /\ Here.do \notin {"End", "Repeat"}
    BY <1>2 DEF Sends, Passes
  <2>2. at'[1] = at[1] /\ at'[2] = at[2] + 1 /\ at[2] \in Nat
    BY <2>1, ProceedGoesOn, HereIs DEF Control
  <2>3. CASE at[2] = 17
    BY <1>2, <2>2, <2>3, RightStarts
  <2>4. CASE at[2] # 17
    <3>1. ASSUME Sends, Here.what[1] = "SetTracks"
          PROVE  \E side \in Track : at[2] = Base(side) + 9 /\ Here.what = RunOf(side)
      <4>1. StartsTrack(Here)
        BY <3>1 DEF Sends, StartsTrack
      <4> QED BY <2>1, <2>2, <4>1, HereIs DEF Shape, RunMeant, Here, Control
    <3>2. \A side, t \in Track : t # side => Said(RunOf(side))[t] = 0
      BY DEF Said, RunOf, Sides, SetTracks, Track
    <3>3. ASSUME at[2] <= 16 PROVE OnlyTurns("Left")'
      <4>1. \A side \in Track : at[2] = Base(side) + 9 => side = "Left"
        BY <3>3 DEF Base, Track
      <4>2. OnlyTurns("Left")
        BY <2>2, <3>3 DEF TurnsInTurn
      <4>3. "Left" \in Track
        BY DEF Track
      <4> QED BY <3>1, <3>2, <4>1, <4>2, <4>3, OnlyTurnsKept
    <3>4. ASSUME at[2] \in 18..29 PROVE OnlyTurns("Right")'
      <4>1. \A side \in Track : at[2] = Base(side) + 9 => side = "Right"
        BY <3>4 DEF Base, Track
      <4>2. OnlyTurns("Right")
        BY <2>2, <3>4 DEF TurnsInTurn
      <4>3. "Right" \in Track
        BY DEF Track
      <4> QED BY <3>1, <3>2, <4>1, <4>2, <4>3, OnlyTurnsKept
    <3>5. /\ at'[2] <= 17 => at[2] <= 16
          /\ at'[2] \in 18..30 => at[2] \in 18..29
      BY <2>2, <2>4
    <3> QED BY <3>3, <3>4, <3>5
  <2> QED BY <2>3, <2>4
<1>3. CASE Diverts
  <2>1. at'[1] = Here.orElse /\ running # "none"
    BY <1>3 DEF Diverts, Divert
  <2>2. Here.orElse \notin Procedures
    BY <1>3, <2>1, HereIs DEF Diverts, Shape, Here, Control
  <2> QED BY <2>1, <2>2 DEF Procedures
<1>4. CASE EndProcedure
  BY <1>4, EndPlaced DEF Nowhere
<1>5. CASE Meanwhile
  <2>1. at' = at /\ ~Sends
    BY <1>5, StandsStill DEF Meanwhile
  <2>2. "Left" \in Track /\ "Right" \in Track
    BY DEF Track
  <2> QED BY <2>1, <2>2, OnlyTurnsKept DEF TurnsInTurn
<1> QED BY <1>1, <1>2, <1>3, <1>4, <1>5, TrackSteps

LEMMA TurnsInTurnHolds == TrackSpec => []TurnsInTurn
<1>1. ProcedureInit => TurnsInTurn
  BY DEF ProcedureInit, TurnsInTurn, Nowhere
<1>2. /\ Control /\ IInv /\ Followed /\ Ended /\ Awakening
      /\ TurnsInTurn /\ [TrackNext]_vars
      => TurnsInTurn'
  <2>1. ASSUME TurnsInTurn, UNCHANGED vars PROVE TurnsInTurn'
    <3>1. UNCHANGED <<at, channel, motion>>
      BY <2>1 DEF vars, procedureVars, motorVars, driverVars, outputVars
    <3> QED BY <2>1, <3>1 DEF TurnsInTurn, OnlyTurns
  <2> QED BY <2>1, TurnsInTurnKept
<1> QED BY <1>1, <1>2, ControlHolds, DriverInvariant, FollowedHolds, EndedHolds,
       AwakeningHolds, PTL DEF TrackSpec

\* What the steps of the procedure do to the sampler and what it counted.
LEMMA ProcedureSenses ==
  ASSUME Control, ProcedureStep
  PROVE  /\ counter' = counter
         /\ IF At("Encoder") THEN encoderChannel' = Append(encoderChannel, Here.what)
            ELSE encoderChannel' = encoderChannel
         /\ latest' = IF At("Clear") THEN Nothing ELSE latest
         /\ measured' = IF At("ReadPulses")
                        THEN [measured EXCEPT ![Here.what] =
                                 IF latest = Nothing THEN {} ELSE latest[Here.what]]
                        ELSE measured
<1>1. CASE SendMotor \/ SendFactors
  BY <1>1 DEF SendMotor, SendFactors, At, sensorVars, resultVars
<1>2. CASE SendEncoder
  BY <1>2 DEF SendEncoder, At, resultVars, What
<1>3. CASE ClearMeasurement
  BY <1>3 DEF ClearMeasurement, At, resultVars
<1>4. CASE ReadPulses
  BY <1>4 DEF ReadPulses, At, sensorVars, What
<1>5. CASE WaitEnds \/ WaitOrEnds \/ CheckStop \/ ObstacleSeen \/ RepeatRound
           \/ EndProcedure \/ RotationEnds \/ VerifyEnds
  BY <1>5 DEF WaitEnds, WaitOrEnds, CheckStop, ObstacleSeen, RepeatRound, EndProcedure,
     RotationEnds, VerifyEnds, At, Undisturbed, sensorVars, resultVars
<1>6. CASE Compute \/ MeasureEnds
  BY <1>6 DEF Compute, MeasureEnds, At, sensorVars
<1> QED BY <1>1, <1>2, <1>3, <1>4, <1>5, <1>6 DEF ProcedureStep

LEMMA OthersSense ==
  ASSUME Stop \/ (Awaiting /\ OtherTasks)
  PROVE  /\ UNCHANGED <<running, at, outcome, measured>> /\ Awaiting
         /\ \/ UNCHANGED <<encoderChannel, counter, latest>>
            \/ HandleEncoderCommand \/ Sample \/ TracksTurn
<1>1. CASE Stop
  BY <1>1 DEF Stop, sensorVars, resultVars, Awaiting
<1>2. CASE Awaiting /\ OtherTasks
  BY <1>2 DEF OtherTasks, SamplerStep, HandleEncoderCommand, SleepInterval, Sample,
     TracksTurn, SensorFalls, ObstacleRaised, HandleInterrupt, SamplerOnly, Alone,
     BatteryTimerEnds, procedureVars, sensorVars, resultVars
<1> QED BY <1>1, <1>2

\* From its reset to its reading the counters hold this track's run alone, and
\* so does, once it was cleared, the cached measurement.
CountsOnly(counts, side) == \A t \in Track : counts[t] \subseteq {side}
CountedFor(side) ==
    /\ at[2] = Base(side) + 3 => encoderChannel = <<>>
    /\ at[2] = Base(side) + 4 =>
          \/ encoderChannel = <<"Reset">>
          \/ encoderChannel = <<>> /\ CountsOnly(counter, side)
    /\ at[2] \in (Base(side) + 5)..(Base(side) + 11) => CountsOnly(counter, side)
    /\ at[2] \in (Base(side) + 6)..(Base(side) + 11) =>
          latest = Nothing \/ CountsOnly(latest, side)
CountedAlone == at[1] = "MotorCalibration" => \A side \in Track : CountedFor(side)

LEMMA CountingGoesOn ==
  ASSUME Control, CountedAlone, ProcedureStep, NEW side \in Track,
         at[1] = "MotorCalibration", Sends \/ Passes
  PROVE  CountedFor(side)'
<1> DEFINE b == Base(side)
           m == MeasureTrack(side)
<1>1. running # "none" /\ Proceed /\ Here.do \notin {"End", "Repeat"}
  BY DEF Sends, Passes
<1>2. at'[2] = at[2] + 1 /\ at[2] \in Nat
  BY <1>1, ProceedGoesOn, HereIs DEF Control
<1>3. CountedFor(side) /\ b \in Nat
  BY DEF CountedAlone, Base
<1>4. counter' = counter
  BY ProcedureSenses
<1>5. \A j \in 1..13 : at[2] = b + j => Here = m[j]
  BY MeasurePlace
<1>6. /\ m[2] = Wait /\ m[3] = Encoder("Reset") /\ m[4] = Wait
      /\ m[5] = Statement("Clear", "none", "none")
  BY MeasureTrackIs
<1> HIDE DEF b, m
<1>7. CASE at[2] = b + 2
  <2>1. Here = Wait
    BY <1>5, <1>6, <1>7
  <2>2. Here.do = "Wait"
    BY <2>1 DEF Wait, Statement
  <2>3. encoderChannel = <<>>
    BY <2>2 DEF Sends, Passes, Elapsed, ExecutorIdle
  <2>4. encoderChannel' = encoderChannel
    BY <2>2, ProcedureSenses DEF At
  <2>5. at'[2] = b + 3
    BY <1>2, <1>3, <1>7
  <2> QED BY <1>3, <2>3, <2>4, <2>5 DEF CountedFor, b
<1>8. CASE at[2] = b + 3
  <2>1. Here = Encoder("Reset")
    BY <1>5, <1>6, <1>8
  <2>2. At("Encoder") /\ Here.what = "Reset"
    BY <1>1, <2>1 DEF Encoder, Statement, At
  <2>3. encoderChannel = <<>>
    BY <1>3, <1>8 DEF CountedFor, b
  <2>4. encoderChannel' = <<"Reset">>
    BY <2>2, <2>3, ProcedureSenses
  <2>5. at'[2] = b + 4
    BY <1>2, <1>3, <1>8
  <2> QED BY <1>3, <2>4, <2>5 DEF CountedFor, b
<1>9. CASE at[2] = b + 4
  <2>1. Here = Wait
    BY <1>5, <1>6, <1>9
  <2>2. Here.do = "Wait"
    BY <2>1 DEF Wait, Statement
  <2>3. encoderChannel = <<>>
    BY <2>2 DEF Sends, Passes, Elapsed, ExecutorIdle
  <2>4. CountsOnly(counter, side)
    BY <1>3, <1>9, <2>3 DEF CountedFor, b
  <2>5. at'[2] = b + 5
    BY <1>2, <1>3, <1>9
  <2> QED BY <1>3, <1>4, <2>4, <2>5 DEF CountedFor, CountsOnly, b
<1>10. CASE at[2] = b + 5
  <2>1. Here = Statement("Clear", "none", "none")
    BY <1>5, <1>6, <1>10
  <2>2. At("Clear")
    BY <1>1, <2>1 DEF Statement, At
  <2>3. latest' = Nothing
    BY <2>2, ProcedureSenses
  <2>4. Nothing' = Nothing
    BY DEF Nothing
  <2>5. CountsOnly(counter, side)
    BY <1>3, <1>10 DEF CountedFor, b
  <2>6. at'[2] = b + 6
    BY <1>2, <1>3, <1>10
  <2> QED BY <1>3, <1>4, <2>3, <2>4, <2>5, <2>6 DEF CountedFor, CountsOnly, b
<1>11. CASE at[2] \in (b + 6)..(b + 10)
  <2>1. CountsOnly(counter, side) /\ (latest = Nothing \/ CountsOnly(latest, side))
    BY <1>3, <1>11 DEF CountedFor, b
  <2>2. latest' = Nothing \/ latest' = latest
    BY ProcedureSenses
  <2>3. Nothing' = Nothing
    BY DEF Nothing
  <2>4. at'[2] \in (b + 7)..(b + 11)
    BY <1>2, <1>3, <1>11
  <2> QED BY <1>3, <1>4, <2>1, <2>2, <2>3, <2>4 DEF CountedFor, CountsOnly, b
<1>12. CASE at[2] \notin (b + 2)..(b + 10)
  <2>1. at'[2] \notin (b + 3)..(b + 11)
    BY <1>2, <1>3, <1>12
  <2> QED BY <1>2, <1>3, <2>1 DEF CountedFor, b
<1> QED BY <1>2, <1>3, <1>7, <1>8, <1>9, <1>10, <1>11, <1>12

LEMMA CountingStays ==
  ASSUME Control, IInv, TurnsInTurn, CountedAlone, NEW side \in Track,
         at[1] = "MotorCalibration", Stop \/ (Awaiting /\ OtherTasks)
  PROVE  CountedFor(side)'
<1> DEFINE b == Base(side)
<1>1. at' = at /\ running' = running /\ Awaiting
  BY OthersSense
<1>2. running # "none" /\ at[2] \in Nat /\ b \in Nat
  <2>1. running # "none"
    BY DEF Control, Placed, Nowhere
  <2> QED BY <2>1, HereIs DEF Control, Base
<1>3. CountedFor(side)
  BY DEF CountedAlone
<1>4. at[2] # b + 3
  <2> SUFFICES ASSUME at[2] = b + 3 PROVE FALSE
    OBVIOUS
  <2>1. Here = Encoder("Reset")
    <3>1. 3 \in 1..13
      OBVIOUS
    <3> QED BY <3>1, MeasurePlace, MeasureTrackIs
  <2>2. Here.do = "Encoder"
    BY <2>1 DEF Encoder, Statement
  <2> QED BY <1>1, <1>2, <2>2 DEF Awaiting, AtAwait, Blocked, At
<1>5. Nothing' = Nothing
  BY DEF Nothing
<1>6. CASE UNCHANGED <<encoderChannel, counter, latest>>
  BY <1>1, <1>3, <1>5, <1>6 DEF CountedFor, CountsOnly
<1>7. CASE HandleEncoderCommand
  <2>1. /\ encoderChannel # <<>> /\ encoderChannel' = Tail(encoderChannel)
        /\ latest' = latest
        /\ counter' = IF Head(encoderChannel) = "Reset" THEN Both({}) ELSE counter
    BY <1>7 DEF HandleEncoderCommand
  <2>2. CountsOnly(Both({}), side)
    BY DEF CountsOnly, Both
  <2>3. CountsOnly(counter, side) => CountsOnly(counter', side)
    BY <2>1, <2>2
  <2>4. encoderChannel = <<"Reset">> => encoderChannel' = <<>> /\ CountsOnly(counter', side)
    BY <2>1, <2>2
  <2> HIDE DEF b
  <2> QED BY <1>1, <1>2, <1>3, <1>4, <1>5, <2>1, <2>3, <2>4 DEF CountedFor, CountsOnly, b
<1>8. CASE Sample
  <2>1. latest' = counter /\ UNCHANGED <<encoderChannel, counter>>
    BY <1>8 DEF Sample
  <2>2. at[2] \in (b + 6)..(b + 11) => at[2] \in (b + 5)..(b + 11)
    BY <1>2
  <2> HIDE DEF b
  <2> QED BY <1>1, <1>3, <2>1, <2>2 DEF CountedFor, CountsOnly, b
<1>9. CASE TracksTurn
  <2>1. UNCHANGED <<encoderChannel, latest>>
    BY <1>9 DEF TracksTurn
  <2>2. PICK t \in Track, run \in Track :
          duty[run] > 0 /\ counter' = [counter EXCEPT ![t] = @ \cup {run}]
    BY <1>9 DEF TracksTurn
  <2>3. motion[run] # 0
    BY <2>2 DEF IInv, OutputInv, TracksFollowCommand
  <2>4. at[2] \in (b + 4)..(b + 11) => run = side
    <3>1. side = "Left" /\ at[2] \in (b + 4)..(b + 11) => at[2] <= 17
      BY DEF Base
    <3>2. side = "Right" /\ at[2] \in (b + 4)..(b + 11) => at[2] \in 18..30
      BY DEF Base
    <3>3. side = "Left" \/ side = "Right"
      BY DEF Track
    <3> HIDE DEF b
    <3> QED BY <2>3, <3>1, <3>2, <3>3 DEF TurnsInTurn, OnlyTurns
  <2>5. run = side /\ CountsOnly(counter, side) => CountsOnly(counter', side)
    BY <2>2 DEF CountsOnly, Control, TrackTypes
  <2>6. /\ at[2] = b + 4 => at[2] \in (b + 4)..(b + 11)
        /\ at[2] \in (b + 5)..(b + 11) => at[2] \in (b + 4)..(b + 11)
    BY <1>2
  <2> HIDE DEF b
  <2> QED BY <1>1, <1>3, <1>4, <1>5, <2>1, <2>4, <2>5, <2>6 DEF CountedFor, CountsOnly, b
<1> QED BY <1>6, <1>7, <1>8, <1>9, OthersSense

LEMMA CountedAloneKept ==
  ASSUME Control, IInv, TurnsInTurn, CountedAlone, TrackNext
  PROVE  CountedAlone'
<1> SUFFICES ASSUME at'[1] = "MotorCalibration", NEW side \in Track
             PROVE  CountedFor(side)'
  BY DEF CountedAlone
<1>1. CASE Starts
  <2>1. at'[2] = 1
    BY <1>1 DEF Starts, Start
  <2> QED BY <2>1 DEF CountedFor, Base
<1>2. CASE ProcedureStep
  <2>1. CASE Sends \/ Passes
    <3>1. running # "none" /\ Proceed /\ Here.do \notin {"End", "Repeat"}
      BY <2>1 DEF Sends, Passes
    <3>2. at[1] = "MotorCalibration"
      BY <3>1, ProceedGoesOn
    <3> QED BY <1>2, <2>1, <3>2, CountingGoesOn
  <2>2. CASE Diverts
    <3>1. at'[1] = Here.orElse /\ running # "none"
      BY <2>2 DEF Diverts, Divert
    <3>2. Here.orElse \notin Procedures
      BY <2>2, <3>1, HereIs DEF Diverts, Shape, Here, Control
    <3> QED BY <3>1, <3>2 DEF Procedures
  <2>3. CASE EndProcedure
    BY <2>3, EndPlaced DEF Nowhere
  <2> QED BY <1>2, <2>1, <2>2, <2>3, ProcedureSteps
<1>3. CASE Stop \/ (Awaiting /\ OtherTasks)
  <2>1. at' = at
    BY <1>3, OthersSense
  <2> QED BY <1>3, <2>1, CountingStays
<1> QED BY <1>1, <1>2, <1>3 DEF TrackNext, Starts

LEMMA PulsesKept ==
  ASSUME Control, CountedAlone, PulsesAreTheTracks, TrackNext
  PROVE  PulsesAreTheTracks'
<1>1. CASE Starts
  BY <1>1 DEF Starts, Start, PulsesAreTheTracks, Both
<1>2. CASE ProcedureStep
  <2>1. CASE At("ReadPulses")
    <3>1. PICK side \in Track : side = Here.what /\ at[2] = Base(side) + 11
                                /\ at[1] = "MotorCalibration"
      BY <2>1, ReadingIsMeant DEF PulsesMeant
    <3>2. at[2] \in (Base(side) + 6)..(Base(side) + 11)
      BY <3>1 DEF Base
    <3>3. latest = Nothing \/ latest[side] \subseteq {side}
      BY <3>1, <3>2 DEF CountedAlone, CountedFor, CountsOnly
    <3> DEFINE read == IF latest = Nothing THEN {} ELSE latest[side]
    <3>4. read \subseteq {side}
      BY <3>3
    <3>5. measured' = [measured EXCEPT ![side] = read]
      BY <1>2, <2>1, <3>1, ProcedureSenses
    <3> HIDE DEF read
    <3> QED BY <3>4, <3>5 DEF PulsesAreTheTracks, Control, TrackTypes
  <2>2. CASE ~At("ReadPulses")
    BY <1>2, <2>2, ProcedureSenses DEF PulsesAreTheTracks
  <2> QED BY <2>1, <2>2
<1>3. CASE Stop \/ (Awaiting /\ OtherTasks)
  BY <1>3, OthersSense DEF PulsesAreTheTracks
<1> QED BY <1>1, <1>2, <1>3 DEF TrackNext, Starts

(* The pulses a track is judged by were counted in its own run: the sampler *)
(* has taken its Reset before the cached measurement is cleared, and until  *)
(* the reading nothing but that track turns (motor.rs:177-222).             *)
THEOREM PulsesAreOwn == TrackSpec => []PulsesAreTheTracks
<1>1. ProcedureInit => CountedAlone /\ PulsesAreTheTracks
  BY DEF ProcedureInit, CountedAlone, PulsesAreTheTracks, Nowhere, Both
<1>2. /\ Control /\ IInv /\ TurnsInTurn
      /\ CountedAlone /\ PulsesAreTheTracks /\ [TrackNext]_vars
      => CountedAlone' /\ PulsesAreTheTracks'
  <2>1. ASSUME CountedAlone, PulsesAreTheTracks, UNCHANGED vars
        PROVE  CountedAlone' /\ PulsesAreTheTracks'
    <3>1. UNCHANGED <<at, encoderChannel, counter, latest, measured>>
      BY <2>1 DEF vars, procedureVars, sensorVars, resultVars
    <3>2. Nothing' = Nothing
      BY DEF Nothing
    <3> QED BY <2>1, <3>1, <3>2 DEF CountedAlone, CountedFor, CountsOnly, PulsesAreTheTracks
  <2> QED BY <2>1, CountedAloneKept, PulsesKept
<1> QED BY <1>1, <1>2, ControlHolds, DriverInvariant, TurnsInTurnHolds, PTL
        DEF TrackSpec
================================================================================
