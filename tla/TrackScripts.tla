------------------------------ MODULE TrackScripts ------------------------------
(****************************************************************************)
(* What the scripts of TrackProcedures say at every place, written down     *)
(* once so that a proof about their steps need not open them: first that a  *)
(* script is a sequence of statements and which one stands where; then what *)
(* stands last before a place; and from both, as Shape, what a statement of *)
(* a kind can rely on wherever it stands (ScriptShape, at the end).  These  *)
(* are facts about values alone, no step is taken here.                     *)
(****************************************************************************)
EXTENDS TrackProcedures, SequenceTheorems, TLAPS

--------------------------------------------------------------------------------
(* Commands, statements and names.                                          *)

Instructions ==
    {"Motor", "Encoder", "Wait", "WaitOr", "Check", "End", "Clear", "ReadPulses",
     "Compute", "SendFactors", "Measure", "Verify", "Rotate", "Watch", "Repeat"}
Names ==
    {"MotorCalibration", "RunStopped", "MotorStopped", "MotorFailed",
     "MagCalibration", "MagStopped", "MotorPhaseStopped", "VerifyFailed",
     "CoastAndAvoid", "RoundRight", "RoundLeft", "CoastStopped"}
Operands ==
    Command \cup 0..6
    \cup {"none", "short", "long", "Start", "Stop", "Reset", "Left", "Right",
          "Stopped", "Failed", "Complete", "ByHand",
          "ManualYaw", "ManualPitch", "ManualRoll"}
Scripted == [do : Instructions, what : Operands, orElse : Names \cup {"none"}]

LEMMA CommandsExist ==
  /\ \A l, r \in Speed : SetTracks(l, r) \in Command
  /\ CoastAll \in Command /\ BrakeAll \in Command
  /\ SetAllDriversEnable(TRUE) \in Command /\ SetAllDriversEnable(FALSE) \in Command
BY DEF Command, SetTracks, CoastAll, BrakeAll, SetAllDriversEnable

LEMMA StatementsExist ==
  /\ \A c \in Command : Motor(c) \in Scripted
  /\ \A c \in {"Start", "Stop", "Reset"} : Encoder(c) \in Scripted
  /\ Wait \in Scripted /\ WaitLong \in Scripted
  /\ \A o \in Names : WaitOr(o) \in Scripted /\ Check(o) \in Scripted
  /\ \A o \in {"Stopped", "Failed", "Complete", "ByHand"} : End(o) \in Scripted
  /\ \A o \in {"ManualYaw", "ManualPitch", "ManualRoll"} : Rotate(o) \in Scripted
  /\ \A d \in Instructions, w \in Operands, n \in Names \cup {"none"} :
        Statement(d, w, n) \in Scripted
<1> USE DEF Scripted, Statement, Names, Instructions, Operands
<1>1. \A c \in Command : Motor(c) \in Scripted
  BY DEF Motor
<1>2. \A c \in {"Start", "Stop", "Reset"} : Encoder(c) \in Scripted
  BY DEF Encoder
<1>3. Wait \in Scripted /\ WaitLong \in Scripted
  BY DEF Wait, WaitLong
<1>4. \A o \in Names : WaitOr(o) \in Scripted /\ Check(o) \in Scripted
  BY DEF WaitOr, Check
<1>5. \A o \in {"Stopped", "Failed", "Complete", "ByHand"} : End(o) \in Scripted
  BY DEF End
<1>6. \A o \in {"ManualYaw", "ManualPitch", "ManualRoll"} : Rotate(o) \in Scripted
  BY DEF Rotate
<1>7. \A d \in Instructions, w \in Operands, n \in Names \cup {"none"} :
        Statement(d, w, n) \in Scripted
  OBVIOUS
<1> QED BY <1>1, <1>2, <1>3, <1>4, <1>5, <1>6, <1>7

--------------------------------------------------------------------------------
(* Sequences that are joined.                                               *)

LEMMA Tuples ==
  ASSUME NEW S
  PROVE  /\ \A a \in S : <<a>> \in Seq(S)
         /\ \A a, b, c \in S : <<a, b, c>> \in Seq(S)
         /\ \A a, b, c, d \in S : <<a, b, c, d>> \in Seq(S)
         /\ \A a, b, c, d, e \in S : <<a, b, c, d, e>> \in Seq(S)
         /\ \A a, b, c, d, e, f \in S : <<a, b, c, d, e, f>> \in Seq(S)
         /\ \A a, b, c, d, e, f, g \in S : <<a, b, c, d, e, f, g>> \in Seq(S)
         /\ \A a, b, c, d, e, f, g, h, i, j \in S :
               <<a, b, c, d, e, f, g, h, i, j>> \in Seq(S)
         /\ \A a, b, c, d, e, f, g, h, i, j, k, l, m, n, o, p, q, r \in S :
               <<a, b, c, d, e, f, g, h, i, j, k, l, m, n, o, p, q, r>> \in Seq(S)
OBVIOUS

\* u is s of m statements followed by t of n.
Joins(u, s, t, m, n) ==
  /\ u \in Seq(Scripted) /\ Len(u) = m + n
  /\ \A i \in 1..m : u[i] = s[i]
  /\ \A i \in (m + 1)..(m + n) : u[i] = t[i - m]

LEMMA Joined ==
  ASSUME NEW s \in Seq(Scripted), NEW t \in Seq(Scripted),
         NEW m \in Nat, NEW n \in Nat, Len(s) = m, Len(t) = n
  PROVE  Joins(s \o t, s, t, m, n)
<1>1. Len(s) \in Nat /\ Len(t) \in Nat
  OBVIOUS
<1>2. Len(s \o t) = Len(s) + Len(t)
  BY <1>1, ConcatProperties
<1>3. Len(s \o t) = m + n
  BY <1>2
<1>4. \A i \in 1..Len(s) : (s \o t)[i] = s[i]
  BY <1>1, ConcatProperties
<1>5. \A i \in (Len(s) + 1)..(Len(s) + Len(t)) : (s \o t)[i] = t[i - Len(s)]
  BY <1>1, ConcatProperties
<1>6. s \o t \in Seq(Scripted)
  BY ConcatProperties
<1> QED BY <1>1, <1>3, <1>4, <1>5, <1>6 DEF Joins

\* t stands in u behind its first m.
Follows(u, t, m, n) == \A i \in 1..n : u[m + i] = t[i]

LEMMA JoinsAt ==
  ASSUME NEW u, NEW s, NEW t, NEW m \in Nat, NEW n \in Nat, Joins(u, s, t, m, n)
  PROVE  (\A i \in 1..m : u[i] = s[i]) /\ Follows(u, t, m, n)
<1>1. \A i \in 1..m : u[i] = s[i]
  BY DEF Joins
<1>2. ASSUME NEW i \in 1..n
      PROVE  u[m + i] = t[i]
  <2>1. m + i \in (m + 1)..(m + n) /\ m + i - m = i
    OBVIOUS
  <2>2. \A j \in (m + 1)..(m + n) : u[j] = t[j - m]
    BY DEF Joins
  <2> QED BY <2>1, <2>2
<1> QED BY <1>1, <1>2 DEF Follows

LEMMA FunctionsAreSequences ==
  ASSUME NEW S, NEW n \in Nat, NEW f \in [1..n -> S]
  PROVE  f \in Seq(S) /\ Len(f) = n
OBVIOUS

--------------------------------------------------------------------------------
(* The scripts, place by place.                                             *)

LEMMA CleanEncodersIs ==
  /\ CleanEncoders \in Seq(Scripted) /\ Len(CleanEncoders) = 7
  /\ CleanEncoders[1] = Encoder("Stop") /\ CleanEncoders[2] = Wait
  /\ CleanEncoders[3] = Encoder("Reset") /\ CleanEncoders[4] = Wait
  /\ CleanEncoders[5] = Statement("Clear", "none", "none")
  /\ CleanEncoders[6] = Encoder("Start") /\ CleanEncoders[7] = Wait
<1>1. /\ Encoder("Stop") \in Scripted /\ Encoder("Reset") \in Scripted
      /\ Encoder("Start") \in Scripted /\ Wait \in Scripted
  BY StatementsExist
<1>2. Statement("Clear", "none", "none") \in Scripted
  BY StatementsExist DEF Instructions, Operands
<1>3. CleanEncoders \in Seq(Scripted)
  BY <1>1, <1>2, Tuples DEF CleanEncoders
<1> QED BY <1>3 DEF CleanEncoders

LEMMA MotorStepIs ==
  ASSUME NEW act \in {"Measure", "Verify"}, NEW k \in 1..6,
         NEW rejected \in {"none", "VerifyFailed"}
  PROVE  /\ MotorStep(act, k, rejected) \in Seq(Scripted)
         /\ Len(MotorStep(act, k, rejected)) = 6
         /\ MotorStep(act, k, rejected)[1] = Check("MotorPhaseStopped")
         /\ MotorStep(act, k, rejected)[2] = Motor(InterferenceSteps[k])
         /\ MotorStep(act, k, rejected)[3] = WaitOr("MotorPhaseStopped")
         /\ MotorStep(act, k, rejected)[4] = Statement(act, k, rejected)
         /\ MotorStep(act, k, rejected)[5] = Motor(CoastAll)
         /\ MotorStep(act, k, rejected)[6] = WaitOr("MotorPhaseStopped")
<1>1. InterferenceSteps[k] \in Command
  <2>1. 0 \in Speed /\ 50 \in Speed /\ 100 \in Speed
    BY DEF Speed
  <2>2. k = 1 \/ k = 2 \/ k = 3 \/ k = 4 \/ k = 5 \/ k = 6
    OBVIOUS
  <2> QED BY <2>1, <2>2, CommandsExist DEF InterferenceSteps
<1>2. /\ Check("MotorPhaseStopped") \in Scripted
      /\ WaitOr("MotorPhaseStopped") \in Scripted
  BY StatementsExist DEF Names
<1>3. Statement(act, k, rejected) \in Scripted
  <2>1. act \in Instructions /\ k \in Operands /\ rejected \in Names \cup {"none"}
    BY DEF Instructions, Operands, Names
  <2> QED BY <2>1, StatementsExist
<1>4. Motor(InterferenceSteps[k]) \in Scripted /\ Motor(CoastAll) \in Scripted
  BY <1>1, CommandsExist, StatementsExist
<1>5. MotorStep(act, k, rejected) \in Seq(Scripted)
  BY <1>2, <1>3, <1>4, Tuples DEF MotorStep
<1> QED BY <1>5 DEF MotorStep

LEMMA EveryStepsAre ==
  ASSUME NEW act \in {"Measure", "Verify"}, NEW rejected \in {"none", "VerifyFailed"}
  PROVE  /\ EverySteps(act, rejected) \in Seq(Scripted)
         /\ Len(EverySteps(act, rejected)) = 36
         /\ \A k, j \in 1..6 : EverySteps(act, rejected)[6 * (k - 1) + j]
                               = MotorStep(act, k, rejected)[j]
<1> DEFINE E == EverySteps(act, rejected)
<1>1. ASSUME NEW i \in 1..36
      PROVE  MotorStep(act, ((i - 1) \div 6) + 1, rejected)[((i - 1) % 6) + 1] \in Scripted
  <2>1. ((i - 1) \div 6) + 1 \in 1..6 /\ ((i - 1) % 6) + 1 \in 1..6
    OBVIOUS
  <2>2. \A k, j \in 1..6 : MotorStep(act, k, rejected)[j] \in Scripted
    BY MotorStepIs
  <2> QED BY <2>1, <2>2
<1>2. E \in [1..36 -> Scripted]
  BY <1>1 DEF EverySteps
<1> HIDE DEF E
<1>3. E \in Seq(Scripted) /\ Len(E) = 36
  BY <1>2, FunctionsAreSequences
<1>4. ASSUME NEW k \in 1..6, NEW j \in 1..6
      PROVE  E[6 * (k - 1) + j] = MotorStep(act, k, rejected)[j]
  <2> DEFINE i == 6 * (k - 1) + j
  <2>1. i \in 1..36 /\ ((i - 1) \div 6) + 1 = k /\ ((i - 1) % 6) + 1 = j
    OBVIOUS
  <2> HIDE DEF i
  <2>2. E[i] = MotorStep(act, k, rejected)[j]
    BY <2>1 DEF E, EverySteps
  <2> QED BY <2>2 DEF i
<1> QED BY <1>3, <1>4 DEF E

MagOpening ==
    <<WaitLong, WaitOr("MagStopped"),
      Rotate("ManualYaw"), Rotate("ManualPitch"), Rotate("ManualRoll"),
      WaitOr("MagStopped"),
      Motor(SetAllDriversEnable(TRUE)), Wait, WaitLong,
      Statement("Measure", 0, "none")>>
MagClosing ==
    <<Motor(CoastAll), WaitLong, Motor(SetAllDriversEnable(FALSE)), WaitLong,
      End("Complete")>>

LEMMA MagOpeningIs == MagOpening \in Seq(Scripted) /\ Len(MagOpening) = 10
<1>1. /\ WaitLong \in Scripted /\ WaitOr("MagStopped") \in Scripted
      /\ Rotate("ManualYaw") \in Scripted /\ Rotate("ManualPitch") \in Scripted
      /\ Rotate("ManualRoll") \in Scripted /\ Wait \in Scripted
  BY StatementsExist DEF Names
<1>2. Statement("Measure", 0, "none") \in Scripted
  BY StatementsExist DEF Instructions, Operands
<1>3. Motor(SetAllDriversEnable(TRUE)) \in Scripted
  BY StatementsExist, CommandsExist
<1> QED BY <1>1, <1>2, <1>3, Tuples DEF MagOpening

LEMMA MagClosingIs == MagClosing \in Seq(Scripted) /\ Len(MagClosing) = 5
<1>1. WaitLong \in Scripted /\ End("Complete") \in Scripted
  BY StatementsExist
<1>2. Motor(CoastAll) \in Scripted /\ Motor(SetAllDriversEnable(FALSE)) \in Scripted
  BY StatementsExist, CommandsExist
<1> QED BY <1>1, <1>2, Tuples DEF MagClosing

LEMMA MagCalibrationIs ==
  /\ MagCalibration \in Seq(Scripted) /\ Len(MagCalibration) = 87
  /\ \A i \in 1..10 : MagCalibration[i] = MagOpening[i]
  /\ \A k, j \in 1..6 :
        /\ MagCalibration[10 + 6 * (k - 1) + j] = MotorStep("Measure", k, "none")[j]
        /\ MagCalibration[46 + 6 * (k - 1) + j] = MotorStep("Verify", k, "VerifyFailed")[j]
  /\ \A i \in 1..5 : MagCalibration[82 + i] = MagClosing[i]
<1> DEFINE E1 == EverySteps("Measure", "none")
           E2 == EverySteps("Verify", "VerifyFailed")
           S1 == MagOpening \o E1
           S2 == S1 \o E2
           S3 == S2 \o MagClosing
<1>1. /\ E1 \in Seq(Scripted) /\ Len(E1) = 36
      /\ \A k, j \in 1..6 : E1[6 * (k - 1) + j] = MotorStep("Measure", k, "none")[j]
  BY EveryStepsAre
<1>2. /\ E2 \in Seq(Scripted) /\ Len(E2) = 36
      /\ \A k, j \in 1..6 :
            E2[6 * (k - 1) + j] = MotorStep("Verify", k, "VerifyFailed")[j]
  BY EveryStepsAre
<1> HIDE DEF E1, E2
<1>3. Joins(S1, MagOpening, E1, 10, 36)
  BY <1>1, MagOpeningIs, Joined
<1> HIDE DEF S1
<1>4. Joins(S2, S1, E2, 46, 36)
  <2>1. S1 \in Seq(Scripted) /\ Len(S1) = 46
    BY <1>3 DEF Joins
  <2> QED BY <1>2, <2>1, Joined
<1> HIDE DEF S2
<1>5. Joins(S3, S2, MagClosing, 82, 5)
  <2>1. S2 \in Seq(Scripted) /\ Len(S2) = 82
    BY <1>4 DEF Joins
  <2> QED BY MagClosingIs, <2>1, Joined
<1> HIDE DEF S3
<1>6. S3 = MagCalibration
  BY DEF MagCalibration, MagOpening, MagClosing, E1, E2, S1, S2, S3
<1>7. /\ \A i \in 1..82 : S3[i] = S2[i]
      /\ \A i \in 1..46 : S2[i] = S1[i]
      /\ \A i \in 1..10 : S1[i] = MagOpening[i]
  <2>1. \A i \in 1..82 : S3[i] = S2[i]
    BY <1>5, JoinsAt
  <2>2. \A i \in 1..46 : S2[i] = S1[i]
    BY <1>4, JoinsAt
  <2>3. \A i \in 1..10 : S1[i] = MagOpening[i]
    BY <1>3, JoinsAt
  <2> QED BY <2>1, <2>2, <2>3
<1>8. /\ \A i \in 1..36 : S1[10 + i] = E1[i]
      /\ \A i \in 1..36 : S2[46 + i] = E2[i]
      /\ \A i \in 1..5 : S3[82 + i] = MagClosing[i]
  <2>1. \A i \in 1..36 : S1[10 + i] = E1[i]
    <3>1. Follows(S1, E1, 10, 36)
      BY <1>3, JoinsAt
    <3> QED BY <3>1 DEF Follows
  <2>2. \A i \in 1..36 : S2[46 + i] = E2[i]
    <3>1. Follows(S2, E2, 46, 36)
      BY <1>4, JoinsAt
    <3> QED BY <3>1 DEF Follows
  <2>3. \A i \in 1..5 : S3[82 + i] = MagClosing[i]
    <3>1. Follows(S3, MagClosing, 82, 5)
      BY <1>5, JoinsAt
    <3> QED BY <3>1 DEF Follows
  <2> QED BY <2>1, <2>2, <2>3
<1>9. \A i \in 1..10 : S3[i] = MagOpening[i]
  BY <1>7
<1>10. ASSUME NEW k \in 1..6, NEW j \in 1..6
       PROVE  /\ S3[10 + 6 * (k - 1) + j] = MotorStep("Measure", k, "none")[j]
              /\ S3[46 + 6 * (k - 1) + j] = MotorStep("Verify", k, "VerifyFailed")[j]
  <2> DEFINE i == 6 * (k - 1) + j
  <2>1. i \in 1..36 /\ 10 + i \in 1..46 /\ 10 + i \in 1..82 /\ 46 + i \in 1..82
    OBVIOUS
  <2>2. 10 + 6 * (k - 1) + j = 10 + i /\ 46 + 6 * (k - 1) + j = 46 + i
    OBVIOUS
  <2>3. E1[i] = MotorStep("Measure", k, "none")[j]
    BY <1>1
  <2>4. E2[i] = MotorStep("Verify", k, "VerifyFailed")[j]
    BY <1>2
  <2> HIDE DEF i
  <2>5. S3[10 + i] = E1[i]
    BY <2>1, <1>7, <1>8
  <2>6. S3[46 + i] = E2[i]
    BY <2>1, <1>7, <1>8
  <2> QED BY <2>2, <2>3, <2>4, <2>5, <2>6
<1>11. S3 \in Seq(Scripted) /\ Len(S3) = 87
  BY <1>5 DEF Joins
<1> QED BY <1>6, <1>8, <1>9, <1>10, <1>11

\* Where the measurement of a track begins, and its run.
Base(side) == IF side = "Left" THEN 4 ELSE 17
RunOf(side) == IF side = "Left" THEN SetTracks(60, 0) ELSE SetTracks(0, 60)

LEMMA RunsExist ==
  ASSUME NEW side \in Track
  PROVE  RunOf(side) \in Command
<1>1. 0 \in Speed /\ 60 \in Speed
  BY DEF Speed
<1> QED BY <1>1, CommandsExist DEF RunOf

LEMMA MeasureTrackIs ==
  ASSUME NEW side \in Track
  PROVE  LET m == MeasureTrack(side) IN
         /\ m \in Seq(Scripted) /\ Len(m) = 13
         /\ m[1] = Encoder("Stop") /\ m[2] = Wait /\ m[3] = Encoder("Reset")
         /\ m[4] = Wait /\ m[5] = Statement("Clear", "none", "none")
         /\ m[6] = Encoder("Start") /\ m[7] = Wait
         /\ m[8] = Check("MotorStopped") /\ m[9] = Motor(RunOf(side))
         /\ m[10] = WaitOr("RunStopped")
         /\ m[11] = Statement("ReadPulses", side, "none")
         /\ m[12] = Motor(CoastAll) /\ m[13] = WaitOr("MotorStopped")
<1> DEFINE T == <<Check("MotorStopped"), Motor(RunOf(side)), WaitOr("RunStopped"),
                  Statement("ReadPulses", side, "none"), Motor(CoastAll),
                  WaitOr("MotorStopped")>>
           m == MeasureTrack(side)
<1>1. /\ Check("MotorStopped") \in Scripted /\ WaitOr("RunStopped") \in Scripted
      /\ WaitOr("MotorStopped") \in Scripted
  BY StatementsExist DEF Names
<1>2. Motor(RunOf(side)) \in Scripted /\ Motor(CoastAll) \in Scripted
  BY StatementsExist, CommandsExist, RunsExist
<1>3. Statement("ReadPulses", side, "none") \in Scripted
  <2>1. side \in Operands /\ "ReadPulses" \in Instructions /\ "none" \in Names \cup {"none"}
    BY DEF Track, Operands, Instructions
  <2> QED BY <2>1, StatementsExist
<1>4. T \in Seq(Scripted) /\ Len(T) = 6
  <2>1. T \in Seq(Scripted)
    BY <1>1, <1>2, <1>3, Tuples
  <2> QED BY <2>1
<1>5. /\ T[1] = Check("MotorStopped") /\ T[2] = Motor(RunOf(side))
      /\ T[3] = WaitOr("RunStopped") /\ T[4] = Statement("ReadPulses", side, "none")
      /\ T[5] = Motor(CoastAll) /\ T[6] = WaitOr("MotorStopped")
  OBVIOUS
<1>6. m = CleanEncoders \o T
  BY DEF MeasureTrack, RunOf
<1> HIDE DEF T, m
<1>7. Joins(m, CleanEncoders, T, 7, 6)
  BY <1>4, <1>6, CleanEncodersIs, Joined
<1>8. \A i \in 1..7 : m[i] = CleanEncoders[i]
  BY <1>7, JoinsAt
<1>9. \A i \in 1..6 : m[7 + i] = T[i]
  <2>1. Follows(m, T, 7, 6)
    BY <1>7, JoinsAt
  <2> QED BY <2>1 DEF Follows
<1>10. /\ m[8] = T[1] /\ m[9] = T[2] /\ m[10] = T[3]
       /\ m[11] = T[4] /\ m[12] = T[5] /\ m[13] = T[6]
  <2>1. \A i \in 8..13 : m[i] = T[i - 7]
    BY <1>7 DEF Joins
  <2> QED BY <2>1
<1>11. m \in Seq(Scripted) /\ Len(m) = 13
  BY <1>7 DEF Joins
<1>12. /\ m[1] = Encoder("Stop") /\ m[2] = Wait /\ m[3] = Encoder("Reset")
       /\ m[4] = Wait /\ m[5] = Statement("Clear", "none", "none")
       /\ m[6] = Encoder("Start") /\ m[7] = Wait
  BY <1>8, CleanEncodersIs
<1> QED BY <1>5, <1>10, <1>11, <1>12 DEF m

MotorOpening ==
    <<Motor(SetAllDriversEnable(TRUE)), Wait, Encoder("Start"), Wait>>
MotorClosing ==
    <<Statement("Compute", "none", "MotorFailed"),
      Statement("SendFactors", "none", "none"),
      Encoder("Stop"), Motor(SetAllDriversEnable(FALSE)), End("Complete")>>

LEMMA MotorOpeningIs == MotorOpening \in Seq(Scripted) /\ Len(MotorOpening) = 4
<1>1. /\ Wait \in Scripted /\ Encoder("Start") \in Scripted
      /\ Motor(SetAllDriversEnable(TRUE)) \in Scripted
  BY StatementsExist, CommandsExist
<1> QED BY <1>1, Tuples DEF MotorOpening

LEMMA MotorClosingIs == MotorClosing \in Seq(Scripted) /\ Len(MotorClosing) = 5
<1>1. /\ Encoder("Stop") \in Scripted /\ End("Complete") \in Scripted
      /\ Motor(SetAllDriversEnable(FALSE)) \in Scripted
  BY StatementsExist, CommandsExist
<1>2. /\ Statement("Compute", "none", "MotorFailed") \in Scripted
      /\ Statement("SendFactors", "none", "none") \in Scripted
  <2>1. /\ {"Compute", "SendFactors"} \subseteq Instructions
        /\ "none" \in Operands /\ {"none", "MotorFailed"} \subseteq Names \cup {"none"}
    BY DEF Operands, Instructions, Names
  <2> QED BY <2>1, StatementsExist
<1> QED BY <1>1, <1>2, Tuples DEF MotorClosing

LEMMA MotorCalibrationIs ==
  /\ MotorCalibration \in Seq(Scripted) /\ Len(MotorCalibration) = 35
  /\ \A i \in 1..4 : MotorCalibration[i] = MotorOpening[i]
  /\ \A side \in Track, j \in 1..13 :
        MotorCalibration[Base(side) + j] = MeasureTrack(side)[j]
  /\ \A i \in 1..5 : MotorCalibration[30 + i] = MotorClosing[i]
<1> DEFINE E1 == MeasureTrack("Left")
           E2 == MeasureTrack("Right")
           S1 == MotorOpening \o E1
           S2 == S1 \o E2
           S3 == S2 \o MotorClosing
<1>1. /\ E1 \in Seq(Scripted) /\ Len(E1) = 13
      /\ E2 \in Seq(Scripted) /\ Len(E2) = 13
  BY MeasureTrackIs DEF Track
<1> HIDE DEF E1, E2
<1>3. Joins(S1, MotorOpening, E1, 4, 13)
  BY <1>1, MotorOpeningIs, Joined
<1> HIDE DEF S1
<1>4. Joins(S2, S1, E2, 17, 13)
  <2>1. S1 \in Seq(Scripted) /\ Len(S1) = 17
    BY <1>3 DEF Joins
  <2> QED BY <1>1, <2>1, Joined
<1> HIDE DEF S2
<1>5. Joins(S3, S2, MotorClosing, 30, 5)
  <2>1. S2 \in Seq(Scripted) /\ Len(S2) = 30
    BY <1>4 DEF Joins
  <2> QED BY MotorClosingIs, <2>1, Joined
<1> HIDE DEF S3
<1>6. S3 = MotorCalibration
  BY DEF MotorCalibration, MotorOpening, MotorClosing, E1, E2, S1, S2, S3
<1>7. /\ \A i \in 1..30 : S3[i] = S2[i]
      /\ \A i \in 1..17 : S2[i] = S1[i]
      /\ \A i \in 1..4 : S1[i] = MotorOpening[i]
  <2>1. \A i \in 1..30 : S3[i] = S2[i]
    BY <1>5, JoinsAt
  <2>2. \A i \in 1..17 : S2[i] = S1[i]
    BY <1>4, JoinsAt
  <2>3. \A i \in 1..4 : S1[i] = MotorOpening[i]
    BY <1>3, JoinsAt
  <2> QED BY <2>1, <2>2, <2>3
<1>8. /\ \A i \in 1..13 : S1[4 + i] = E1[i]
      /\ \A i \in 1..13 : S2[17 + i] = E2[i]
      /\ \A i \in 1..5 : S3[30 + i] = MotorClosing[i]
  <2>1. \A i \in 1..13 : S1[4 + i] = E1[i]
    <3>1. Follows(S1, E1, 4, 13)
      BY <1>3, JoinsAt
    <3> QED BY <3>1 DEF Follows
  <2>2. \A i \in 1..13 : S2[17 + i] = E2[i]
    <3>1. Follows(S2, E2, 17, 13)
      BY <1>4, JoinsAt
    <3> QED BY <3>1 DEF Follows
  <2>3. \A i \in 1..5 : S3[30 + i] = MotorClosing[i]
    <3>1. Follows(S3, MotorClosing, 30, 5)
      BY <1>5, JoinsAt
    <3> QED BY <3>1 DEF Follows
  <2> QED BY <2>1, <2>2, <2>3
<1>9. \A i \in 1..4 : S3[i] = MotorOpening[i]
  BY <1>7
<1>10. ASSUME NEW j \in 1..13
       PROVE  S3[4 + j] = E1[j] /\ S3[17 + j] = E2[j]
  <2>1. 4 + j \in 1..17 /\ 4 + j \in 1..30 /\ 17 + j \in 1..30
    OBVIOUS
  <2> QED BY <2>1, <1>7, <1>8
<1>11. S3 \in Seq(Scripted) /\ Len(S3) = 35
  BY <1>5 DEF Joins
<1>12. ASSUME NEW side \in Track, NEW j \in 1..13
       PROVE  S3[Base(side) + j] = MeasureTrack(side)[j]
  <2>1. CASE side = "Left"
    BY <2>1, <1>10 DEF Base, E1
  <2>2. CASE side = "Right"
    BY <2>2, <1>10 DEF Base, E2
  <2> QED BY <2>1, <2>2 DEF Track
<1> QED BY <1>6, <1>8, <1>9, <1>11, <1>12

NextRound(clockwise) == IF clockwise THEN "RoundLeft" ELSE "RoundRight"

LEMMA CoastRoundIs ==
  ASSUME NEW clockwise \in BOOLEAN
  PROVE  LET r == CoastRound(clockwise) IN
         /\ r \in Seq(Scripted) /\ Len(r) = 18
         /\ r[1] = Check("CoastStopped") /\ r[2] = Motor(SetTracks(80, 80))
         /\ r[3] = Statement("Watch", "none", "CoastStopped")
         /\ r[4] = Motor(BrakeAll) /\ r[5] = Wait /\ r[6] = Check("CoastStopped")
         /\ r[7] = Motor(SetTracks(-60, -60)) /\ r[8] = WaitLong
         /\ r[9] = Check("CoastStopped")
         /\ r[10] = Motor(BrakeAll) /\ r[11] = Wait /\ r[12] = Check("CoastStopped")
         /\ r[13] = Motor(CoastTurn(clockwise)) /\ r[14] = WaitLong
         /\ r[15] = Check("CoastStopped")
         /\ r[16] = Motor(BrakeAll) /\ r[17] = Wait
         /\ r[18] = Statement("Repeat", "none", NextRound(clockwise))
<1> DEFINE r == CoastRound(clockwise)
<1>1. /\ Check("CoastStopped") \in Scripted /\ Wait \in Scripted
      /\ WaitLong \in Scripted
  BY StatementsExist DEF Names
<1>2. /\ Statement("Watch", "none", "CoastStopped") \in Scripted
      /\ Statement("Repeat", "none", NextRound(clockwise)) \in Scripted
  <2>1. /\ {"Watch", "Repeat"} \subseteq Instructions
        /\ "none" \in Operands /\ "CoastStopped" \in Names
        /\ NextRound(clockwise) \in Names
    BY DEF Operands, Instructions, Names, NextRound
  <2> QED BY <2>1, StatementsExist
<1>3. /\ SetTracks(80, 80) \in Command /\ SetTracks(-60, -60) \in Command
      /\ CoastTurn(clockwise) \in Command
  <2>1. 80 \in Speed /\ 60 \in Speed /\ -60 \in Speed
    BY DEF Speed
  <2> QED BY <2>1, CommandsExist DEF CoastTurn
<1>4. /\ Motor(SetTracks(80, 80)) \in Scripted
      /\ Motor(SetTracks(-60, -60)) \in Scripted
      /\ Motor(CoastTurn(clockwise)) \in Scripted /\ Motor(BrakeAll) \in Scripted
  BY <1>3, StatementsExist, CommandsExist
<1>5. r \in Seq(Scripted)
  BY <1>1, <1>2, <1>4, Tuples DEF CoastRound, NextRound
<1> QED BY <1>5 DEF CoastRound, NextRound

CoastOpening == <<Motor(BrakeAll), Wait, Motor(SetAllDriversEnable(TRUE)), Wait>>

LEMMA CoastAndAvoidIs ==
  /\ CoastAndAvoid \in Seq(Scripted) /\ Len(CoastAndAvoid) = 22
  /\ CoastAndAvoid[1] = Motor(BrakeAll) /\ CoastAndAvoid[2] = Wait
  /\ CoastAndAvoid[3] = Motor(SetAllDriversEnable(TRUE)) /\ CoastAndAvoid[4] = Wait
  /\ \A i \in 1..18 : CoastAndAvoid[4 + i] = CoastRound(TRUE)[i]
<1> DEFINE r == CoastRound(TRUE)
           c == CoastAndAvoid
<1>1. r \in Seq(Scripted) /\ Len(r) = 18
  BY CoastRoundIs
<1>2. CoastOpening \in Seq(Scripted) /\ Len(CoastOpening) = 4
  <2>1. /\ Motor(BrakeAll) \in Scripted /\ Wait \in Scripted
        /\ Motor(SetAllDriversEnable(TRUE)) \in Scripted
    BY StatementsExist, CommandsExist
  <2> QED BY <2>1, Tuples DEF CoastOpening
<1>3. c = CoastOpening \o r
  BY DEF CoastAndAvoid, CoastOpening
<1> HIDE DEF c, r
<1>4. Joins(c, CoastOpening, r, 4, 18)
  BY <1>1, <1>2, <1>3, Joined
<1>5. \A i \in 1..4 : c[i] = CoastOpening[i]
  BY <1>4, JoinsAt
<1>6. \A i \in 1..18 : c[4 + i] = r[i]
  <2>1. Follows(c, r, 4, 18)
    BY <1>4, JoinsAt
  <2> QED BY <2>1 DEF Follows
<1>7. c \in Seq(Scripted) /\ Len(c) = 22
  BY <1>4 DEF Joins
<1>8. /\ c[1] = Motor(BrakeAll) /\ c[2] = Wait
      /\ c[3] = Motor(SetAllDriversEnable(TRUE)) /\ c[4] = Wait
  <2>1. /\ c[1] = CoastOpening[1] /\ c[2] = CoastOpening[2]
        /\ c[3] = CoastOpening[3] /\ c[4] = CoastOpening[4]
    BY <1>5
  <2> QED BY <2>1 DEF CoastOpening
<1> QED BY <1>6, <1>7, <1>8 DEF c, r

LEMMA EndingsAre ==
  /\ MotorStopped \in Seq(Scripted) /\ Len(MotorStopped) = 4
  /\ MotorFailed \in Seq(Scripted) /\ Len(MotorFailed) = 4
  /\ RunStopped \in Seq(Scripted) /\ Len(RunStopped) = 5
  /\ RunStopped[1] = Motor(CoastAll)
  /\ \A i \in 1..4 : RunStopped[1 + i] = MotorStopped[i]
  /\ MagStopped \in Seq(Scripted) /\ Len(MagStopped) = 1
  /\ MotorPhaseStopped \in Seq(Scripted) /\ Len(MotorPhaseStopped) = 3
  /\ VerifyFailed \in Seq(Scripted) /\ Len(VerifyFailed) = 4
  /\ CoastStopped \in Seq(Scripted) /\ Len(CoastStopped) = 4
<1>1. /\ Motor(CoastAll) \in Scripted /\ Motor(BrakeAll) \in Scripted
      /\ Motor(SetAllDriversEnable(FALSE)) \in Scripted
      /\ Encoder("Stop") \in Scripted /\ Wait \in Scripted /\ WaitLong \in Scripted
      /\ End("Stopped") \in Scripted /\ End("Failed") \in Scripted
      /\ End("ByHand") \in Scripted
  BY StatementsExist, CommandsExist
<1>2. MotorStopped \in Seq(Scripted) /\ Len(MotorStopped) = 4
  BY <1>1, Tuples DEF MotorStopped
<1>3. MotorFailed \in Seq(Scripted) /\ Len(MotorFailed) = 4
  BY <1>1, Tuples DEF MotorFailed
<1>4. MagStopped \in Seq(Scripted) /\ Len(MagStopped) = 1
  BY <1>1, Tuples DEF MagStopped
<1>5. MotorPhaseStopped \in Seq(Scripted) /\ Len(MotorPhaseStopped) = 3
  BY <1>1, Tuples DEF MotorPhaseStopped
<1>6. VerifyFailed \in Seq(Scripted) /\ Len(VerifyFailed) = 4
  BY <1>1, Tuples DEF VerifyFailed
<1>7. CoastStopped \in Seq(Scripted) /\ Len(CoastStopped) = 4
  BY <1>1, Tuples DEF CoastStopped
<1>8. /\ RunStopped \in Seq(Scripted) /\ Len(RunStopped) = 5
      /\ RunStopped[1] = Motor(CoastAll)
      /\ \A i \in 1..4 : RunStopped[1 + i] = MotorStopped[i]
  <2> DEFINE o == <<Motor(CoastAll)>>
             r == RunStopped
  <2>1. o \in Seq(Scripted) /\ Len(o) = 1
    BY <1>1, Tuples
  <2>2. r = o \o MotorStopped
    BY DEF RunStopped
  <2> HIDE DEF r, o
  <2>3. Joins(r, o, MotorStopped, 1, 4)
    BY <1>2, <2>1, <2>2, Joined
  <2>4. Follows(r, MotorStopped, 1, 4) /\ r[1] = o[1]
    BY <2>3, JoinsAt
  <2>5. r \in Seq(Scripted) /\ Len(r) = 5
    BY <2>3 DEF Joins
  <2> QED BY <2>4, <2>5 DEF r, o, Follows
<1> QED BY <1>2, <1>3, <1>4, <1>5, <1>6, <1>7, <1>8

LEMMA ScriptIs ==
  /\ Script["MotorCalibration"] = MotorCalibration
  /\ Script["RunStopped"] = RunStopped
  /\ Script["MotorStopped"] = MotorStopped
  /\ Script["MotorFailed"] = MotorFailed
  /\ Script["MagCalibration"] = MagCalibration
  /\ Script["MagStopped"] = MagStopped
  /\ Script["MotorPhaseStopped"] = MotorPhaseStopped
  /\ Script["VerifyFailed"] = VerifyFailed
  /\ Script["CoastAndAvoid"] = CoastAndAvoid
  /\ Script["RoundRight"] = CoastRound(TRUE)
  /\ Script["RoundLeft"] = CoastRound(FALSE)
  /\ Script["CoastStopped"] = CoastStopped
BY DEF Script

LEMMA MotorEnds ==
  LET m == MotorCalibration IN
  /\ m[1] = Motor(SetAllDriversEnable(TRUE)) /\ m[2] = Wait
  /\ m[3] = Encoder("Start") /\ m[4] = Wait
  /\ m[31] = Statement("Compute", "none", "MotorFailed")
  /\ m[32] = Statement("SendFactors", "none", "none") /\ m[33] = Encoder("Stop")
  /\ m[34] = Motor(SetAllDriversEnable(FALSE)) /\ m[35] = End("Complete")
<1> DEFINE m == MotorCalibration
<1>1. /\ \A i \in 1..4 : m[i] = MotorOpening[i]
      /\ Follows(m, MotorClosing, 30, 5)
  BY MotorCalibrationIs DEF Follows
<1> HIDE DEF m
<1>2. /\ m[1] = MotorOpening[1] /\ m[2] = MotorOpening[2]
      /\ m[3] = MotorOpening[3] /\ m[4] = MotorOpening[4]
  BY <1>1
<1>3. /\ m[30 + 1] = MotorClosing[1] /\ m[30 + 2] = MotorClosing[2]
      /\ m[30 + 3] = MotorClosing[3] /\ m[30 + 4] = MotorClosing[4]
      /\ m[30 + 5] = MotorClosing[5]
  BY <1>1 DEF Follows
<1>4. /\ m[31] = MotorClosing[1] /\ m[32] = MotorClosing[2]
      /\ m[33] = MotorClosing[3] /\ m[34] = MotorClosing[4]
      /\ m[35] = MotorClosing[5]
  BY <1>3
<1>5. /\ m[1] = Motor(SetAllDriversEnable(TRUE)) /\ m[2] = Wait
      /\ m[3] = Encoder("Start") /\ m[4] = Wait
  BY <1>2 DEF MotorOpening
<1>6. /\ m[31] = Statement("Compute", "none", "MotorFailed")
      /\ m[32] = Statement("SendFactors", "none", "none") /\ m[33] = Encoder("Stop")
      /\ m[34] = Motor(SetAllDriversEnable(FALSE)) /\ m[35] = End("Complete")
  BY <1>4 DEF MotorClosing
<1> QED BY <1>5, <1>6 DEF m

LEMMA MotorPositions ==
  ASSUME NEW i \in 1..35
  PROVE  \/ i = 1 \/ i = 2 \/ i = 3 \/ i = 4
         \/ \E side \in Track, j \in 1..13 :
               i = Base(side) + j /\ MotorCalibration[i] = MeasureTrack(side)[j]
         \/ i = 31 \/ i = 32 \/ i = 33 \/ i = 34 \/ i = 35
<1> DEFINE m == MotorCalibration
<1>1. CASE i \in 1..4
  BY <1>1
<1>2. CASE i \in 5..17
  <2>1. i - 4 \in 1..13 /\ i = 4 + (i - 4)
    BY <1>2
  <2>2. m[4 + (i - 4)] = MeasureTrack("Left")[i - 4]
    BY <2>1, MotorCalibrationIs DEF Track, Base
  <2>3. m[i] = MeasureTrack("Left")[i - 4]
    BY <2>1, <2>2
  <2> HIDE DEF m
  <2>4. \E j \in 1..13 : i = Base("Left") + j /\ m[i] = MeasureTrack("Left")[j]
    BY <2>1, <2>3 DEF Base
  <2> QED BY <2>4 DEF Track, m
<1>3. CASE i \in 18..30
  <2>1. i - 17 \in 1..13 /\ i = 17 + (i - 17)
    BY <1>3
  <2>2. m[17 + (i - 17)] = MeasureTrack("Right")[i - 17]
    BY <2>1, MotorCalibrationIs DEF Track, Base
  <2>3. m[i] = MeasureTrack("Right")[i - 17]
    BY <2>1, <2>2
  <2> HIDE DEF m
  <2>4. \E j \in 1..13 : i = Base("Right") + j /\ m[i] = MeasureTrack("Right")[j]
    BY <2>1, <2>3 DEF Base
  <2> QED BY <2>4 DEF Track, m
<1>4. CASE i \in 31..35
  BY <1>4
<1> QED BY <1>1, <1>2, <1>3, <1>4

LEMMA MagEnds ==
  LET m == MagCalibration IN
  /\ m[1] = WaitLong /\ m[2] = WaitOr("MagStopped")
  /\ m[3] = Rotate("ManualYaw") /\ m[4] = Rotate("ManualPitch")
  /\ m[5] = Rotate("ManualRoll") /\ m[6] = WaitOr("MagStopped")
  /\ m[7] = Motor(SetAllDriversEnable(TRUE)) /\ m[8] = Wait /\ m[9] = WaitLong
  /\ m[10] = Statement("Measure", 0, "none")
  /\ m[83] = Motor(CoastAll) /\ m[84] = WaitLong
  /\ m[85] = Motor(SetAllDriversEnable(FALSE)) /\ m[86] = WaitLong
  /\ m[87] = End("Complete")
<1> DEFINE m == MagCalibration
<1>1. /\ \A i \in 1..10 : m[i] = MagOpening[i]
      /\ Follows(m, MagClosing, 82, 5)
  BY MagCalibrationIs DEF Follows
<1> HIDE DEF m
<1>2. /\ m[1] = MagOpening[1] /\ m[2] = MagOpening[2] /\ m[3] = MagOpening[3]
      /\ m[4] = MagOpening[4] /\ m[5] = MagOpening[5] /\ m[6] = MagOpening[6]
      /\ m[7] = MagOpening[7] /\ m[8] = MagOpening[8] /\ m[9] = MagOpening[9]
      /\ m[10] = MagOpening[10]
  BY <1>1
<1>3. /\ m[82 + 1] = MagClosing[1] /\ m[82 + 2] = MagClosing[2]
      /\ m[82 + 3] = MagClosing[3] /\ m[82 + 4] = MagClosing[4]
      /\ m[82 + 5] = MagClosing[5]
  BY <1>1 DEF Follows
<1>4. /\ m[83] = MagClosing[1] /\ m[84] = MagClosing[2] /\ m[85] = MagClosing[3]
      /\ m[86] = MagClosing[4] /\ m[87] = MagClosing[5]
  BY <1>3
<1>5. /\ m[1] = WaitLong /\ m[2] = WaitOr("MagStopped")
      /\ m[3] = Rotate("ManualYaw") /\ m[4] = Rotate("ManualPitch")
      /\ m[5] = Rotate("ManualRoll") /\ m[6] = WaitOr("MagStopped")
      /\ m[7] = Motor(SetAllDriversEnable(TRUE)) /\ m[8] = Wait /\ m[9] = WaitLong
      /\ m[10] = Statement("Measure", 0, "none")
  BY <1>2 DEF MagOpening
<1>6. /\ m[83] = Motor(CoastAll) /\ m[84] = WaitLong
      /\ m[85] = Motor(SetAllDriversEnable(FALSE)) /\ m[86] = WaitLong
      /\ m[87] = End("Complete")
  BY <1>4 DEF MagClosing
<1> QED BY <1>5, <1>6 DEF m

\* Where the two passes have the step of an interference.
Rejected(act) == IF act = "Measure" THEN "none" ELSE "VerifyFailed"
StepBase(act, k) == IF act = "Measure" THEN 10 + 6 * (k - 1) ELSE 46 + 6 * (k - 1)

LEMMA MagPositions ==
  ASSUME NEW i \in 1..87
  PROVE  \/ i \in 1..10 \/ i \in 83..87
         \/ \E act \in {"Measure", "Verify"}, k, j \in 1..6 :
               /\ i = StepBase(act, k) + j
               /\ MagCalibration[i] = MotorStep(act, k, Rejected(act))[j]
<1> DEFINE m == MagCalibration
<1>2. CASE i \in 11..46
  <2> DEFINE k == ((i - 11) \div 6) + 1
             j == ((i - 11) % 6) + 1
  <2>1. k \in 1..6 /\ j \in 1..6 /\ i = 10 + 6 * (k - 1) + j
    BY <1>2
  <2> HIDE DEF k, j
  <2>2. m[10 + 6 * (k - 1) + j] = MotorStep("Measure", k, "none")[j]
    BY <2>1, MagCalibrationIs
  <2>3. i = StepBase("Measure", k) + j /\ Rejected("Measure") = "none"
    BY <2>1 DEF StepBase, Rejected
  <2>4. m[i] = MotorStep("Measure", k, Rejected("Measure"))[j]
    BY <2>1, <2>2, <2>3
  <2> QED BY <2>1, <2>3, <2>4
<1>3. CASE i \in 47..82
  <2> DEFINE k == ((i - 47) \div 6) + 1
             j == ((i - 47) % 6) + 1
  <2>1. k \in 1..6 /\ j \in 1..6 /\ i = 46 + 6 * (k - 1) + j
    BY <1>3
  <2> HIDE DEF k, j
  <2>2. m[46 + 6 * (k - 1) + j] = MotorStep("Verify", k, "VerifyFailed")[j]
    BY <2>1, MagCalibrationIs
  <2>3. i = StepBase("Verify", k) + j /\ Rejected("Verify") = "VerifyFailed"
    BY <2>1 DEF StepBase, Rejected
  <2>4. m[i] = MotorStep("Verify", k, Rejected("Verify"))[j]
    BY <2>1, <2>2, <2>3
  <2> QED BY <2>1, <2>3, <2>4
<1> QED BY <1>2, <1>3

--------------------------------------------------------------------------------
(* What stands last before a place.                                         *)

\* Before place k of s the last that is in C is in W.
Before(s, k, C, W) ==
    \E j \in 1..(k - 1) : s[j] \in W /\ \A m \in (j + 1)..(k - 1) : s[m] \notin C
Clear(s, k, C) == \A m \in 1..(k - 1) : s[m] \notin C

LEMMA BeforeNext ==
  ASSUME NEW s, NEW k \in Nat \ {0}, NEW C, NEW W
  PROVE  /\ s[k] \in W => Before(s, k + 1, C, W)
         /\ s[k] \notin C /\ Before(s, k, C, W) => Before(s, k + 1, C, W)
         /\ s[k] \notin C /\ Clear(s, k, C) => Clear(s, k + 1, C)
         /\ Before(s, k + 1, C, W) => s[k] \in W \/ (s[k] \notin C /\ Before(s, k, C, W))
BY DEF Before, Clear

LEMMA BeforeFirst ==
  ASSUME NEW s, NEW C, NEW W
  PROVE  ~Before(s, 1, C, W) /\ Clear(s, 1, C)
BY DEF Before, Clear

LEMMA BeforeAppend ==
  ASSUME NEW S, NEW q \in Seq(S), NEW c \in S, NEW k \in 1..(Len(q) + 1), NEW C, NEW W
  PROVE  /\ Before(q, k, C, W) => Before(Append(q, c), k, C, W)
         /\ Clear(q, k, C) => Clear(Append(q, c), k, C)
<1>1. \A j \in 1..(k - 1) : Append(q, c)[j] = q[j]
  OBVIOUS
<1> QED BY <1>1 DEF Before, Clear

LEMMA BeforeAppended ==
  ASSUME NEW S, NEW q \in Seq(S), NEW c \in S, NEW C, NEW W
  PROVE  LET a == Append(q, c) IN
         /\ c \in W => Before(a, Len(a) + 1, C, W)
         /\ c \notin C /\ Before(q, Len(q) + 1, C, W) => Before(a, Len(a) + 1, C, W)
         /\ c \notin C /\ Clear(q, Len(q) + 1, C) => Clear(a, Len(a) + 1, C)
<1> DEFINE a == Append(q, c)
           k == Len(q) + 1
<1>1. a[k] = c /\ Len(a) + 1 = k + 1 /\ k \in Nat \ {0}
  OBVIOUS
<1>2. /\ Before(q, k, C, W) => Before(a, k, C, W)
      /\ Clear(q, k, C) => Clear(a, k, C)
  BY BeforeAppend
<1> HIDE DEF a, k
<1>3. /\ a[k] \in W => Before(a, k + 1, C, W)
      /\ a[k] \notin C /\ Before(a, k, C, W) => Before(a, k + 1, C, W)
      /\ a[k] \notin C /\ Clear(a, k, C) => Clear(a, k + 1, C)
  BY <1>1, BeforeNext
<1> QED BY <1>1, <1>2, <1>3 DEF a, k

LEMMA BeforeTail ==
  ASSUME NEW S, NEW q \in Seq(S), q # <<>>, NEW k \in 2..(Len(q) + 1), NEW C, NEW W
  PROVE  /\ Before(q, k, C, W) =>
               \/ Before(Tail(q), k - 1, C, W)
               \/ Head(q) \in W /\ Clear(Tail(q), k - 1, C)
         /\ Clear(q, k, C) => Head(q) \notin C /\ Clear(Tail(q), k - 1, C)
<1> DEFINE t == Tail(q)
<1>1. \A j \in 1..(k - 2) : t[j] = q[j + 1]
  OBVIOUS
<1>2. Head(q) = q[1]
  OBVIOUS
<1> HIDE DEF t
<1>3. ASSUME Clear(q, k, C) PROVE Head(q) \notin C /\ Clear(t, k - 1, C)
  BY <1>1, <1>2, <1>3 DEF Clear
<1>4. ASSUME Before(q, k, C, W)
      PROVE  Before(t, k - 1, C, W) \/ (Head(q) \in W /\ Clear(t, k - 1, C))
  <2>1. PICK j \in 1..(k - 1) : q[j] \in W /\ \A m \in (j + 1)..(k - 1) : q[m] \notin C
    BY <1>4 DEF Before
  <2>2. CASE j = 1
    BY <1>1, <1>2, <2>1, <2>2 DEF Clear
  <2>3. CASE j > 1
    <3>1. j - 1 \in 1..(k - 2) /\ t[j - 1] = q[j]
      BY <1>1, <2>3
    <3>2. \A m \in j..(k - 2) : t[m] \notin C
      BY <1>1, <2>1
    <3>3. (j - 1) + 1 = j /\ (k - 1) - 1 = k - 2
      OBVIOUS
    <3> QED BY <2>1, <3>1, <3>2, <3>3 DEF Before
  <2> QED BY <2>2, <2>3
<1> QED BY <1>3, <1>4 DEF t

LEMMA BeforeAt ==
  ASSUME NEW s, NEW k \in Nat, NEW j \in 1..(k - 1), NEW C, NEW W,
         s[j] \in W, \A m \in (j + 1)..(k - 1) : s[m] \notin C
  PROVE  Before(s, k, C, W)
BY DEF Before

--------------------------------------------------------------------------------
(* Kinds of commands and of statements.                                     *)

TrackWords == {"SetTracks", "BrakeAll", "CoastAll"}
Tracks == {c \in Command : c[1] \in TrackWords}
Powers == {c \in Command : c[1] \in {"Enable", "Disable"}}
Rest == {BrakeAll, CoastAll}

LEMMA CommandsApart ==
  /\ Rest \subseteq Tracks
  /\ \A c \in {"LoadCalibration", "UpdateAllCalibration"} \X Nat \X Nat :
        c \notin Tracks /\ c \notin Powers
  /\ \A c \in Tracks : c \in Command /\ c \notin Powers
  /\ \A on \in BOOLEAN : SetAllDriversEnable(on) \in Powers
<1>1. Rest \subseteq Tracks
  BY CommandsExist DEF Rest, Tracks, TrackWords, BrakeAll, CoastAll
<1>2. ASSUME NEW c \in {"LoadCalibration", "UpdateAllCalibration"} \X Nat \X Nat
      PROVE  c \notin Tracks /\ c \notin Powers
  BY DEF Tracks, Powers, TrackWords
<1>3. \A c \in Tracks : c \in Command /\ c \notin Powers
  BY DEF Tracks, Powers, TrackWords
<1>4. \A on \in BOOLEAN : SetAllDriversEnable(on) \in Powers
  BY CommandsExist DEF Powers, SetAllDriversEnable
<1> QED BY <1>1, <1>2, <1>3, <1>4

TrackSt == {Motor(c) : c \in Tracks}
PowerSt == {Motor(c) : c \in Powers}
SamplerSt == {Encoder("Start"), Encoder("Stop")}
\* The statements that end no sooner than after the first battery voltage.
LongSt ==
    {WaitLong, Statement("Watch", "none", "CoastStopped")} \cup {WaitOr(n) : n \in Names}

LEMMA MotorsDiffer ==
  ASSUME NEW c, NEW d
  PROVE  Motor(c).do = "Motor" /\ Motor(c).what = c /\ (Motor(c) = Motor(d) => c = d)
<1>1. Motor(c).do = "Motor" /\ Motor(c).what = c /\ Motor(d).what = d
  BY DEF Motor, Statement
<1> QED BY <1>1

LEMMA StatementsApart ==
  /\ \A c : c \in Tracks => Motor(c) \in TrackSt /\ Motor(c) \notin PowerSt
  /\ \A c : c \in Powers => Motor(c) \in PowerSt /\ Motor(c) \notin TrackSt
  /\ \A st : st.do # "Motor" => st \notin TrackSt /\ st \notin PowerSt
  /\ \A st : st.do # "Encoder" => st \notin SamplerSt
<1>1. ASSUME NEW c \in Tracks PROVE Motor(c) \in TrackSt /\ Motor(c) \notin PowerSt
  BY MotorsDiffer, CommandsApart DEF TrackSt, PowerSt
<1>2. ASSUME NEW c \in Powers PROVE Motor(c) \in PowerSt /\ Motor(c) \notin TrackSt
  BY MotorsDiffer, CommandsApart DEF TrackSt, PowerSt
<1>3. ASSUME NEW st, st.do # "Motor" PROVE st \notin TrackSt /\ st \notin PowerSt
  BY <1>3, MotorsDiffer DEF TrackSt, PowerSt
<1>4. ASSUME NEW st, st.do # "Encoder" PROVE st \notin SamplerSt
  BY <1>4 DEF SamplerSt, Encoder, Statement
<1> QED BY <1>1, <1>2, <1>3, <1>4

LEMMA Kinds ==
  /\ Wait.do = "Wait" /\ WaitLong.do = "Wait"
  /\ \A o : WaitOr(o).do = "WaitOr" /\ Check(o).do = "Check" /\ Encoder(o).do = "Encoder"
  /\ \A o : End(o).do = "End" /\ Rotate(o).do = "Rotate"
  /\ \A d, w, o : Statement(d, w, o).do = d
BY DEF Wait, WaitLong, WaitOr, Check, Encoder, End, Rotate, Statement

LEMMA MeasureTrackPowerless ==
  ASSUME NEW side \in Track, NEW j \in 1..13
  PROVE  MeasureTrack(side)[j] \notin PowerSt
<1> DEFINE m == MeasureTrack(side)
<1>1. /\ m[1] = Encoder("Stop") /\ m[2] = Wait /\ m[3] = Encoder("Reset")
      /\ m[4] = Wait /\ m[5] = Statement("Clear", "none", "none")
      /\ m[6] = Encoder("Start") /\ m[7] = Wait
      /\ m[8] = Check("MotorStopped") /\ m[9] = Motor(RunOf(side))
      /\ m[10] = WaitOr("RunStopped")
      /\ m[11] = Statement("ReadPulses", side, "none")
      /\ m[12] = Motor(CoastAll) /\ m[13] = WaitOr("MotorStopped")
  BY MeasureTrackIs
<1>2. RunOf(side) \in Tracks /\ CoastAll \in Tracks
  BY RunsExist, CommandsApart DEF Tracks, TrackWords, RunOf, SetTracks, Rest
<1>3. Motor(RunOf(side)) \notin PowerSt /\ Motor(CoastAll) \notin PowerSt
  BY <1>2, StatementsApart
<1> SUFFICES m[j] \notin PowerSt
  OBVIOUS
<1> HIDE DEF m
<1>4. CASE j \in {9, 12}
  BY <1>1, <1>3, <1>4
<1>5. CASE j \notin {9, 12}
  <2>1. m[j].do # "Motor"
    <3>1. CASE j \in 1..8
      BY <1>1, <3>1, Kinds
    <3>2. CASE j \in {10, 11, 13}
      BY <1>1, <3>2, Kinds
    <3> QED BY <1>5, <3>1, <3>2
  <2> QED BY <2>1, StatementsApart
<1> QED BY <1>4, <1>5 DEF m

LEMMA MotorPowerless ==
  ASSUME NEW i \in 2..33
  PROVE  MotorCalibration[i] \notin PowerSt
<1> DEFINE m == MotorCalibration
<1>1. CASE \E side \in Track, j \in 1..13 :
             i = Base(side) + j /\ m[i] = MeasureTrack(side)[j]
  BY <1>1, MeasureTrackPowerless
<1>2. /\ m[2] = Wait /\ m[3] = Encoder("Start") /\ m[4] = Wait
      /\ m[31] = Statement("Compute", "none", "MotorFailed")
      /\ m[32] = Statement("SendFactors", "none", "none") /\ m[33] = Encoder("Stop")
  BY MotorEnds
<1> SUFFICES m[i] \notin PowerSt
  OBVIOUS
<1> HIDE DEF m
<1>3. CASE i \in {2, 3, 4, 31, 32, 33}
  <2>1. m[i].do # "Motor"
    BY <1>2, <1>3, Kinds
  <2> QED BY <2>1, StatementsApart
<1> QED BY <1>1, <1>3, MotorPositions DEF m

LEMMA InterferenceRuns ==
  ASSUME NEW k \in 1..6
  PROVE  InterferenceSteps[k] \in Command /\ InterferenceSteps[k][1] = "SetTracks"
<1>1. 0 \in Speed /\ 50 \in Speed /\ 100 \in Speed
  BY DEF Speed
<1>2. k = 1 \/ k = 2 \/ k = 3 \/ k = 4 \/ k = 5 \/ k = 6
  OBVIOUS
<1>3. \E l, r \in Speed : InterferenceSteps[k] = SetTracks(l, r)
  BY <1>1, <1>2 DEF InterferenceSteps
<1> QED BY <1>3, CommandsExist DEF SetTracks

LEMMA MotorStepPowerless ==
  ASSUME NEW act \in {"Measure", "Verify"}, NEW k \in 1..6, NEW j \in 1..6
  PROVE  MotorStep(act, k, Rejected(act))[j] \notin PowerSt
<1> DEFINE m == MotorStep(act, k, Rejected(act))
<1>1. /\ m[1] = Check("MotorPhaseStopped") /\ m[2] = Motor(InterferenceSteps[k])
      /\ m[3] = WaitOr("MotorPhaseStopped") /\ m[4] = Statement(act, k, Rejected(act))
      /\ m[5] = Motor(CoastAll) /\ m[6] = WaitOr("MotorPhaseStopped")
  <2>1. Rejected(act) \in {"none", "VerifyFailed"}
    BY DEF Rejected
  <2> QED BY <2>1, MotorStepIs
<1>2. InterferenceSteps[k] \in Tracks /\ CoastAll \in Tracks
  BY InterferenceRuns, CommandsApart DEF Tracks, TrackWords, Rest
<1>3. Motor(InterferenceSteps[k]) \notin PowerSt /\ Motor(CoastAll) \notin PowerSt
  BY <1>2, StatementsApart
<1> SUFFICES m[j] \notin PowerSt
  OBVIOUS
<1> HIDE DEF m
<1>4. CASE j \in {2, 5}
  BY <1>1, <1>3, <1>4
<1>5. CASE j \in {1, 3, 4, 6}
  <2>1. m[j].do # "Motor"
    BY <1>1, <1>5, Kinds
  <2> QED BY <2>1, StatementsApart
<1> QED BY <1>4, <1>5 DEF m

LEMMA MagPowerless ==
  ASSUME NEW i \in 8..84
  PROVE  MagCalibration[i] \notin PowerSt
<1> DEFINE m == MagCalibration
<1>1. CASE \E act \in {"Measure", "Verify"}, k, j \in 1..6 :
             i = StepBase(act, k) + j /\ m[i] = MotorStep(act, k, Rejected(act))[j]
  BY <1>1, MotorStepPowerless
<1>2. /\ m[8] = Wait /\ m[9] = WaitLong /\ m[10] = Statement("Measure", 0, "none")
      /\ m[83] = Motor(CoastAll) /\ m[84] = WaitLong
  BY MagEnds
<1> SUFFICES m[i] \notin PowerSt
  OBVIOUS
<1> HIDE DEF m
<1>3. CASE i \in {8, 9, 10, 84}
  <2>1. m[i].do # "Motor"
    BY <1>2, <1>3, Kinds
  <2> QED BY <2>1, StatementsApart
<1>4. CASE i = 83
  <2>1. CoastAll \in Tracks
    BY CommandsApart DEF Rest
  <2> QED BY <1>2, <1>4, <2>1, StatementsApart
<1>5. i \in 1..87
  OBVIOUS
<1>6. ~(i \in 1..10 \/ i \in 83..87) \/ i \in {8, 9, 10, 83, 84}
  OBVIOUS
<1> QED BY <1>1, <1>3, <1>4, <1>5, <1>6, MagPositions DEF m

LEMMA EndingsSay ==
  /\ MotorStopped[1] = Motor(CoastAll) /\ MotorStopped[2] = Encoder("Stop") /\ MotorStopped[3] = Motor(SetAllDriversEnable(FALSE)) /\ MotorStopped[4] = End("Stopped")
  /\ MotorFailed[1] = Motor(CoastAll) /\ MotorFailed[2] = Encoder("Stop") /\ MotorFailed[3] = Motor(SetAllDriversEnable(FALSE)) /\ MotorFailed[4] = End("Failed")
  /\ RunStopped[1] = Motor(CoastAll) /\ RunStopped[2] = Motor(CoastAll) /\ RunStopped[3] = Encoder("Stop") /\ RunStopped[4] = Motor(SetAllDriversEnable(FALSE)) /\ RunStopped[5] = End("Stopped")
  /\ MagStopped[1] = End("ByHand")
  /\ MotorPhaseStopped[1] = Motor(CoastAll) /\ MotorPhaseStopped[2] = Motor(SetAllDriversEnable(FALSE)) /\ MotorPhaseStopped[3] = End("Stopped")
  /\ VerifyFailed[1] = Motor(CoastAll) /\ VerifyFailed[2] = WaitLong /\ VerifyFailed[3] = Motor(SetAllDriversEnable(FALSE)) /\ VerifyFailed[4] = End("Failed")
  /\ CoastStopped[1] = Motor(BrakeAll) /\ CoastStopped[2] = Wait /\ CoastStopped[3] = Motor(SetAllDriversEnable(FALSE)) /\ CoastStopped[4] = End("Stopped")
<1>1. MotorStopped[1] = Motor(CoastAll) /\ MotorStopped[2] = Encoder("Stop") /\ MotorStopped[3] = Motor(SetAllDriversEnable(FALSE)) /\ MotorStopped[4] = End("Stopped")
  BY DEF MotorStopped
<1>2. MotorFailed[1] = Motor(CoastAll) /\ MotorFailed[2] = Encoder("Stop") /\ MotorFailed[3] = Motor(SetAllDriversEnable(FALSE)) /\ MotorFailed[4] = End("Failed")
  BY DEF MotorFailed
<1>3. RunStopped[1] = Motor(CoastAll) /\ RunStopped[2] = Motor(CoastAll) /\ RunStopped[3] = Encoder("Stop") /\ RunStopped[4] = Motor(SetAllDriversEnable(FALSE)) /\ RunStopped[5] = End("Stopped")
  <2> DEFINE r == RunStopped
  <2>1. r[1] = Motor(CoastAll) /\ Follows(r, MotorStopped, 1, 4)
    BY EndingsAre DEF Follows
  <2> HIDE DEF r
  <2>2. /\ r[1 + 1] = MotorStopped[1] /\ r[1 + 2] = MotorStopped[2]
        /\ r[1 + 3] = MotorStopped[3] /\ r[1 + 4] = MotorStopped[4]
    BY <2>1 DEF Follows
  <2>3. /\ r[2] = MotorStopped[1] /\ r[3] = MotorStopped[2]
        /\ r[4] = MotorStopped[3] /\ r[5] = MotorStopped[4]
    BY <2>2
  <2> QED BY <2>1, <2>3, <1>1 DEF r
<1>4. MagStopped[1] = End("ByHand")
  BY DEF MagStopped
<1>5. MotorPhaseStopped[1] = Motor(CoastAll) /\ MotorPhaseStopped[2] = Motor(SetAllDriversEnable(FALSE)) /\ MotorPhaseStopped[3] = End("Stopped")
  BY DEF MotorPhaseStopped
<1>6. VerifyFailed[1] = Motor(CoastAll) /\ VerifyFailed[2] = WaitLong /\ VerifyFailed[3] = Motor(SetAllDriversEnable(FALSE)) /\ VerifyFailed[4] = End("Failed")
  BY DEF VerifyFailed
<1>7. CoastStopped[1] = Motor(BrakeAll) /\ CoastStopped[2] = Wait /\ CoastStopped[3] = Motor(SetAllDriversEnable(FALSE)) /\ CoastStopped[4] = End("Stopped")
  BY DEF CoastStopped
<1> QED BY <1>1, <1>2, <1>3, <1>4, <1>5, <1>6, <1>7

Disable == SetAllDriversEnable(FALSE)
Enable == SetAllDriversEnable(TRUE)

\* The tracks were told to rest.
RestBefore(s, i) == \E c \in Rest : Before(s, i, TrackSt, {Motor(c)})
OffBefore(s, i) == Before(s, i, PowerSt, {Motor(Disable)})
OnBefore(s, i) == Before(s, i, PowerSt, {Motor(Enable)})
LongBefore(s, i) == Before(s, i, {}, LongSt)
StoppedBefore(s, i) == Before(s, i, SamplerSt, {Encoder("Stop")})

LEMMA PowersAre ==
  /\ Disable \in Powers /\ Enable \in Powers /\ Disable # Enable
  /\ Motor(Disable) \notin TrackSt /\ Motor(Enable) \notin TrackSt
  /\ Motor(Disable).do = "Motor" /\ Motor(Enable).do = "Motor"
  /\ \A c \in Rest : Motor(c) \in TrackSt /\ Motor(c) \notin PowerSt
<1>1. Disable \in Powers /\ Enable \in Powers
  BY CommandsApart DEF Disable, Enable
<1>2. Disable # Enable
  BY DEF Disable, Enable, SetAllDriversEnable
<1> QED BY <1>1, <1>2, CommandsApart, StatementsApart, MotorsDiffer

LEMMA RestAt ==
  ASSUME NEW s, NEW k \in Nat, NEW j \in 1..(k - 1), NEW c \in Rest, s[j] = Motor(c),
         \A m \in (j + 1)..(k - 1) : s[m] \notin TrackSt
  PROVE  RestBefore(s, k)
BY BeforeAt DEF RestBefore

LEMMA OffAt ==
  ASSUME NEW s, NEW k \in Nat, NEW j \in 1..(k - 1), s[j] = Motor(Disable),
         \A m \in (j + 1)..(k - 1) : s[m] \notin PowerSt
  PROVE  OffBefore(s, k)
BY BeforeAt DEF OffBefore

LEMMA OnAt ==
  ASSUME NEW s, NEW k \in Nat, NEW j \in 1..(k - 1), s[j] = Motor(Enable),
         \A m \in (j + 1)..(k - 1) : s[m] \notin PowerSt
  PROVE  OnBefore(s, k)
BY BeforeAt DEF OnBefore

LEMMA StoppedAt ==
  ASSUME NEW s, NEW k \in Nat, NEW j \in 1..(k - 1), s[j] = Encoder("Stop"),
         \A m \in (j + 1)..(k - 1) : s[m] \notin SamplerSt
  PROVE  StoppedBefore(s, k)
BY BeforeAt DEF StoppedBefore

LEMMA EndingsRest ==
  /\ RestBefore(MotorStopped, 3) /\ RestBefore(MotorStopped, 4) /\ OffBefore(MotorStopped, 4)
  /\ StoppedBefore(MotorStopped, 4)
  /\ RestBefore(MotorFailed, 3) /\ RestBefore(MotorFailed, 4) /\ OffBefore(MotorFailed, 4)
  /\ StoppedBefore(MotorFailed, 4)
  /\ RestBefore(RunStopped, 4) /\ RestBefore(RunStopped, 5) /\ OffBefore(RunStopped, 5)
  /\ StoppedBefore(RunStopped, 5)
  /\ RestBefore(MotorPhaseStopped, 2) /\ RestBefore(MotorPhaseStopped, 3) /\ OffBefore(MotorPhaseStopped, 3)
  /\ RestBefore(VerifyFailed, 3) /\ RestBefore(VerifyFailed, 4) /\ OffBefore(VerifyFailed, 4)
  /\ RestBefore(CoastStopped, 3) /\ RestBefore(CoastStopped, 4) /\ OffBefore(CoastStopped, 4)
<1>0. CoastAll \in Rest /\ BrakeAll \in Rest
  BY DEF Rest
<1>1. /\ RestBefore(MotorStopped, 3) /\ RestBefore(MotorStopped, 4) /\ OffBefore(MotorStopped, 4)
     /\ StoppedBefore(MotorStopped, 4)
  <2> DEFINE s == MotorStopped
  <2>1. s[1] = Motor(CoastAll) /\ s[2] = Encoder("Stop") /\ s[3] = Motor(Disable)
    BY EndingsSay DEF Disable
  <2> HIDE DEF s
  <2>2. s[2] \notin TrackSt /\ s[3] \notin TrackSt
    BY <2>1, Kinds, PowersAre, StatementsApart
  <2>3. RestBefore(s, 3)
    BY <1>0, <2>1, <2>2, RestAt
  <2>4. RestBefore(s, 4)
    BY <1>0, <2>1, <2>2, RestAt
  <2>5. OffBefore(s, 4)
    BY <2>1, OffAt
  <2>6. s[3] \notin SamplerSt
    BY <2>1, PowersAre, StatementsApart
  <2>7. StoppedBefore(s, 4)
    BY <2>1, <2>6, StoppedAt
  <2> QED BY <2>3, <2>4, <2>5, <2>7 DEF s
<1>2. /\ RestBefore(MotorFailed, 3) /\ RestBefore(MotorFailed, 4) /\ OffBefore(MotorFailed, 4)
     /\ StoppedBefore(MotorFailed, 4)
  <2> DEFINE s == MotorFailed
  <2>1. s[1] = Motor(CoastAll) /\ s[2] = Encoder("Stop") /\ s[3] = Motor(Disable)
    BY EndingsSay DEF Disable
  <2> HIDE DEF s
  <2>2. s[2] \notin TrackSt /\ s[3] \notin TrackSt
    BY <2>1, Kinds, PowersAre, StatementsApart
  <2>3. RestBefore(s, 3)
    BY <1>0, <2>1, <2>2, RestAt
  <2>4. RestBefore(s, 4)
    BY <1>0, <2>1, <2>2, RestAt
  <2>5. OffBefore(s, 4)
    BY <2>1, OffAt
  <2>6. s[3] \notin SamplerSt
    BY <2>1, PowersAre, StatementsApart
  <2>7. StoppedBefore(s, 4)
    BY <2>1, <2>6, StoppedAt
  <2> QED BY <2>3, <2>4, <2>5, <2>7 DEF s
<1>3. /\ RestBefore(RunStopped, 4) /\ RestBefore(RunStopped, 5) /\ OffBefore(RunStopped, 5)
     /\ StoppedBefore(RunStopped, 5)
  <2> DEFINE s == RunStopped
  <2>1. s[1] = Motor(CoastAll) /\ s[2] = Motor(CoastAll) /\ s[3] = Encoder("Stop") /\ s[4] = Motor(Disable)
    BY EndingsSay DEF Disable
  <2> HIDE DEF s
  <2>2. s[3] \notin TrackSt /\ s[4] \notin TrackSt
    BY <2>1, Kinds, PowersAre, StatementsApart
  <2>3. RestBefore(s, 4)
    BY <1>0, <2>1, <2>2, RestAt
  <2>4. RestBefore(s, 5)
    BY <1>0, <2>1, <2>2, RestAt
  <2>5. OffBefore(s, 5)
    BY <2>1, OffAt
  <2>6. s[4] \notin SamplerSt
    BY <2>1, PowersAre, StatementsApart
  <2>7. StoppedBefore(s, 5)
    BY <2>1, <2>6, StoppedAt
  <2> QED BY <2>3, <2>4, <2>5, <2>7 DEF s
<1>4. /\ RestBefore(MotorPhaseStopped, 2) /\ RestBefore(MotorPhaseStopped, 3) /\ OffBefore(MotorPhaseStopped, 3)
  <2> DEFINE s == MotorPhaseStopped
  <2>1. s[1] = Motor(CoastAll) /\ s[2] = Motor(Disable)
    BY EndingsSay DEF Disable
  <2> HIDE DEF s
  <2>2. s[2] \notin TrackSt
    BY <2>1, Kinds, PowersAre, StatementsApart
  <2>3. RestBefore(s, 2)
    BY <1>0, <2>1, <2>2, RestAt
  <2>4. RestBefore(s, 3)
    BY <1>0, <2>1, <2>2, RestAt
  <2>5. OffBefore(s, 3)
    BY <2>1, OffAt
  <2> QED BY <2>3, <2>4, <2>5 DEF s
<1>5. /\ RestBefore(VerifyFailed, 3) /\ RestBefore(VerifyFailed, 4) /\ OffBefore(VerifyFailed, 4)
  <2> DEFINE s == VerifyFailed
  <2>1. s[1] = Motor(CoastAll) /\ s[2] = WaitLong /\ s[3] = Motor(Disable)
    BY EndingsSay DEF Disable
  <2> HIDE DEF s
  <2>2. s[2] \notin TrackSt /\ s[3] \notin TrackSt
    BY <2>1, Kinds, PowersAre, StatementsApart
  <2>3. RestBefore(s, 3)
    BY <1>0, <2>1, <2>2, RestAt
  <2>4. RestBefore(s, 4)
    BY <1>0, <2>1, <2>2, RestAt
  <2>5. OffBefore(s, 4)
    BY <2>1, OffAt
  <2> QED BY <2>3, <2>4, <2>5 DEF s
<1>6. /\ RestBefore(CoastStopped, 3) /\ RestBefore(CoastStopped, 4) /\ OffBefore(CoastStopped, 4)
  <2> DEFINE s == CoastStopped
  <2>1. s[1] = Motor(BrakeAll) /\ s[2] = Wait /\ s[3] = Motor(Disable)
    BY EndingsSay DEF Disable
  <2> HIDE DEF s
  <2>2. s[2] \notin TrackSt /\ s[3] \notin TrackSt
    BY <2>1, Kinds, PowersAre, StatementsApart
  <2>3. RestBefore(s, 3)
    BY <1>0, <2>1, <2>2, RestAt
  <2>4. RestBefore(s, 4)
    BY <1>0, <2>1, <2>2, RestAt
  <2>5. OffBefore(s, 4)
    BY <2>1, OffAt
  <2> QED BY <2>3, <2>4, <2>5 DEF s
<1> QED BY <1>1, <1>2, <1>3, <1>4, <1>5, <1>6

--------------------------------------------------------------------------------
(* What every statement is like.                                            *)

\* The procedure a script belongs to.
Owner(n) ==
  IF n \in {"MotorCalibration", "RunStopped", "MotorStopped", "MotorFailed"}
  THEN "MotorCalibration"
  ELSE IF n \in {"MagCalibration", "MagStopped", "MotorPhaseStopped", "VerifyFailed"}
  THEN "MagCalibration"
  ELSE "CoastAndAvoid"

Outcomes == {"Stopped", "Failed", "Complete", "ByHand"}
Diverting == {"WaitOr", "Check", "Watch", "Repeat", "Compute", "Rotate", "Verify"}
StartsTrack(st) == st.do = "Motor" /\ st.what[1] = "SetTracks"

\* The scripts coast-and-avoid repeats, and those that are started.
Rounds == {"RoundRight", "RoundLeft"}
Procedures == {"MotorCalibration", "MagCalibration", "CoastAndAvoid"}

\* A procedure ends with the tracks told to rest, the drivers disabled and the
\* sampler stopped; only before its motor phase it leaves them as they were.
EndMeant(n, s, i) ==
  \/ n = "MagStopped" /\ s[i].what = "ByHand"
  \/ /\ s[i].what # "ByHand" /\ RestBefore(s, i) /\ OffBefore(s, i)
     /\ Owner(n) = "MotorCalibration" => StoppedBefore(s, i)
\* The pulses are read under the run of their track, after a long wait.
PulsesMeant(n, s, i) ==
  /\ n = "MotorCalibration" /\ s[i].what \in Track /\ i = Base(s[i].what) + 11
  /\ Before(s, i, TrackSt, {Motor(RunOf(s[i].what))}) /\ OnBefore(s, i)
  /\ i > 1 /\ s[i - 1] = WaitOr("RunStopped")
\* The field is measured before the first run, or under the run of its step.
ReadingMeant(n, s, i) ==
  /\ n = "MagCalibration" /\ OnBefore(s, i) /\ LongBefore(s, i)
  /\ \/ s[i].what = 0 /\ i = 10
     \/ /\ s[i].what \in 1..6
        /\ Before(s, i, TrackSt, {Motor(InterferenceSteps[s[i].what])})
\* What may be sent before the driver is up.
RunMeant(n, s, i) ==
  /\ \/ LongBefore(s, i) \/ n \in Rounds \/ (n = "CoastAndAvoid" /\ i = 6)
     \/ (n = "MotorCalibration" /\ i = 13)
  /\ n = "MotorCalibration" => \E side \in Track : i = Base(side) + 9 /\ s[i].what = RunOf(side)

\* Of place i of the script s with the name n.
Shape(n, s, i) ==
  /\ s[i].do \notin {"End", "Repeat"} => i < Len(s)
  /\ s[i].do \in Diverting =>
        /\ s[i].orElse \in Names /\ Owner(s[i].orElse) = Owner(n)
        /\ s[i].orElse = "MagStopped" => n = "MagCalibration" /\ i <= 6
        /\ s[i].orElse \in Rounds => LongBefore(s, i)
        /\ s[i].orElse \notin Procedures
  /\ s[i].do = "Motor" =>
        /\ s[i].what \in Command /\ s[i].what[1] \in TrackWords \cup {"Enable", "Disable"}
        /\ s[i] = Motor(s[i].what)
        /\ s[i].what = Disable => RestBefore(s, i)
  /\ s[i].do = "Encoder" =>
        /\ Owner(n) = "MotorCalibration" /\ s[i].what \in {"Start", "Stop", "Reset"}
        /\ s[i] = Encoder(s[i].what)
  /\ StartsTrack(s[i]) => i > 1 /\ s[i - 1].do = "Check" /\ RunMeant(n, s, i)
  /\ s[i].do = "ReadPulses" => PulsesMeant(n, s, i)
  /\ s[i].do \in {"Measure", "Verify"} => ReadingMeant(n, s, i)
  /\ s[i].do = "End" => s[i].what \in Outcomes /\ EndMeant(n, s, i)

LEMMA WaitShape ==
  ASSUME NEW n, NEW s, NEW i, i < Len(s), s[i] = Wait \/ s[i] = WaitLong
  PROVE  Shape(n, s, i)
BY DEF Shape, Diverting, StartsTrack, Wait, WaitLong, Statement

LEMMA PlainShape ==
  ASSUME NEW n, NEW s, NEW i, i < Len(s),
         \/ s[i].do \in {"Clear", "SendFactors"}
         \/ s[i].do = "ReadPulses" /\ PulsesMeant(n, s, i)
         \/ s[i].do = "Measure" /\ ReadingMeant(n, s, i)
  PROVE  Shape(n, s, i)
BY DEF Shape, Diverting, StartsTrack

LEMMA MotorShape ==
  ASSUME NEW n, NEW s, NEW i, i < Len(s),
         \/ s[i] = Motor(BrakeAll) \/ s[i] = Motor(CoastAll)
         \/ s[i] = Motor(SetAllDriversEnable(TRUE))
         \/ s[i] = Motor(Disable) /\ RestBefore(s, i)
  PROVE  Shape(n, s, i)
<1>1. PICK c \in {BrakeAll, CoastAll, SetAllDriversEnable(TRUE), Disable} :
        s[i] = Motor(c) /\ (c = Disable => RestBefore(s, i))
  <2>1. BrakeAll # Disable /\ CoastAll # Disable /\ SetAllDriversEnable(TRUE) # Disable
    BY DEF BrakeAll, CoastAll, SetAllDriversEnable, Disable
  <2> QED BY <2>1
<1>2. c \in Command /\ c[1] \in {"BrakeAll", "CoastAll", "Enable", "Disable"}
  BY CommandsExist DEF BrakeAll, CoastAll, SetAllDriversEnable, Disable
<1>3. s[i].do = "Motor" /\ s[i].what = c /\ s[i] = Motor(s[i].what)
  BY <1>1 DEF Motor, Statement
<1> QED BY <1>1, <1>2, <1>3 DEF Shape, Diverting, StartsTrack, TrackWords

LEMMA RunShape ==
  ASSUME NEW n, NEW s, NEW i, i < Len(s), i > 1, NEW c \in Command,
         s[i] = Motor(c), c[1] = "SetTracks", s[i - 1].do = "Check",
         RunMeant(n, s, i)
  PROVE  Shape(n, s, i)
<1>1. s[i].do = "Motor" /\ s[i].what = c /\ s[i] = Motor(s[i].what)
  BY DEF Motor, Statement
<1>2. c # Disable
  BY DEF Disable, SetAllDriversEnable
<1> QED BY <1>1, <1>2 DEF Shape, Diverting, StartsTrack, TrackWords

LEMMA EncoderShape ==
  ASSUME NEW n, NEW s, NEW i, i < Len(s), Owner(n) = "MotorCalibration",
         \/ s[i] = Encoder("Start") \/ s[i] = Encoder("Stop")
         \/ s[i] = Encoder("Reset")
  PROVE  Shape(n, s, i)
BY DEF Shape, Diverting, StartsTrack, Encoder, Statement

LEMMA DivertShape ==
  ASSUME NEW n, NEW s, NEW i, i < Len(s),
         s[i].do \in Diverting, s[i].orElse \in Names, Owner(s[i].orElse) = Owner(n),
         s[i].orElse = "MagStopped" => n = "MagCalibration" /\ i <= 6,
         s[i].orElse \in Rounds => LongBefore(s, i),
         s[i].orElse \notin Procedures,
         s[i].do = "Verify" => ReadingMeant(n, s, i)
  PROVE  Shape(n, s, i)
BY DEF Shape, Diverting, StartsTrack

LEMMA EndShape ==
  ASSUME NEW n, NEW s, NEW i, NEW how \in Outcomes, s[i] = End(how), EndMeant(n, s, i)
  PROVE  Shape(n, s, i)
BY DEF Shape, Diverting, StartsTrack, End, Statement

LEMMA EndingsShape ==
  /\ \A i \in 1..4 : Shape("MotorStopped", MotorStopped, i)
  /\ \A i \in 1..4 : Shape("MotorFailed", MotorFailed, i)
  /\ \A i \in 1..5 : Shape("RunStopped", RunStopped, i)
  /\ \A i \in 1..1 : Shape("MagStopped", MagStopped, i)
  /\ \A i \in 1..3 : Shape("MotorPhaseStopped", MotorPhaseStopped, i)
  /\ \A i \in 1..4 : Shape("VerifyFailed", VerifyFailed, i)
  /\ \A i \in 1..4 : Shape("CoastStopped", CoastStopped, i)
<1>1. ASSUME NEW i \in 1..4 PROVE Shape("MotorStopped", MotorStopped, i)
  <2>1. Len(MotorStopped) = 4
    BY EndingsAre
  <2>2. CASE i = 1
    <3>1. MotorStopped[i] = Motor(CoastAll)
      BY <2>2, EndingsSay
    <3>2. i < Len(MotorStopped)
      BY <2>1, <2>2
    <3> QED BY <3>1, <3>2, MotorShape
  <2>3. CASE i = 2
    <3>1. MotorStopped[i] = Encoder("Stop")
      BY <2>3, EndingsSay
    <3>2. i < Len(MotorStopped)
      BY <2>1, <2>3
    <3> QED BY <3>1, <3>2, EncoderShape DEF Owner
  <2>4. CASE i = 3
    <3>1. MotorStopped[i] = Motor(Disable)
      BY <2>4, EndingsSay DEF Disable
    <3>2. i < Len(MotorStopped)
      BY <2>1, <2>4
    <3>3. RestBefore(MotorStopped, i)
      BY <2>4, EndingsRest
    <3> QED BY <3>1, <3>2, <3>3, MotorShape
  <2>5. CASE i = 4
    <3>1. MotorStopped[i] = End("Stopped")
      BY <2>5, EndingsSay
    <3>2. EndMeant("MotorStopped", MotorStopped, i)
      BY <2>5, <3>1, EndingsRest DEF EndMeant, End, Statement, Owner
    <3> QED BY <3>1, <3>2, EndShape DEF Outcomes
  <2> QED BY <2>2, <2>3, <2>4, <2>5
<1>2. ASSUME NEW i \in 1..4 PROVE Shape("MotorFailed", MotorFailed, i)
  <2>1. Len(MotorFailed) = 4
    BY EndingsAre
  <2>2. CASE i = 1
    <3>1. MotorFailed[i] = Motor(CoastAll)
      BY <2>2, EndingsSay
    <3>2. i < Len(MotorFailed)
      BY <2>1, <2>2
    <3> QED BY <3>1, <3>2, MotorShape
  <2>3. CASE i = 2
    <3>1. MotorFailed[i] = Encoder("Stop")
      BY <2>3, EndingsSay
    <3>2. i < Len(MotorFailed)
      BY <2>1, <2>3
    <3> QED BY <3>1, <3>2, EncoderShape DEF Owner
  <2>4. CASE i = 3
    <3>1. MotorFailed[i] = Motor(Disable)
      BY <2>4, EndingsSay DEF Disable
    <3>2. i < Len(MotorFailed)
      BY <2>1, <2>4
    <3>3. RestBefore(MotorFailed, i)
      BY <2>4, EndingsRest
    <3> QED BY <3>1, <3>2, <3>3, MotorShape
  <2>5. CASE i = 4
    <3>1. MotorFailed[i] = End("Failed")
      BY <2>5, EndingsSay
    <3>2. EndMeant("MotorFailed", MotorFailed, i)
      BY <2>5, <3>1, EndingsRest DEF EndMeant, End, Statement, Owner
    <3> QED BY <3>1, <3>2, EndShape DEF Outcomes
  <2> QED BY <2>2, <2>3, <2>4, <2>5
<1>3. ASSUME NEW i \in 1..5 PROVE Shape("RunStopped", RunStopped, i)
  <2>1. Len(RunStopped) = 5
    BY EndingsAre
  <2>2. CASE i = 1
    <3>1. RunStopped[i] = Motor(CoastAll)
      BY <2>2, EndingsSay
    <3>2. i < Len(RunStopped)
      BY <2>1, <2>2
    <3> QED BY <3>1, <3>2, MotorShape
  <2>3. CASE i = 2
    <3>1. RunStopped[i] = Motor(CoastAll)
      BY <2>3, EndingsSay
    <3>2. i < Len(RunStopped)
      BY <2>1, <2>3
    <3> QED BY <3>1, <3>2, MotorShape
  <2>4. CASE i = 3
    <3>1. RunStopped[i] = Encoder("Stop")
      BY <2>4, EndingsSay
    <3>2. i < Len(RunStopped)
      BY <2>1, <2>4
    <3> QED BY <3>1, <3>2, EncoderShape DEF Owner
  <2>5. CASE i = 4
    <3>1. RunStopped[i] = Motor(Disable)
      BY <2>5, EndingsSay DEF Disable
    <3>2. i < Len(RunStopped)
      BY <2>1, <2>5
    <3>3. RestBefore(RunStopped, i)
      BY <2>5, EndingsRest
    <3> QED BY <3>1, <3>2, <3>3, MotorShape
  <2>6. CASE i = 5
    <3>1. RunStopped[i] = End("Stopped")
      BY <2>6, EndingsSay
    <3>2. EndMeant("RunStopped", RunStopped, i)
      BY <2>6, <3>1, EndingsRest DEF EndMeant, End, Statement, Owner
    <3> QED BY <3>1, <3>2, EndShape DEF Outcomes
  <2> QED BY <2>2, <2>3, <2>4, <2>5, <2>6
<1>4. ASSUME NEW i \in 1..1 PROVE Shape("MagStopped", MagStopped, i)
  <2>1. Len(MagStopped) = 1
    BY EndingsAre
  <2>2. CASE i = 1
    <3>1. MagStopped[i] = End("ByHand")
      BY <2>2, EndingsSay
    <3>2. EndMeant("MagStopped", MagStopped, i)
      BY <2>2, <3>1 DEF EndMeant, End, Statement, Owner
    <3> QED BY <3>1, <3>2, EndShape DEF Outcomes
  <2> QED BY <2>2
<1>5. ASSUME NEW i \in 1..3 PROVE Shape("MotorPhaseStopped", MotorPhaseStopped, i)
  <2>1. Len(MotorPhaseStopped) = 3
    BY EndingsAre
  <2>2. CASE i = 1
    <3>1. MotorPhaseStopped[i] = Motor(CoastAll)
      BY <2>2, EndingsSay
    <3>2. i < Len(MotorPhaseStopped)
      BY <2>1, <2>2
    <3> QED BY <3>1, <3>2, MotorShape
  <2>3. CASE i = 2
    <3>1. MotorPhaseStopped[i] = Motor(Disable)
      BY <2>3, EndingsSay DEF Disable
    <3>2. i < Len(MotorPhaseStopped)
      BY <2>1, <2>3
    <3>3. RestBefore(MotorPhaseStopped, i)
      BY <2>3, EndingsRest
    <3> QED BY <3>1, <3>2, <3>3, MotorShape
  <2>4. CASE i = 3
    <3>1. MotorPhaseStopped[i] = End("Stopped")
      BY <2>4, EndingsSay
    <3>2. EndMeant("MotorPhaseStopped", MotorPhaseStopped, i)
      BY <2>4, <3>1, EndingsRest DEF EndMeant, End, Statement, Owner
    <3> QED BY <3>1, <3>2, EndShape DEF Outcomes
  <2> QED BY <2>2, <2>3, <2>4
<1>6. ASSUME NEW i \in 1..4 PROVE Shape("VerifyFailed", VerifyFailed, i)
  <2>1. Len(VerifyFailed) = 4
    BY EndingsAre
  <2>2. CASE i = 1
    <3>1. VerifyFailed[i] = Motor(CoastAll)
      BY <2>2, EndingsSay
    <3>2. i < Len(VerifyFailed)
      BY <2>1, <2>2
    <3> QED BY <3>1, <3>2, MotorShape
  <2>3. CASE i = 2
    <3>1. VerifyFailed[i] = WaitLong
      BY <2>3, EndingsSay
    <3>2. i < Len(VerifyFailed)
      BY <2>1, <2>3
    <3> QED BY <3>1, <3>2, WaitShape
  <2>4. CASE i = 3
    <3>1. VerifyFailed[i] = Motor(Disable)
      BY <2>4, EndingsSay DEF Disable
    <3>2. i < Len(VerifyFailed)
      BY <2>1, <2>4
    <3>3. RestBefore(VerifyFailed, i)
      BY <2>4, EndingsRest
    <3> QED BY <3>1, <3>2, <3>3, MotorShape
  <2>5. CASE i = 4
    <3>1. VerifyFailed[i] = End("Failed")
      BY <2>5, EndingsSay
    <3>2. EndMeant("VerifyFailed", VerifyFailed, i)
      BY <2>5, <3>1, EndingsRest DEF EndMeant, End, Statement, Owner
    <3> QED BY <3>1, <3>2, EndShape DEF Outcomes
  <2> QED BY <2>2, <2>3, <2>4, <2>5
<1>7. ASSUME NEW i \in 1..4 PROVE Shape("CoastStopped", CoastStopped, i)
  <2>1. Len(CoastStopped) = 4
    BY EndingsAre
  <2>2. CASE i = 1
    <3>1. CoastStopped[i] = Motor(BrakeAll)
      BY <2>2, EndingsSay
    <3>2. i < Len(CoastStopped)
      BY <2>1, <2>2
    <3> QED BY <3>1, <3>2, MotorShape
  <2>3. CASE i = 2
    <3>1. CoastStopped[i] = Wait
      BY <2>3, EndingsSay
    <3>2. i < Len(CoastStopped)
      BY <2>1, <2>3
    <3> QED BY <3>1, <3>2, WaitShape
  <2>4. CASE i = 3
    <3>1. CoastStopped[i] = Motor(Disable)
      BY <2>4, EndingsSay DEF Disable
    <3>2. i < Len(CoastStopped)
      BY <2>1, <2>4
    <3>3. RestBefore(CoastStopped, i)
      BY <2>4, EndingsRest
    <3> QED BY <3>1, <3>2, <3>3, MotorShape
  <2>5. CASE i = 4
    <3>1. CoastStopped[i] = End("Stopped")
      BY <2>5, EndingsSay
    <3>2. EndMeant("CoastStopped", CoastStopped, i)
      BY <2>5, <3>1, EndingsRest DEF EndMeant, End, Statement, Owner
    <3> QED BY <3>1, <3>2, EndShape DEF Outcomes
  <2> QED BY <2>2, <2>3, <2>4, <2>5
<1> QED BY <1>1, <1>2, <1>3, <1>4, <1>5, <1>6, <1>7

LEMMA RoundRuns ==
  ASSUME NEW clockwise \in BOOLEAN,
         NEW c \in {SetTracks(80, 80), SetTracks(-60, -60), CoastTurn(clockwise)}
  PROVE  c \in Command /\ c[1] = "SetTracks"
<1>1. 80 \in Speed /\ 60 \in Speed /\ -60 \in Speed
  BY DEF Speed
<1>2. c \in Command
  BY <1>1, CommandsExist DEF CoastTurn
<1> QED BY <1>2 DEF CoastTurn, SetTracks

RoundName(clockwise) == IF clockwise THEN "RoundRight" ELSE "RoundLeft"

\* As a script of its own, and as the end of coast-and-avoid.
LEMMA RoundShape ==
  ASSUME NEW clockwise \in BOOLEAN, NEW n \in {"RoundRight", "RoundLeft", "CoastAndAvoid"},
         NEW s, NEW b \in {0, 4}, n = "CoastAndAvoid" => b = 4, Len(s) = b + 18,
         Follows(s, CoastRound(clockwise), b, 18), NEW j \in 1..18, NEW i, i = b + j
  PROVE  Shape(n, s, i)
<1> DEFINE r == CoastRound(clockwise)
<1>1. s[i] = r[j] /\ (j > 1 => s[i - 1] = r[j - 1])
  <2>1. s[b + j] = r[j]
    BY DEF Follows
  <2>2. CASE j > 1
    <3>1. j - 1 \in 1..18 /\ b + (j - 1) = i - 1
      BY <2>2
    <3>2. s[b + (j - 1)] = r[j - 1]
      BY <3>1 DEF Follows
    <3> QED BY <2>1, <3>1, <3>2
  <2> QED BY <2>1, <2>2
<1>2. (j < 18 => i < Len(s)) /\ (j > 1 => i > 1)
  OBVIOUS
<1>3. Owner(n) = "CoastAndAvoid" /\ n # "MotorCalibration"
  BY DEF Owner
<1>23. j > 3 => LongBefore(s, i)
  <2>1. s[b + 3] = Statement("Watch", "none", "CoastStopped")
    <3>1. s[b + 3] = r[3]
      BY DEF Follows
    <3> QED BY <3>1, CoastRoundIs
  <2>2. s[b + 3] \in LongSt
    BY <2>1 DEF LongSt
  <2>3. j > 3 => b + 3 \in 1..(i - 1) /\ i \in Nat
    OBVIOUS
  <2> HIDE DEF r
  <2> QED BY <2>2, <2>3, BeforeAt DEF LongBefore
<1>4. CASE j = 1
  <2>1. s[i] = Check("CoastStopped") /\ i < Len(s)
    BY <1>1, <1>2, <1>4, CoastRoundIs
  <2>2. s[i].do \in Diverting \ {"Verify"} /\ s[i].orElse = "CoastStopped"
    BY <2>1 DEF Check, Statement, Diverting
  <2>3. Owner("CoastStopped") = Owner(n) /\ "CoastStopped" \in Names
    BY <1>3 DEF Owner, Names
  <2> QED BY <2>1, <2>2, <2>3, DivertShape DEF Rounds, Procedures
<1>5. CASE j = 2
  <2>1. s[i] = Motor(SetTracks(80, 80)) /\ i < Len(s) /\ i > 1
    BY <1>1, <1>2, <1>5, CoastRoundIs
  <2>2. s[i - 1] = Check("CoastStopped")
    <3>1. s[i - 1] = r[1]
      BY <1>1, <1>5
    <3> QED BY <3>1, CoastRoundIs
  <2>3. s[i - 1].do = "Check"
    BY <2>2 DEF Check, Statement
  <2>4. SetTracks(80, 80) \in Command /\ SetTracks(80, 80)[1] = "SetTracks"
    BY RoundRuns
  <2>5. RunMeant(n, s, i)
    BY <1>3, <1>5 DEF RunMeant, Rounds
  <2> QED BY <2>1, <2>3, <2>4, <2>5, RunShape
<1>6. CASE j = 3
  <2>1. s[i] = Statement("Watch", "none", "CoastStopped") /\ i < Len(s)
    BY <1>1, <1>2, <1>6, CoastRoundIs
  <2>2. s[i].do \in Diverting \ {"Verify"} /\ s[i].orElse = "CoastStopped"
    BY <2>1 DEF Check, Statement, Diverting
  <2>3. Owner("CoastStopped") = Owner(n) /\ "CoastStopped" \in Names
    BY <1>3 DEF Owner, Names
  <2> QED BY <2>1, <2>2, <2>3, DivertShape DEF Rounds, Procedures
<1>7. CASE j = 4
  <2>1. s[i] = Motor(BrakeAll) /\ i < Len(s)
    BY <1>1, <1>2, <1>7, CoastRoundIs
  <2> QED BY <2>1, MotorShape
<1>8. CASE j = 5
  <2>1. s[i] = Wait /\ i < Len(s)
    BY <1>1, <1>2, <1>8, CoastRoundIs
  <2> QED BY <2>1, WaitShape
<1>9. CASE j = 6
  <2>1. s[i] = Check("CoastStopped") /\ i < Len(s)
    BY <1>1, <1>2, <1>9, CoastRoundIs
  <2>2. s[i].do \in Diverting \ {"Verify"} /\ s[i].orElse = "CoastStopped"
    BY <2>1 DEF Check, Statement, Diverting
  <2>3. Owner("CoastStopped") = Owner(n) /\ "CoastStopped" \in Names
    BY <1>3 DEF Owner, Names
  <2> QED BY <2>1, <2>2, <2>3, DivertShape DEF Rounds, Procedures
<1>10. CASE j = 7
  <2>1. s[i] = Motor(SetTracks(-60, -60)) /\ i < Len(s) /\ i > 1
    BY <1>1, <1>2, <1>10, CoastRoundIs
  <2>2. s[i - 1] = Check("CoastStopped")
    <3>1. s[i - 1] = r[6]
      BY <1>1, <1>10
    <3> QED BY <3>1, CoastRoundIs
  <2>3. s[i - 1].do = "Check"
    BY <2>2 DEF Check, Statement
  <2>4. SetTracks(-60, -60) \in Command /\ SetTracks(-60, -60)[1] = "SetTracks"
    BY RoundRuns
  <2>5. RunMeant(n, s, i)
    BY <1>3, <1>23, <1>10 DEF RunMeant
  <2> QED BY <2>1, <2>3, <2>4, <2>5, RunShape
<1>11. CASE j = 8
  <2>1. s[i] = WaitLong /\ i < Len(s)
    BY <1>1, <1>2, <1>11, CoastRoundIs
  <2> QED BY <2>1, WaitShape
<1>12. CASE j = 9
  <2>1. s[i] = Check("CoastStopped") /\ i < Len(s)
    BY <1>1, <1>2, <1>12, CoastRoundIs
  <2>2. s[i].do \in Diverting \ {"Verify"} /\ s[i].orElse = "CoastStopped"
    BY <2>1 DEF Check, Statement, Diverting
  <2>3. Owner("CoastStopped") = Owner(n) /\ "CoastStopped" \in Names
    BY <1>3 DEF Owner, Names
  <2> QED BY <2>1, <2>2, <2>3, DivertShape DEF Rounds, Procedures
<1>13. CASE j = 10
  <2>1. s[i] = Motor(BrakeAll) /\ i < Len(s)
    BY <1>1, <1>2, <1>13, CoastRoundIs
  <2> QED BY <2>1, MotorShape
<1>14. CASE j = 11
  <2>1. s[i] = Wait /\ i < Len(s)
    BY <1>1, <1>2, <1>14, CoastRoundIs
  <2> QED BY <2>1, WaitShape
<1>15. CASE j = 12
  <2>1. s[i] = Check("CoastStopped") /\ i < Len(s)
    BY <1>1, <1>2, <1>15, CoastRoundIs
  <2>2. s[i].do \in Diverting \ {"Verify"} /\ s[i].orElse = "CoastStopped"
    BY <2>1 DEF Check, Statement, Diverting
  <2>3. Owner("CoastStopped") = Owner(n) /\ "CoastStopped" \in Names
    BY <1>3 DEF Owner, Names
  <2> QED BY <2>1, <2>2, <2>3, DivertShape DEF Rounds, Procedures
<1>16. CASE j = 13
  <2>1. s[i] = Motor(CoastTurn(clockwise)) /\ i < Len(s) /\ i > 1
    BY <1>1, <1>2, <1>16, CoastRoundIs
  <2>2. s[i - 1] = Check("CoastStopped")
    <3>1. s[i - 1] = r[12]
      BY <1>1, <1>16
    <3> QED BY <3>1, CoastRoundIs
  <2>3. s[i - 1].do = "Check"
    BY <2>2 DEF Check, Statement
  <2>4. CoastTurn(clockwise) \in Command /\ CoastTurn(clockwise)[1] = "SetTracks"
    BY RoundRuns
  <2>5. RunMeant(n, s, i)
    BY <1>3, <1>23, <1>16 DEF RunMeant
  <2> QED BY <2>1, <2>3, <2>4, <2>5, RunShape
<1>17. CASE j = 14
  <2>1. s[i] = WaitLong /\ i < Len(s)
    BY <1>1, <1>2, <1>17, CoastRoundIs
  <2> QED BY <2>1, WaitShape
<1>18. CASE j = 15
  <2>1. s[i] = Check("CoastStopped") /\ i < Len(s)
    BY <1>1, <1>2, <1>18, CoastRoundIs
  <2>2. s[i].do \in Diverting \ {"Verify"} /\ s[i].orElse = "CoastStopped"
    BY <2>1 DEF Check, Statement, Diverting
  <2>3. Owner("CoastStopped") = Owner(n) /\ "CoastStopped" \in Names
    BY <1>3 DEF Owner, Names
  <2> QED BY <2>1, <2>2, <2>3, DivertShape DEF Rounds, Procedures
<1>19. CASE j = 16
  <2>1. s[i] = Motor(BrakeAll) /\ i < Len(s)
    BY <1>1, <1>2, <1>19, CoastRoundIs
  <2> QED BY <2>1, MotorShape
<1>20. CASE j = 17
  <2>1. s[i] = Wait /\ i < Len(s)
    BY <1>1, <1>2, <1>20, CoastRoundIs
  <2> QED BY <2>1, WaitShape
<1>21. CASE j = 18
  <2>1. s[i] = Statement("Repeat", "none", NextRound(clockwise))
    BY <1>1, <1>21, CoastRoundIs
  <2>2. s[i].do = "Repeat" /\ s[i].orElse = NextRound(clockwise)
    BY <2>1 DEF Statement
  <2>3. /\ Owner(NextRound(clockwise)) = Owner(n) /\ NextRound(clockwise) \in Names
        /\ NextRound(clockwise) # "MagStopped" /\ NextRound(clockwise) \notin Procedures
    BY <1>3 DEF Owner, Names, NextRound, Procedures
  <2>4. LongBefore(s, i)
    BY <1>21, <1>23
  <2> QED BY <2>2, <2>3, <2>4 DEF Shape, Diverting, StartsTrack
<1>22. \/ j = 1 \/ j = 2 \/ j = 3 \/ j = 4 \/ j = 5 \/ j = 6 \/ j = 7 \/ j = 8 \/ j = 9
       \/ j = 10 \/ j = 11 \/ j = 12 \/ j = 13 \/ j = 14 \/ j = 15 \/ j = 16 \/ j = 17 \/ j = 18
  OBVIOUS
<1> QED BY <1>4, <1>5, <1>6, <1>7, <1>8, <1>9, <1>10, <1>11, <1>12,
         <1>13, <1>14, <1>15, <1>16, <1>17, <1>18, <1>19, <1>20, <1>21, <1>22

\* What stands before a place of the calibrations.
LEMMA MotorLong ==
  ASSUME NEW i \in 15..35
  PROVE  LongBefore(MotorCalibration, i)
<1> DEFINE s == MotorCalibration
<1>1. s[4 + 10] = MeasureTrack("Left")[10]
  BY MotorCalibrationIs DEF Track, Base
<1>2. s[14] = WaitOr("RunStopped")
  BY <1>1, MeasureTrackIs DEF Track
<1>3. s[14] \in LongSt
  BY <1>2 DEF LongSt, Names
<1> SUFFICES LongBefore(s, i)
  OBVIOUS
<1> HIDE DEF s
<1> QED BY <1>3, BeforeAt DEF LongBefore

LEMMA MotorOn ==
  ASSUME NEW i \in 2..34
  PROVE  OnBefore(MotorCalibration, i)
<1>1. MotorCalibration[1] = Motor(Enable)
  BY MotorEnds DEF Enable
<1>2. \A m \in 2..(i - 1) : MotorCalibration[m] \notin PowerSt
  BY MotorPowerless
<1>3. OnBefore(MotorCalibration, i)
  BY <1>1, <1>2, OnAt
<1> QED BY <1>3

LEMMA MagOn ==
  ASSUME NEW i \in 10..85
  PROVE  OnBefore(MagCalibration, i) /\ LongBefore(MagCalibration, i)
<1>1. MagCalibration[7] = Motor(Enable) /\ MagCalibration[9] \in LongSt
  BY MagEnds DEF Enable, LongSt
<1>2. \A m \in 8..(i - 1) : MagCalibration[m] \notin PowerSt
  BY MagPowerless
<1> DEFINE s == MagCalibration
<1> SUFFICES OnBefore(s, i) /\ LongBefore(s, i)
  OBVIOUS
<1>3. s[7] = Motor(Enable) /\ s[9] \in LongSt /\ \A m \in 8..(i - 1) : s[m] \notin PowerSt
  BY <1>1, <1>2
<1> HIDE DEF s
<1>4. OnBefore(s, i)
  <2>1. i \in Nat /\ 7 \in 1..(i - 1) /\ 7 + 1 = 8
    OBVIOUS
  <2> QED BY <1>3, <2>1, OnAt
<1>5. LongBefore(s, i)
  <2>1. i \in Nat /\ 9 \in 1..(i - 1)
    OBVIOUS
  <2>2. \A m \in (9 + 1)..(i - 1) : s[m] \notin {}
    OBVIOUS
  <2> QED BY <1>3, <2>1, <2>2, BeforeAt DEF LongBefore
<1> QED BY <1>4, <1>5

LEMMA MeasureTrackShape ==
  ASSUME NEW side \in Track, NEW j \in 1..13
  PROVE  Shape("MotorCalibration", MotorCalibration, Base(side) + j)
<1> DEFINE s == MotorCalibration
           m == MeasureTrack(side)
           i == Base(side) + j
           n == "MotorCalibration"
<1>1. s[i] = m[j] /\ (j > 1 => s[i - 1] = m[j - 1])
  <2>1. \A x \in 1..13 : s[Base(side) + x] = m[x]
    BY MotorCalibrationIs
  <2>2. Base(side) \in {4, 17}
    BY DEF Base
  <2> HIDE DEF s, m
  <2>3. s[i] = m[j]
    BY <2>1
  <2>4. CASE j > 1
    <3>1. j - 1 \in 1..13 /\ Base(side) + (j - 1) = i - 1
      BY <2>2, <2>4
    <3>2. s[Base(side) + (j - 1)] = m[j - 1]
      BY <2>1, <3>1
    <3> QED BY <2>3, <3>1, <3>2
  <2> QED BY <2>3, <2>4
<1>2. i < Len(s) /\ i > 1
  <2>1. Len(s) = 35 /\ Base(side) \in {4, 17}
    BY MotorCalibrationIs DEF Base
  <2> QED BY <2>1
<1>3. Owner(n) = "MotorCalibration" /\ n = "MotorCalibration"
  BY DEF Owner
<1>18. /\ Base(side) = 4 \/ (Base(side) = 17 /\ j >= 1)
       /\ i = Base(side) + j /\ (i >= 15 => LongBefore(s, i)) /\ OnBefore(s, i)
       /\ RunOf(side) \in Tracks
       /\ j > 2 => s[i - 2] = m[j - 2]
  <2>1. Base(side) = 4 \/ Base(side) = 17
    BY DEF Base
  <2>2. i \in 2..34 /\ (i >= 15 => i \in 15..35)
    BY <2>1
  <2>3. (i >= 15 => LongBefore(s, i)) /\ OnBefore(s, i)
    BY <2>2, MotorLong, MotorOn
  <2>4. RunOf(side) \in Tracks
    BY RunsExist DEF Tracks, TrackWords, RunOf, SetTracks
  <2>5. \A x \in 1..13 : s[Base(side) + x] = m[x]
    BY MotorCalibrationIs
  <2>7. i = Base(side) + j
    OBVIOUS
  <2>6. j > 2 => s[i - 2] = m[j - 2]
    <3> SUFFICES ASSUME j > 2 PROVE s[i - 2] = m[j - 2]
      OBVIOUS
    <3> HIDE DEF s, m
    <3>1. PICK x \in 1..13 : x = j - 2 /\ Base(side) + x = i - 2
      BY <2>1, <2>7
    <3>2. s[Base(side) + x] = m[x]
      BY <2>5
    <3>3. s[i - 2] = m[j - 2]
      BY <3>1, <3>2
    <3> HIDE DEF i
    <3> QED BY <3>3
  <2> HIDE DEF i, s, m
  <2> QED BY <2>1, <2>3, <2>4, <2>6, <2>7
<1> SUFFICES Shape(n, s, i)
  OBVIOUS
<1> HIDE DEF i, s, m, n
<1>4. CASE j = 1
  <2>1. s[i] = Encoder("Stop") /\ i < Len(s) /\ i > 1
    BY <1>1, <1>2, <1>4, MeasureTrackIs DEF m
  <2> QED BY <1>3, <2>1, EncoderShape
<1>5. CASE j = 2
  <2>1. s[i] = Wait /\ i < Len(s) /\ i > 1
    BY <1>1, <1>2, <1>5, MeasureTrackIs DEF m
  <2> QED BY <2>1, WaitShape
<1>6. CASE j = 3
  <2>1. s[i] = Encoder("Reset") /\ i < Len(s) /\ i > 1
    BY <1>1, <1>2, <1>6, MeasureTrackIs DEF m
  <2> QED BY <1>3, <2>1, EncoderShape
<1>7. CASE j = 4
  <2>1. s[i] = Wait /\ i < Len(s) /\ i > 1
    BY <1>1, <1>2, <1>7, MeasureTrackIs DEF m
  <2> QED BY <2>1, WaitShape
<1>8. CASE j = 5
  <2>1. s[i] = Statement("Clear", "none", "none") /\ i < Len(s) /\ i > 1
    BY <1>1, <1>2, <1>8, MeasureTrackIs DEF m
  <2>2. s[i].do = "Clear"
    BY <2>1 DEF Statement
  <2> QED BY <2>1, <2>2, PlainShape
<1>9. CASE j = 6
  <2>1. s[i] = Encoder("Start") /\ i < Len(s) /\ i > 1
    BY <1>1, <1>2, <1>9, MeasureTrackIs DEF m
  <2> QED BY <1>3, <2>1, EncoderShape
<1>10. CASE j = 7
  <2>1. s[i] = Wait /\ i < Len(s) /\ i > 1
    BY <1>1, <1>2, <1>10, MeasureTrackIs DEF m
  <2> QED BY <2>1, WaitShape
<1>11. CASE j = 8
  <2>1. s[i] = Check("MotorStopped") /\ i < Len(s) /\ i > 1
    BY <1>1, <1>2, <1>11, MeasureTrackIs DEF m
  <2>2. s[i].do \in Diverting \ {"Verify"} /\ s[i].orElse = "MotorStopped"
    BY <2>1 DEF Check, Statement, Diverting
  <2>3. Owner("MotorStopped") = Owner(n) /\ "MotorStopped" \in Names
    BY <1>3 DEF Owner, Names
  <2> QED BY <2>1, <2>2, <2>3, DivertShape DEF Rounds, Procedures
<1>12. CASE j = 9
  <2>1. s[i] = Motor(RunOf(side)) /\ i < Len(s) /\ i > 1
    BY <1>1, <1>2, <1>12, MeasureTrackIs DEF m
  <2>2. s[i - 1].do = "Check"
    <3>1. s[i - 1] = m[8]
      BY <1>1, <1>12
    <3>2. m[8] = Check("MotorStopped")
      BY MeasureTrackIs DEF m
    <3> QED BY <3>1, <3>2 DEF Check, Statement
  <2>3. RunOf(side) \in Command /\ RunOf(side)[1] = "SetTracks"
    BY RunsExist DEF RunOf, SetTracks
  <2>4. RunMeant(n, s, i)
    <3>1. i = 13 \/ i >= 15
      BY <1>12, <1>18
    <3>2. i = Base(side) + 9 /\ s[i].what = RunOf(side)
      BY <1>12, <1>18, <2>1, MotorsDiffer
    <3> QED BY <1>3, <1>18, <3>1, <3>2 DEF RunMeant
  <2> QED BY <2>1, <2>2, <2>3, <2>4, RunShape
<1>13. CASE j = 10
  <2>1. s[i] = WaitOr("RunStopped") /\ i < Len(s) /\ i > 1
    BY <1>1, <1>2, <1>13, MeasureTrackIs DEF m
  <2>2. s[i].do \in Diverting \ {"Verify"} /\ s[i].orElse = "RunStopped"
    BY <2>1 DEF WaitOr, Statement, Diverting
  <2>3. Owner("RunStopped") = Owner(n) /\ "RunStopped" \in Names
    BY <1>3 DEF Owner, Names
  <2> QED BY <2>1, <2>2, <2>3, DivertShape DEF Rounds, Procedures
<1>14. CASE j = 11
  <2>1. s[i] = Statement("ReadPulses", side, "none") /\ i < Len(s) /\ i > 1
    BY <1>1, <1>2, <1>14, MeasureTrackIs DEF m
  <2>2. s[i].do = "ReadPulses" /\ s[i].what = side
    BY <2>1 DEF Statement
  <2>3. s[i - 1] = WaitOr("RunStopped") /\ s[i - 2] = Motor(RunOf(side))
    <3>1. s[i - 1] = m[10] /\ s[i - 2] = m[9]
      BY <1>1, <1>14, <1>18
    <3> QED BY <3>1, MeasureTrackIs DEF m
  <2>4. s[i - 1].do = "WaitOr" /\ s[i - 1] \notin TrackSt
    BY <2>3, Kinds, StatementsApart
  <2>5. Before(s, i, TrackSt, {Motor(RunOf(side))})
    <3>1. i \in Nat /\ i - 2 \in 1..(i - 1) /\ \A x \in ((i - 2) + 1)..(i - 1) : x = i - 1
      BY <1>14, <1>18
    <3> QED BY <2>3, <2>4, <3>1, BeforeAt
  <2>6. PulsesMeant(n, s, i)
    BY <1>3, <1>14, <1>18, <2>1, <2>2, <2>3, <2>5 DEF PulsesMeant
  <2> QED BY <2>1, <2>2, <2>6, PlainShape
<1>15. CASE j = 12
  <2>1. s[i] = Motor(CoastAll) /\ i < Len(s) /\ i > 1
    BY <1>1, <1>2, <1>15, MeasureTrackIs DEF m
  <2> QED BY <2>1, MotorShape
<1>16. CASE j = 13
  <2>1. s[i] = WaitOr("MotorStopped") /\ i < Len(s) /\ i > 1
    BY <1>1, <1>2, <1>16, MeasureTrackIs DEF m
  <2>2. s[i].do \in Diverting \ {"Verify"} /\ s[i].orElse = "MotorStopped"
    BY <2>1 DEF WaitOr, Statement, Diverting
  <2>3. Owner("MotorStopped") = Owner(n) /\ "MotorStopped" \in Names
    BY <1>3 DEF Owner, Names
  <2> QED BY <2>1, <2>2, <2>3, DivertShape DEF Rounds, Procedures
<1>17. j = 1 \/ j = 2 \/ j = 3 \/ j = 4 \/ j = 5 \/ j = 6 \/ j = 7
       \/ j = 8 \/ j = 9 \/ j = 10 \/ j = 11 \/ j = 12 \/ j = 13
  OBVIOUS
<1> QED BY <1>4, <1>5, <1>6, <1>7, <1>8, <1>9, <1>10, <1>11, <1>12, <1>13, <1>14, <1>15, <1>16, <1>17

LEMMA CalibrationsRest ==
  /\ RestBefore(MotorCalibration, 34) /\ RestBefore(MotorCalibration, 35)
  /\ OffBefore(MotorCalibration, 35) /\ StoppedBefore(MotorCalibration, 35)
  /\ RestBefore(MagCalibration, 85) /\ RestBefore(MagCalibration, 87)
  /\ OffBefore(MagCalibration, 87)
<1>0. CoastAll \in Rest
  BY DEF Rest
<1>1. /\ RestBefore(MotorCalibration, 34) /\ RestBefore(MotorCalibration, 35)
      /\ OffBefore(MotorCalibration, 35) /\ StoppedBefore(MotorCalibration, 35)
  <2> DEFINE s == MotorCalibration
  <2>1. s[17 + 12] = MeasureTrack("Right")[12] /\ s[17 + 13] = MeasureTrack("Right")[13]
    BY MotorCalibrationIs DEF Track, Base
  <2>2. s[29] = Motor(CoastAll) /\ s[30] = WaitOr("MotorStopped")
    BY <2>1, MeasureTrackIs DEF Track
  <2>3. /\ s[31] = Statement("Compute", "none", "MotorFailed")
        /\ s[32] = Statement("SendFactors", "none", "none")
        /\ s[33] = Encoder("Stop") /\ s[34] = Motor(Disable)
    BY MotorEnds DEF Disable
  <2> HIDE DEF s
  <2>4. /\ s[30].do = "WaitOr" /\ s[31].do = "Compute" /\ s[32].do = "SendFactors"
        /\ s[33].do = "Encoder" /\ s[34].do = "Motor"
    BY <2>2, <2>3, Kinds, PowersAre
  <2>5. /\ s[30] \notin TrackSt /\ s[31] \notin TrackSt /\ s[32] \notin TrackSt
        /\ s[33] \notin TrackSt /\ s[34] \notin TrackSt /\ s[34] \notin SamplerSt
    BY <2>3, <2>4, StatementsApart, PowersAre
  <2>6. /\ \A m \in (29 + 1)..(34 - 1) : m = 30 \/ m = 31 \/ m = 32 \/ m = 33
        /\ \A m \in (29 + 1)..(35 - 1) : m = 30 \/ m = 31 \/ m = 32 \/ m = 33 \/ m = 34
    OBVIOUS
  <2>7. RestBefore(s, 34) /\ RestBefore(s, 35)
    <3>1. \A m \in (29 + 1)..(34 - 1) : s[m] \notin TrackSt
      BY <2>5, <2>6
    <3>2. \A m \in (29 + 1)..(35 - 1) : s[m] \notin TrackSt
      BY <2>5, <2>6
    <3> QED BY <1>0, <2>2, <3>1, <3>2, RestAt
  <2>8. OffBefore(s, 35)
    BY <2>3, OffAt
  <2>9. StoppedBefore(s, 35)
    BY <2>3, <2>5, StoppedAt
  <2> QED BY <2>7, <2>8, <2>9 DEF s
<1>2. /\ RestBefore(MagCalibration, 85) /\ RestBefore(MagCalibration, 87)
      /\ OffBefore(MagCalibration, 87)
  <2> DEFINE s == MagCalibration
  <2>1. /\ s[83] = Motor(CoastAll) /\ s[84] = WaitLong
        /\ s[85] = Motor(Disable) /\ s[86] = WaitLong
    BY MagEnds DEF Disable
  <2> HIDE DEF s
  <2>2. /\ s[84] \notin TrackSt /\ s[85] \notin TrackSt /\ s[86] \notin TrackSt
        /\ s[86] \notin PowerSt
    BY <2>1, Kinds, StatementsApart, PowersAre
  <2>3. /\ \A m \in (83 + 1)..(85 - 1) : m = 84
        /\ \A m \in (83 + 1)..(87 - 1) : m = 84 \/ m = 85 \/ m = 86
        /\ \A m \in (85 + 1)..(87 - 1) : m = 86
    OBVIOUS
  <2>4. RestBefore(s, 85) /\ RestBefore(s, 87)
    <3>1. \A m \in (83 + 1)..(85 - 1) : s[m] \notin TrackSt
      BY <2>2, <2>3
    <3>2. \A m \in (83 + 1)..(87 - 1) : s[m] \notin TrackSt
      BY <2>2, <2>3
    <3> QED BY <1>0, <2>1, <3>1, <3>2, RestAt
  <2>5. OffBefore(s, 87)
    BY <2>1, <2>2, <2>3, OffAt
  <2> QED BY <2>4, <2>5 DEF s
<1> QED BY <1>1, <1>2

LEMMA MotorCalibrationShape ==
  \A i \in 1..35 : Shape("MotorCalibration", MotorCalibration, i)
<1> DEFINE s == MotorCalibration
           n == "MotorCalibration"
<1> SUFFICES ASSUME NEW i \in 1..35 PROVE Shape(n, s, i)
  OBVIOUS
<1>1. CASE \E side \in Track, j \in 1..13 :
             i = Base(side) + j /\ s[i] = MeasureTrack(side)[j]
  BY <1>1, MeasureTrackShape
<1>2. Len(s) = 35 /\ Owner(n) = "MotorCalibration"
  BY MotorCalibrationIs DEF Owner
<1>3. CASE i \in {1, 34}
  <2>1. i < Len(s)
    BY <1>2, <1>3
  <2>2. \/ s[i] = Motor(SetAllDriversEnable(TRUE))
        \/ s[i] = Motor(Disable) /\ RestBefore(s, i)
    <3>1. /\ s[1] = Motor(SetAllDriversEnable(TRUE))
          /\ s[34] = Motor(Disable) /\ RestBefore(s, 34)
      BY MotorEnds, CalibrationsRest DEF Disable
    <3> HIDE DEF s
    <3> QED BY <1>3, <3>1
  <2> HIDE DEF s, n
  <2> QED BY <2>1, <2>2, MotorShape
<1>4. CASE i \in {2, 4}
  <2>1. i < Len(s) /\ s[i] = Wait
    BY <1>2, <1>4, MotorEnds
  <2> HIDE DEF s, n
  <2> QED BY <2>1, WaitShape
<1>5. CASE i \in {3, 33}
  <2>1. i < Len(s) /\ (s[i] = Encoder("Start") \/ s[i] = Encoder("Stop"))
    BY <1>2, <1>5, MotorEnds
  <2> HIDE DEF s, n
  <2> QED BY <1>2, <2>1, EncoderShape
<1>6. CASE i = 31
  <2>1. i < Len(s) /\ s[i].do = "Compute" /\ s[i].orElse = "MotorFailed"
    BY <1>2, <1>6, MotorEnds DEF Statement
  <2>2. /\ "Compute" \in Diverting /\ "MotorFailed" \in Names
        /\ Owner("MotorFailed") = Owner(n)
    BY DEF Diverting, Names, Owner
  <2> HIDE DEF s, n
  <2> QED BY <2>1, <2>2, DivertShape DEF Rounds, Procedures
<1>7. CASE i = 32
  <2>1. i < Len(s) /\ s[i].do = "SendFactors"
    BY <1>2, <1>7, MotorEnds DEF Statement
  <2> HIDE DEF s, n
  <2> QED BY <2>1, PlainShape
<1>8. CASE i = 35
  <2>1. s[i] = End("Complete")
    BY <1>8, MotorEnds
  <2>2. RestBefore(s, i) /\ OffBefore(s, i) /\ StoppedBefore(s, i)
    BY <1>8, CalibrationsRest
  <2> HIDE DEF s, n
  <2>3. EndMeant(n, s, i)
    BY <2>1, <2>2 DEF EndMeant, End, Statement
  <2> QED BY <2>1, <2>3, EndShape DEF Outcomes
<1> QED BY <1>1, <1>3, <1>4, <1>5, <1>6, <1>7, <1>8, MotorPositions

LEMMA StepIsHere ==
  ASSUME NEW act \in {"Measure", "Verify"}, NEW k \in 1..6, NEW j \in 1..6
  PROVE  /\ StepBase(act, k) \in 10..76 /\ StepBase(act, k) + j \in 11..82
         /\ MagCalibration[StepBase(act, k) + j] = MotorStep(act, k, Rejected(act))[j]
<1>1. CASE act = "Measure"
  <2>1. /\ MagCalibration[10 + 6 * (k - 1) + j] = MotorStep("Measure", k, "none")[j]
        /\ StepBase(act, k) = 10 + 6 * (k - 1) /\ Rejected(act) = "none"
    BY <1>1, MagCalibrationIs DEF StepBase, Rejected
  <2> QED BY <1>1, <2>1
<1>2. CASE act = "Verify"
  <2>1. /\ MagCalibration[46 + 6 * (k - 1) + j] = MotorStep("Verify", k, "VerifyFailed")[j]
        /\ StepBase(act, k) = 46 + 6 * (k - 1) /\ Rejected(act) = "VerifyFailed"
    BY <1>2, MagCalibrationIs DEF StepBase, Rejected
  <2> QED BY <1>2, <2>1
<1> QED BY <1>1, <1>2

LEMMA MotorStepShape ==
  ASSUME NEW act \in {"Measure", "Verify"}, NEW k \in 1..6, NEW j \in 1..6
  PROVE  Shape("MagCalibration", MagCalibration, StepBase(act, k) + j)
<1> DEFINE s == MagCalibration
           m == MotorStep(act, k, Rejected(act))
           i == StepBase(act, k) + j
           n == "MagCalibration"
<1>1. s[i] = m[j] /\ (j > 1 => s[i - 1] = m[j - 1])
  <2>1. s[i] = m[j]
    BY StepIsHere
  <2>2. CASE j > 1
    <3>1. j - 1 \in 1..6 /\ StepBase(act, k) + (j - 1) = i - 1
      BY <2>2, StepIsHere
    <3>2. s[StepBase(act, k) + (j - 1)] = m[j - 1]
      BY <3>1, StepIsHere
    <3> HIDE DEF s, m
    <3> QED BY <2>1, <3>1, <3>2
  <2> QED BY <2>1, <2>2
<1>2. i < Len(s) /\ i > 1
  <2>1. Len(s) = 87
    BY MagCalibrationIs
  <2>2. i \in 11..82
    BY StepIsHere
  <2> HIDE DEF s, i
  <2> QED BY <2>1, <2>2
<1>3. Owner(n) = "MagCalibration"
  BY DEF Owner
<1>a. /\ m[1] = Check("MotorPhaseStopped") /\ m[2] = Motor(InterferenceSteps[k])
      /\ m[3] = WaitOr("MotorPhaseStopped") /\ m[4] = Statement(act, k, Rejected(act))
      /\ m[5] = Motor(CoastAll) /\ m[6] = WaitOr("MotorPhaseStopped")
  <2>1. Rejected(act) \in {"none", "VerifyFailed"}
    BY DEF Rejected
  <2> QED BY <2>1, MotorStepIs
<1>11. /\ i \in 11..82 /\ OnBefore(s, i) /\ LongBefore(s, i) /\ n = "MagCalibration"
       /\ j = 4 => s[i - 2] = m[2]
  <2>1. i \in 11..82
    BY StepIsHere
  <2>2. i \in 10..85
    BY <2>1
  <2>3. OnBefore(s, i) /\ LongBefore(s, i)
    BY <2>2, MagOn
  <2>4. s[StepBase(act, k) + 2] = m[2]
    BY StepIsHere
  <2>5. j = 4 => i - 2 = StepBase(act, k) + 2
    BY StepIsHere
  <2> QED BY <2>1, <2>3, <2>4, <2>5
<1> SUFFICES Shape(n, s, i)
  OBVIOUS
<1> HIDE DEF i, s, m, n
<1>4. CASE j = 1
  <2>1. s[i] = Check("MotorPhaseStopped") /\ i < Len(s) /\ i > 1
    BY <1>1, <1>2, <1>4, <1>a
  <2>2. s[i].do \in Diverting \ {"Verify"} /\ s[i].orElse = "MotorPhaseStopped"
    BY <2>1 DEF Check, Statement, Diverting
  <2>3. Owner("MotorPhaseStopped") = Owner(n) /\ "MotorPhaseStopped" \in Names
    BY <1>3 DEF Owner, Names
  <2> QED BY <2>1, <2>2, <2>3, DivertShape DEF Rounds, Procedures
<1>5. CASE j = 2
  <2>1. s[i] = Motor(InterferenceSteps[k]) /\ i < Len(s) /\ i > 1
    BY <1>1, <1>2, <1>5, <1>a
  <2>2. s[i - 1].do = "Check"
    <3>1. s[i - 1] = m[1]
      BY <1>1, <1>5
    <3> QED BY <3>1, <1>a DEF Check, Statement
  <2>3. InterferenceSteps[k] \in Command /\ InterferenceSteps[k][1] = "SetTracks"
    BY InterferenceRuns
  <2>4. RunMeant(n, s, i)
    BY <1>11 DEF RunMeant
  <2> QED BY <2>1, <2>2, <2>3, <2>4, RunShape
<1>6. CASE j = 3
  <2>1. s[i] = WaitOr("MotorPhaseStopped") /\ i < Len(s) /\ i > 1
    BY <1>1, <1>2, <1>6, <1>a
  <2>2. s[i].do \in Diverting \ {"Verify"} /\ s[i].orElse = "MotorPhaseStopped"
    BY <2>1 DEF WaitOr, Statement, Diverting
  <2>3. Owner("MotorPhaseStopped") = Owner(n) /\ "MotorPhaseStopped" \in Names
    BY <1>3 DEF Owner, Names
  <2> QED BY <2>1, <2>2, <2>3, DivertShape DEF Rounds, Procedures
<1>7. CASE j = 4
  <2>1. s[i] = Statement(act, k, Rejected(act)) /\ i < Len(s) /\ i > 1
    BY <1>1, <1>2, <1>7, <1>a
  <2>4. s[i].what = k /\ s[i - 1].do = "WaitOr" /\ s[i - 2] = Motor(InterferenceSteps[k])
    <3>1. s[i - 1] = WaitOr("MotorPhaseStopped") /\ s[i - 2] = Motor(InterferenceSteps[k])
      BY <1>1, <1>7, <1>11, <1>a
    <3> QED BY <2>1, <3>1, Kinds DEF Statement
  <2>5. Before(s, i, TrackSt, {Motor(InterferenceSteps[k])})
    <3>1. s[i - 1] \notin TrackSt
      BY <2>4, StatementsApart
    <3>2. i \in Nat /\ i - 2 \in 1..(i - 1) /\ \A x \in ((i - 2) + 1)..(i - 1) : x = i - 1
      BY <1>11
    <3> QED BY <2>4, <3>1, <3>2, BeforeAt
  <2>6. ReadingMeant(n, s, i)
    BY <1>11, <2>4, <2>5 DEF ReadingMeant
  <2>2. CASE act = "Measure"
    <3>1. s[i].do = "Measure"
      BY <2>1, <2>2 DEF Statement
    <3> QED BY <2>1, <2>6, <3>1, PlainShape
  <2>3. CASE act = "Verify"
    <3>1. s[i].do \in Diverting /\ s[i].orElse = "VerifyFailed"
      BY <2>1, <2>3 DEF Statement, Diverting, Rejected
    <3>2. Owner("VerifyFailed") = Owner(n) /\ "VerifyFailed" \in Names
      BY <1>3 DEF Owner, Names
    <3> QED BY <2>1, <2>6, <3>1, <3>2, DivertShape DEF Rounds, Procedures
  <2> QED BY <2>2, <2>3
<1>8. CASE j = 5
  <2>1. s[i] = Motor(CoastAll) /\ i < Len(s) /\ i > 1
    BY <1>1, <1>2, <1>8, <1>a
  <2> QED BY <2>1, MotorShape
<1>9. CASE j = 6
  <2>1. s[i] = WaitOr("MotorPhaseStopped") /\ i < Len(s) /\ i > 1
    BY <1>1, <1>2, <1>9, <1>a
  <2>2. s[i].do \in Diverting \ {"Verify"} /\ s[i].orElse = "MotorPhaseStopped"
    BY <2>1 DEF WaitOr, Statement, Diverting
  <2>3. Owner("MotorPhaseStopped") = Owner(n) /\ "MotorPhaseStopped" \in Names
    BY <1>3 DEF Owner, Names
  <2> QED BY <2>1, <2>2, <2>3, DivertShape DEF Rounds, Procedures
<1>10. j = 1 \/ j = 2 \/ j = 3 \/ j = 4 \/ j = 5 \/ j = 6
  OBVIOUS
<1> QED BY <1>4, <1>5, <1>6, <1>7, <1>8, <1>9, <1>10

LEMMA MagCalibrationShape ==
  \A i \in 1..87 : Shape("MagCalibration", MagCalibration, i)
<1> DEFINE s == MagCalibration
           n == "MagCalibration"
<1> SUFFICES ASSUME NEW i \in 1..87 PROVE Shape(n, s, i)
  OBVIOUS
<1>1. CASE \E act \in {"Measure", "Verify"}, k, j \in 1..6 :
             /\ i = StepBase(act, k) + j
             /\ s[i] = MotorStep(act, k, Rejected(act))[j]
  BY <1>1, MotorStepShape
<1>2. Len(s) = 87 /\ Owner(n) = "MagCalibration"
  BY MagCalibrationIs DEF Owner
<1>3. CASE i \in {1, 8, 9, 84, 86}
  <2>1. i < Len(s) /\ (s[i] = Wait \/ s[i] = WaitLong)
    BY <1>2, <1>3, MagEnds
  <2> HIDE DEF s, n
  <2> QED BY <2>1, WaitShape
<1>4. CASE i \in {2, 6}
  <2>1. i < Len(s) /\ s[i].do = "WaitOr" /\ s[i].orElse = "MagStopped"
    BY <1>2, <1>4, MagEnds DEF WaitOr, Statement
  <2>2. /\ "WaitOr" \in Diverting /\ "MagStopped" \in Names
        /\ Owner("MagStopped") = Owner(n) /\ n = "MagCalibration" /\ i <= 6
    BY <1>4 DEF Diverting, Names, Owner
  <2> HIDE DEF s, n
  <2> QED BY <2>1, <2>2, DivertShape DEF Rounds, Procedures
<1>5. CASE i \in {3, 4, 5}
  <2>1. i < Len(s) /\ s[i].do = "Rotate" /\ s[i].orElse = "MagStopped"
    BY <1>2, <1>5, MagEnds DEF Rotate, Statement
  <2>2. /\ "Rotate" \in Diverting /\ "MagStopped" \in Names
        /\ Owner("MagStopped") = Owner(n) /\ n = "MagCalibration" /\ i <= 6
    BY <1>5 DEF Diverting, Names, Owner
  <2> HIDE DEF s, n
  <2> QED BY <2>1, <2>2, DivertShape DEF Rounds, Procedures
<1>6. CASE i \in {7, 83, 85}
  <2>1. i < Len(s)
    BY <1>2, <1>6
  <2>2. \/ s[i] = Motor(SetAllDriversEnable(TRUE)) \/ s[i] = Motor(CoastAll)
        \/ s[i] = Motor(Disable) /\ RestBefore(s, i)
    <3>1. /\ s[7] = Motor(SetAllDriversEnable(TRUE)) /\ s[83] = Motor(CoastAll)
          /\ s[85] = Motor(Disable) /\ RestBefore(s, 85)
      BY MagEnds, CalibrationsRest DEF Disable
    <3> HIDE DEF s
    <3> QED BY <1>6, <3>1
  <2> HIDE DEF s, n
  <2> QED BY <2>1, <2>2, MotorShape
<1>7. CASE i = 10
  <2>1. i < Len(s) /\ s[i].do = "Measure" /\ s[i].what = 0
    BY <1>2, <1>7, MagEnds DEF Statement
  <2>2. OnBefore(s, i) /\ LongBefore(s, i)
    BY <1>7, MagOn
  <2>3. ReadingMeant(n, s, i)
    BY <1>7, <2>1, <2>2 DEF ReadingMeant
  <2> HIDE DEF s, n
  <2> QED BY <2>1, <2>3, PlainShape
<1>8. CASE i = 87
  <2>1. s[i] = End("Complete")
    BY <1>8, MagEnds
  <2>2. RestBefore(s, i) /\ OffBefore(s, i) /\ Owner(n) # "MotorCalibration"
    BY <1>8, CalibrationsRest DEF Owner
  <2> HIDE DEF s, n
  <2>3. EndMeant(n, s, i)
    BY <2>1, <2>2 DEF EndMeant, End, Statement
  <2> QED BY <2>1, <2>3, EndShape DEF Outcomes
<1>9. \/ i \in {1, 8, 9, 84, 86} \/ i \in {2, 6} \/ i \in {3, 4, 5}
      \/ i \in {7, 83, 85} \/ i = 10 \/ i = 87 \/ ~(i \in 1..10 \/ i \in 83..87)
  OBVIOUS
<1> QED BY <1>1, <1>3, <1>4, <1>5, <1>6, <1>7, <1>8, <1>9, MagPositions

LEMMA ScriptShape ==
  ASSUME NEW n \in Names, NEW i \in 1..Len(Script[n])
  PROVE  Shape(n, Script[n], i)
<1>1. CASE n \in {"MotorStopped", "MotorFailed", "RunStopped", "MagStopped",
                 "MotorPhaseStopped", "VerifyFailed", "CoastStopped"}
  BY <1>1, ScriptIs, EndingsAre, EndingsShape
<1>2. CASE n = "MotorCalibration"
  BY <1>2, ScriptIs, MotorCalibrationIs, MotorCalibrationShape
<1>3. CASE n = "MagCalibration"
  BY <1>3, ScriptIs, MagCalibrationIs, MagCalibrationShape
<1>4. ASSUME NEW clockwise \in BOOLEAN, NEW name \in {"RoundRight", "RoundLeft"},
             n = name, Script[name] = CoastRound(clockwise)
      PROVE  Shape(n, Script[n], i)
  <2> DEFINE r == CoastRound(clockwise)
  <2>1. Len(r) = 18 /\ r = Script[n]
    BY <1>4, CoastRoundIs
  <2> HIDE DEF r
  <2>2. Follows(r, r, 0, 18)
    BY DEF Follows
  <2>3. i \in 1..18 /\ i = 0 + i /\ Len(r) = 0 + 18
    <3>1. i \in 1..Len(r) /\ Len(r) = 18
      BY <2>1
    <3>2. i \in 1..18
      BY <3>1
    <3> QED BY <3>1, <3>2
  <2>4. Shape(n, r, i)
    BY <1>4, <2>2, <2>3, RoundShape DEF r
  <2> QED BY <2>1, <2>4
<1>5. CASE n = "RoundRight"
  BY <1>4, <1>5, ScriptIs
<1>6. CASE n = "RoundLeft"
  BY <1>4, <1>6, ScriptIs
<1>7. CASE n = "CoastAndAvoid"
  <2> DEFINE s == CoastAndAvoid
  <2>1. s = Script[n] /\ Len(s) = 22 /\ Follows(s, CoastRound(TRUE), 4, 18)
    BY <1>7, ScriptIs, CoastAndAvoidIs DEF Follows
  <2>2. /\ s[1] = Motor(BrakeAll) /\ s[2] = Wait
        /\ s[3] = Motor(SetAllDriversEnable(TRUE)) /\ s[4] = Wait
    BY CoastAndAvoidIs
  <2> HIDE DEF s
  <2>3. CASE i \in {1, 3}
    <3>1. i < Len(s)
      BY <2>1, <2>3
    <3>2. s[i] = Motor(BrakeAll) \/ s[i] = Motor(SetAllDriversEnable(TRUE))
      BY <2>2, <2>3
    <3> QED BY <2>1, <3>1, <3>2, MotorShape
  <2>4. CASE i \in {2, 4}
    <3>1. i < Len(s) /\ s[i] = Wait
      BY <2>1, <2>2, <2>4
    <3> QED BY <2>1, <3>1, WaitShape
  <2>5. CASE i \in 5..22
    <3>1. i - 4 \in 1..18 /\ i = 4 + (i - 4) /\ Len(s) = 4 + 18
      BY <2>1, <2>5
    <3>2. Shape(n, s, i)
      BY <1>7, <2>1, <3>1, RoundShape
    <3> QED BY <2>1, <3>2
  <2> QED BY <2>1, <2>3, <2>4, <2>5
<1> QED BY <1>1, <1>2, <1>3, <1>5, <1>6, <1>7 DEF Names
================================================================================
