------------------------------ MODULE DriveCoreMC ------------------------------
(***************************************************************************)
(* The instances of DriveCore that TLC checks.                              *)
(***************************************************************************)
EXTENDS DriveCore, TLC

Step(action, abort) == [action |-> action, abort |-> abort]

(* A leg with its turn, as the test modes build them, a program that goes   *)
(* on after a failure, and the one with no steps.                           *)
LegPrograms ==
  {<< >>,
   <<Step("DriveDistance", TRUE), Step("RotateExact", TRUE)>>,
   <<Step("Idle", FALSE), Step("Brake", FALSE)>>}

(* One step of every command that a program may hold. *)
StepPrograms == {<<Step(c, FALSE)>> : c \in Commands \ Calibrations}

(* The two intents whose control step suspends or fails. *)
MovePrograms == {<<Step("DriveDistance", FALSE), Step("RotateExact", TRUE)>>}

ProducerSymmetry == Permutations(Producers)

=============================================================================
