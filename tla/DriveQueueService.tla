-------------------------- MODULE DriveQueueService --------------------------
(***************************************************************************)
(* What the drive queue promises to a producer that calls                   *)
(* DriveQueueBuilder::submit: one program at a time, its steps resolved in  *)
(* order, a non-successful step that asked for it ends the program, and the *)
(* one producer that holds the queue gets exactly one report, computed from *)
(* the outcomes of its own steps.  Nothing here mentions channels, epochs,  *)
(* the drive task or interrupts: DriveCore shows how the code keeps the     *)
(* promise.                                                                 *)
(***************************************************************************)
EXTENDS Naturals, Sequences, FiniteSets

CONSTANTS
  Producers,   \* the tasks that call submit
  Programs,    \* the step sequences they submit
  Nobody       \* the queue is free

VARIABLES
  holder,      \* the producer whose submission was accepted, or Nobody
  steps,       \* the accepted program
  results,     \* the outcomes of its steps so far
  answers      \* the last answer every producer got

serviceVars == <<holder, steps, results, answers>>

Statuses == {"Success", "Cancelled", "Failed"}

NoReport == [status |-> "none", completed |-> 0, failed |-> 0]
QueueBusy == [status |-> "QueueBusy", completed |-> 0, failed |-> 0]

(* A step that did not succeed ends the program when it asked to abort. *)
Halted(program, outs) ==
  /\ outs # << >>
  /\ outs[Len(outs)] # "Success"
  /\ program[Len(outs)].abort

Ended(program, outs) == Halted(program, outs) \/ Len(outs) = Len(program)

Count(outs, status) == Cardinality({i \in DOMAIN outs : outs[i] = status})

(* Cancelled outranks Failed, Failed outranks Success. *)
Overall(outs) ==
  IF Count(outs, "Cancelled") > 0 THEN "Cancelled"
  ELSE IF Count(outs, "Failed") > 0 THEN "Failed" ELSE "Success"

Summary(program, outs) ==
  [status    |-> Overall(outs),
   completed |-> Count(outs, "Success"),
   failed    |-> IF Halted(program, outs) THEN Len(outs) ELSE 0]

ServiceInit ==
  /\ holder = Nobody
  /\ steps = << >>
  /\ results = << >>
  /\ answers = [p \in Producers |-> NoReport]

Accept(p, program) ==
  /\ holder = Nobody
  /\ holder' = p
  /\ steps' = program
  /\ results' = << >>
  /\ UNCHANGED answers

Refuse(p) ==
  /\ holder \notin {Nobody, p}
  /\ answers' = [answers EXCEPT ![p] = QueueBusy]
  /\ UNCHANGED <<holder, steps, results>>

Resolve(status) ==
  /\ holder # Nobody
  /\ ~Ended(steps, results)
  /\ results' = Append(results, status)
  /\ UNCHANGED <<holder, steps, answers>>

Answer ==
  /\ holder # Nobody
  /\ Ended(steps, results)
  /\ answers' = [answers EXCEPT ![holder] = Summary(steps, results)]
  /\ holder' = Nobody
  /\ steps' = << >>
  /\ results' = << >>

ServiceNext ==
  \/ \E p \in Producers : Refuse(p) \/ \E program \in Programs : Accept(p, program)
  \/ \E status \in Statuses : Resolve(status)
  \/ Answer

ServiceSpec == ServiceInit /\ [][ServiceNext]_serviceVars

=============================================================================
