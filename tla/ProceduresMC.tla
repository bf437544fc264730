----------------------------- MODULE ProceduresMC -----------------------------
(***************************************************************************)
(* The instances of Procedures that TLC checks.                             *)
(***************************************************************************)
EXTENDS Procedures

\* What the next step and the properties can tell apart: the status view counts
\* while it is on screen, a latch and the stage while something reads them
\* before writing them.
ReadState ==
    <<screen, IF screen = "Status" THEN view ELSE NewView, press, uiAt, activity,
      testStop /\ \E p \in Tests : Live(p),
      calStop /\ (driveAt \in Inline \/ distanceAt # "idle"),
      roomScanWanted, testmodeActive, testCommands, testAt,
      IF \E p \in Completing : testAt[p] \in {"leg", "settle"} THEN stage ELSE 0,
      calVars, events, uiEvents>>

=============================================================================
