--------------------------- MODULE CalibrationStore ---------------------------
(***************************************************************************)
(* The calibration data of the robot: what flash keeps, what the flash     *)
(* task caches, what the motor driver and the distance drives use, and the *)
(* boot that loads it.                                                     *)
(*                                                                         *)
(* Four tasks share it.  The flash task answers one command at a time; the *)
(* orchestrator applies the events it raises; the drive task saves a motor *)
(* calibration; the panel and its drive step run the distance calibration. *)
(* The robot may lose power at any step.                                   *)
(***************************************************************************)
EXTENDS Integers, Sequences

CONSTANTS MotorFactors,      \* the motor calibrations there can be
          DistanceFactors,   \* the distance factors there can be
          Nominal,      \* factors of 1.0, and the one record of IMU flags
          NoValue,      \* nothing stored, nothing backed up
          FlashCap,     \* capacity of the flash command channel
          EventCap      \* capacity of the system event channel

ASSUME StoreAssumption ==
    /\ Nominal \in MotorFactors \cap DistanceFactors
    /\ NoValue \notin MotorFactors \cup DistanceFactors
    /\ FlashCap \in Nat /\ FlashCap >= 3
    /\ EventCap \in Nat \ {0}

Kinds == {"motor", "flags", "distance"}
Statuses == {"NotLoaded", "NotAvailable", "Loaded"}

\* What the flags say is only displayed; that there is a record is what counts.
ValuesOf(kind) == CASE kind = "motor" -> MotorFactors
                    [] kind = "distance" -> DistanceFactors
                    [] kind = "flags" -> {Nominal}
StoredOf(kind) == ValuesOf(kind) \cup {NoValue}

Values == MotorFactors \cup DistanceFactors
FlashContents == {contents \in [Kinds -> Values \cup {NoValue}] :
                     \A kind \in Kinds : contents[kind] \in StoredOf(kind)}
CacheContents == {contents \in [Kinds -> Values] :
                     \A kind \in Kinds : contents[kind] \in ValuesOf(kind)}

GetData(kind) == [op |-> "get", kind |-> kind]
SaveData(kind, value) == [op |-> "save", kind |-> kind, value |-> value]
FlashCommands ==
    [op : {"get"}, kind : Kinds]
        \cup {command \in [op : {"save"}, kind : Kinds, value : Values] :
                 command.value \in ValuesOf(command.kind)}
NoCommand == [op |-> "none"]
\* An answer the flash task has to raise before it takes the next command.
Answer(kind, data) == [op |-> "answer", kind |-> kind, data |-> data]
Answers == {answer \in [op : {"answer"}, kind : Kinds, data : Values \cup {NoValue}] :
               answer.data \in StoredOf(answer.kind)}

Initialize == [event |-> "initialize"]
CalibrationDataLoaded(kind, data) == [event |-> "loaded", kind |-> kind, data |-> data]
Events ==
    {Initialize}
        \cup {event \in [event : {"loaded"}, kind : Kinds, data : Values \cup {NoValue}] :
                 event.data \in StoredOf(event.kind)}

VARIABLES
    flash,          \* what the flash region keeps, per kind
    flashQueue,     \* FLASH_COMMAND_CHANNEL
    flashTask,      \* the command the flash task is serving
    cache,          \* CALIBRATION_DATA
    status,         \* the aggregate statuses of CALIBRATION_STATE
    factor,         \* distance_factor: the factor in force
    events,         \* the calibration events of the system event channel
    driver,         \* the motor factors last sent to the motor driver
    motorSave,      \* a computed motor calibration not yet sent to flash
    gateOpen,       \* the panel has passed its boot gate
    phase,          \* where the distance calibration is
    backup,         \* PREVIOUS_FACTOR
    committed,      \* history: the factor last committed, while no distance
                    \* calibration has begun since and its write has not failed
    agrees          \* history: no read or write of the motor record has failed
                    \* since the last one that succeeded

bootVars == <<flashQueue, flashTask, cache, status, factor, events>>
distanceVars == <<gateOpen, phase, backup, committed>>
vars == <<flash, bootVars, driver, motorSave, distanceVars, agrees>>

Phases == {"idle", "counting", "driving", "settling", "failed", "finished", "entry"}

\* RAM after a reset; the startup task has raised Initialize.
PowerOn ==
    /\ flashQueue = <<>>
    /\ flashTask = NoCommand
    /\ cache = [kind \in Kinds |-> Nominal]
    /\ status = [kind \in Kinds |-> "NotLoaded"]
    /\ factor = Nominal
    /\ events = <<Initialize>>
    /\ driver = Nominal
    /\ motorSave = NoValue
    /\ gateOpen = FALSE
    /\ phase = "idle"
    /\ backup = NoValue
    /\ committed = NoValue
    /\ agrees = TRUE

Init ==
    /\ flash \in FlashContents
    /\ PowerOn

\* CalibrationState::is_initialized
IsInitialized == \A kind \in Kinds : status[kind] # "NotLoaded"

-----------------------------------------------------------------------------
(* The flash task *)

\* A save updates the RAM copy before it touches flash.
\* Mutant: the RAM copy is left alone.
CacheOnLoadOnly(command) == cache

CacheOnSave(command) ==
    IF command.op = "save" THEN [cache EXCEPT ![command.kind] = command.value] ELSE cache

FlashTakes ==
    /\ flashTask = NoCommand
    /\ flashQueue # <<>>
    /\ flashTask' = Head(flashQueue)
    /\ flashQueue' = Tail(flashQueue)
    /\ cache' = CacheOnSave(flashTask')
    /\ UNCHANGED <<flash, status, factor, events, driver, motorSave,
                   distanceVars, agrees>>

\* What the flash task does with a value it has read or written.
Publish(kind, value) ==
    /\ status' = [status EXCEPT ![kind] = "Loaded"]
    /\ factor' = IF kind = "distance" THEN value ELSE factor

Note(kind, succeeded) == agrees' = IF kind = "motor" THEN succeeded ELSE agrees

FlashReads ==
    /\ flashTask.op = "get"
    /\ LET kind == flashTask.kind IN
       \/ /\ flash[kind] # NoValue
          /\ cache' = [cache EXCEPT ![kind] = flash[kind]]
          /\ Publish(kind, flash[kind])
          /\ flashTask' = Answer(kind, flash[kind])
          /\ Note(kind, TRUE)
       \/ \* nothing is stored, or the region cannot be read
          /\ flashTask' = Answer(kind, NoValue)
          /\ Note(kind, flash[kind] = NoValue)
          /\ UNCHANGED <<cache, status, factor>>
    /\ UNCHANGED <<flash, flashQueue, events, driver, motorSave, distanceVars>>

FlashWrites ==
    /\ flashTask.op = "save"
    /\ LET kind == flashTask.kind IN
       \/ /\ flash' = [flash EXCEPT ![kind] = flashTask.value]
          /\ Publish(kind, flashTask.value)
          /\ flashTask' = Answer(kind, flashTask.value)
          /\ Note(kind, TRUE)
          /\ UNCHANGED committed
       \/ \* a failed write is only logged
          /\ flashTask' = NoCommand
          /\ Note(kind, FALSE)
          /\ committed' = IF flashTask = SaveData("distance", committed)
                          THEN NoValue ELSE committed
          /\ UNCHANGED <<flash, status, factor>>
    /\ UNCHANGED <<flashQueue, cache, events, driver, motorSave, gateOpen, phase, backup>>

\* raise_event waits for room in the event channel.
Raise(event) ==
    /\ Len(events) < EventCap
    /\ events' = Append(events, event)

FlashRaises ==
    /\ flashTask.op = "answer"
    /\ Raise(CalibrationDataLoaded(flashTask.kind, flashTask.data))
    /\ flashTask' = NoCommand
    /\ UNCHANGED <<flash, flashQueue, cache, status, factor, driver, motorSave,
                   distanceVars, agrees>>

-----------------------------------------------------------------------------
(* The orchestrator *)

\* The robot has just started: there is room for the three queries.
HandleInitialize ==
    /\ events # <<>>
    /\ Head(events) = Initialize
    /\ Len(flashQueue) + 3 <= FlashCap
    /\ flashQueue' = flashQueue \o <<GetData("motor"), GetData("flags"), GetData("distance")>>
    /\ events' = Tail(events)
    /\ UNCHANGED <<flash, flashTask, cache, status, factor, driver,
                   motorSave, distanceVars, agrees>>

StatusOf(data) == IF data = NoValue THEN "NotAvailable" ELSE "Loaded"

\* LoadCalibration is sent to the motor driver, in the order of the events.
\* Mutant: a loaded motor calibration is recorded but not passed on.
DriverKept(data) == driver

DriverAfter(data) == IF data = NoValue THEN driver ELSE data

\* Mutant: a missing record leaves the status alone.
StatusOnlyIfFound(event) ==
    IF event.data = NoValue THEN status ELSE [status EXCEPT ![event.kind] = "Loaded"]

\* The flags handler sets the magnetometer's status only.
StatusAfter(event) ==
    IF event.kind = "flags" THEN status
    ELSE [status EXCEPT ![event.kind] = StatusOf(event.data)]

HandleCalibrationDataLoaded ==
    /\ events # <<>>
    /\ LET event == Head(events) IN
       /\ event.event = "loaded"
       /\ status' = StatusAfter(event)
       /\ driver' = IF event.kind = "motor" THEN DriverAfter(event.data) ELSE driver
       /\ factor' = IF event.kind = "distance" /\ event.data # NoValue
                    THEN event.data ELSE factor
    /\ events' = Tail(events)
    /\ UNCHANGED <<flash, flashQueue, flashTask, cache, motorSave,
                   distanceVars, agrees>>

-----------------------------------------------------------------------------
(* The panel and the calibrations *)

GateOpens ==
    /\ ~gateOpen
    /\ IsInitialized
    /\ gateOpen' = TRUE
    /\ UNCHANGED <<flash, bootVars, driver, motorSave, phase, backup, committed, agrees>>

\* The faster track's pulses over a track's own, clamped to 1.0: whatever was
\* counted, the factors are nominal.
ComputedFactor == Nominal

\* The drive task computes motor factors, sends them to the driver, then to flash.
MotorComputes ==
    /\ gateOpen
    /\ motorSave = NoValue
    /\ driver' = ComputedFactor
    /\ motorSave' = ComputedFactor
    /\ UNCHANGED <<flash, bootVars, distanceVars, agrees>>

Send(command) ==
    /\ Len(flashQueue) < FlashCap
    /\ flashQueue' = Append(flashQueue, command)

MotorSaves ==
    /\ motorSave # NoValue
    /\ Send(SaveData("motor", motorSave))
    /\ motorSave' = NoValue
    /\ UNCHANGED <<flash, flashTask, cache, status, factor, events,
                   driver, distanceVars, agrees>>

Settled == flashQueue = <<>> /\ flashTask = NoCommand /\ events = <<>> /\ motorSave = NoValue

\* begin looks at nothing that is still under way: a load or a save that is
\* answered later puts its value over the 1.0 forced here.
Begin ==
    /\ gateOpen
    /\ phase = "idle"
    /\ phase' = "counting"
    /\ backup' = factor
    /\ factor' = Nominal
    /\ committed' = NoValue
    /\ status' = IF factor # Nominal THEN [status EXCEPT !["distance"] = "Loaded"] ELSE status
    /\ UNCHANGED <<flash, flashQueue, flashTask, cache, events, driver,
                   motorSave, gateOpen, agrees>>

\* abort: the backed-up factor is taken out of its slot and put in force.
Abort ==
    /\ backup' = NoValue
    /\ IF backup = NoValue
       THEN UNCHANGED <<factor, status>>
       ELSE /\ factor' = backup
            /\ status' = [status EXCEPT !["distance"] = "Loaded"]
    /\ UNCHANGED <<flash, flashQueue, flashTask, cache, events, driver,
                   motorSave, gateOpen, committed, agrees>>

DriveStopped ==
    /\ phase \in {"counting", "driving", "settling"}
    /\ phase' = "idle"
    /\ Abort

To(from, to) ==
    /\ phase = from
    /\ phase' = to
    /\ UNCHANGED <<flash, bootVars, driver, motorSave, gateOpen, backup,
                   committed, agrees>>

Launch == To("counting", "driving")
DriveEnds == To("driving", "settling")
DriveFails == To("counting", "failed") \/ To("driving", "failed")
DriveCompletes == To("settling", "finished")
PanelEnters == To("finished", "entry")
\* The operator's Stop reaches the panel before the step's completion does.
StopsTooLate == To("finished", "idle")
Dismiss == To("failed", "idle")

Commit(value) ==
    /\ phase = "entry"
    /\ phase' = "idle"
    /\ factor' = value
    /\ status' = [status EXCEPT !["distance"] = "Loaded"]
    /\ Send(SaveData("distance", value))
    /\ backup' = NoValue
    /\ committed' = value
    /\ UNCHANGED <<flash, flashTask, cache, events, driver, motorSave,
                   gateOpen, agrees>>

Cancel ==
    /\ phase = "entry"
    /\ phase' = "idle"
    /\ Abort

-----------------------------------------------------------------------------
\* Power is lost. A write in progress has happened or has not.
Restart ==
    /\ \/ UNCHANGED flash
       \/ /\ flashTask.op = "save"
          /\ flash' = [flash EXCEPT ![flashTask.kind] = flashTask.value]
    /\ flashQueue' = <<>>
    /\ flashTask' = NoCommand
    /\ cache' = [kind \in Kinds |-> Nominal]
    /\ status' = [kind \in Kinds |-> "NotLoaded"]
    /\ factor' = Nominal
    /\ events' = <<Initialize>>
    /\ driver' = Nominal
    /\ motorSave' = NoValue
    /\ gateOpen' = FALSE
    /\ phase' = "idle"
    /\ backup' = NoValue
    /\ committed' = NoValue
    /\ agrees' = TRUE

FlashNext == FlashTakes \/ FlashReads \/ FlashWrites \/ FlashRaises
OrchestratorNext == HandleInitialize \/ HandleCalibrationDataLoaded
DistanceNext ==
    \/ Begin \/ DriveStopped \/ Launch \/ DriveEnds \/ DriveFails \/ DriveCompletes
    \/ PanelEnters \/ StopsTooLate \/ Dismiss \/ Cancel
    \/ \E value \in DistanceFactors : Commit(value)

Next ==
    \/ FlashNext \/ OrchestratorNext \/ GateOpens
    \/ MotorComputes \/ MotorSaves
    \/ DistanceNext
    \/ Restart

Spec == Init /\ [][Next]_vars

\* The executor runs every task that can take a step; nobody must press anything.
FairSpec ==
    /\ Spec
    /\ WF_vars(FlashNext)
    /\ WF_vars(OrchestratorNext)
    /\ WF_vars(GateOpens)
    /\ WF_vars(MotorSaves)

-----------------------------------------------------------------------------
(* Properties *)

\* The range of every variable.
TypeOK ==
    /\ flash \in FlashContents
    /\ flashQueue \in Seq(FlashCommands) /\ Len(flashQueue) <= FlashCap
    /\ flashTask \in FlashCommands \cup Answers \cup {NoCommand}
    /\ cache \in CacheContents
    /\ status \in [Kinds -> Statuses]
    /\ factor \in DistanceFactors
    /\ events \in Seq(Events) /\ Len(events) <= EventCap
    /\ driver \in MotorFactors
    /\ motorSave \in StoredOf("motor")
    /\ gateOpen \in BOOLEAN
    /\ phase \in Phases
    /\ backup \in StoredOf("distance") /\ committed \in StoredOf("distance")
    /\ agrees \in BOOLEAN

\* Once every command and event is handled, the motor driver runs with the
\* calibration the flash task keeps, in whatever order boot loads, calibrations
\* and saves overtook each other; and with the stored one unless a read or write
\* failed.
MotorCopiesAgree ==
    Settled /\ agrees =>
        /\ driver = cache["motor"]
        /\ flash["motor"] # NoValue => driver = flash["motor"]

\* A committed distance factor lasts: once everything is handled it is in force,
\* in the RAM copy and in flash, whatever older load or save was answered over it,
\* unless a write of it failed or another distance calibration has begun.
CommittedFactorLasts ==
    Settled /\ committed # NoValue =>
        factor = committed /\ cache["distance"] = committed /\ flash["distance"] = committed

\* The motor calibration's status is that of the stored record, unless a read or
\* write failed.
MotorStatusTellsWhatIsStored ==
    Settled /\ agrees =>
        status["motor"] = StatusOf(flash["motor"])

\* Unless power is lost again and again, the boot's queries for the motor and distance calibrations are
\* answered in the end, whatever the flash region holds and however its reads fail.
QueriesAnswered ==
    <>[][~Restart]_vars =>
        <>[](status["motor"] # "NotLoaded" /\ status["distance"] # "NotLoaded")

-----------------------------------------------------------------------------
(* What comments say and the code does not do *)

\* ui/mod.rs: ui_initialized is "true once calibration data has been queried".
InitializedOnceQueried == Settled => IsInitialized

\* distance.rs:80: begin is to "force 1.0 for the drive".
DriveIsNominal == phase = "driving" => factor = Nominal

\* A distance calibration shown as loaded is stored, as a motor calibration is.
LoadedDistanceIsStored ==
    Settled /\ phase = "idle" /\ status["distance"] = "Loaded" => flash["distance"] # NoValue

\* distance.rs: "a calibration that produced nothing does not leave the robot with
\* a factor of 1.0".
NothingProducedNothingChanged ==
    [][DistanceNext /\ phase # "idle" /\ phase' = "idle" =>
         (\E value \in DistanceFactors : Commit(value)) \/ factor' = backup]_vars

=============================================================================
