------------------------ MODULE CalibrationStoreProofs ------------------------
(***************************************************************************)
(* Type correctness of CalibrationStore, for every set of factors and all  *)
(* channels that are large enough for the boot queries; then that the      *)
(* copies of the calibrations agree once everything is handled: the motor  *)
(* driver, the flash task and the flash region on the motor factors, the   *)
(* motor calibration's status on whether there is a record, and the        *)
(* distance factor in force, its RAM copy and flash on the one that was    *)
(* committed last.                                                         *)
(***************************************************************************)
EXTENDS CalibrationStore, SequenceTheorems, TLAPS

-----------------------------------------------------------------------------
(* Records and contents *)

LEMMA KindValues ==
    /\ Nominal \in Values
    /\ \A kind \in Kinds : /\ ValuesOf(kind) \subseteq Values
                           /\ Nominal \in ValuesOf(kind)
                           /\ StoredOf(kind) \subseteq Values \cup {NoValue}
                           /\ \A value \in StoredOf(kind) : value # NoValue => value \in ValuesOf(kind)
BY StoreAssumption DEF Kinds, Values, ValuesOf, StoredOf

LEMMA FlashUpdate ==
  ASSUME NEW contents \in FlashContents, NEW kind \in Kinds, NEW value \in StoredOf(kind)
  PROVE  [contents EXCEPT ![kind] = value] \in FlashContents
BY KindValues DEF FlashContents

LEMMA CacheUpdate ==
  ASSUME NEW contents \in CacheContents, NEW kind \in Kinds, NEW value \in ValuesOf(kind)
  PROVE  [contents EXCEPT ![kind] = value] \in CacheContents
BY KindValues DEF CacheContents

LEMMA GetIsCommand ==
  ASSUME NEW kind \in Kinds
  PROVE  GetData(kind) \in FlashCommands
BY DEF GetData, FlashCommands

LEMMA SaveIsCommand ==
  ASSUME NEW kind \in Kinds, NEW value \in ValuesOf(kind)
  PROVE  SaveData(kind, value) \in FlashCommands
<1>1. SaveData(kind, value) \in [op : {"save"}, kind : Kinds, value : Values]
  BY KindValues DEF SaveData
<1>2. SaveData(kind, value).value = value /\ SaveData(kind, value).kind = kind
  BY DEF SaveData
<1> QED BY <1>1, <1>2 DEF FlashCommands

LEMMA AnswerIsAnswer ==
  ASSUME NEW kind \in Kinds, NEW data \in StoredOf(kind)
  PROVE  Answer(kind, data) \in Answers
<1>1. Answer(kind, data) \in [op : {"answer"}, kind : Kinds, data : Values \cup {NoValue}]
  BY KindValues DEF Answer
<1>2. Answer(kind, data).data = data /\ Answer(kind, data).kind = kind
  BY DEF Answer
<1> QED BY <1>1, <1>2 DEF Answers

LEMMA LoadedIsEvent ==
  ASSUME NEW kind \in Kinds, NEW data \in StoredOf(kind)
  PROVE  CalibrationDataLoaded(kind, data) \in Events
<1>1. CalibrationDataLoaded(kind, data) \in [event : {"loaded"}, kind : Kinds, data : Values \cup {NoValue}]
  BY KindValues DEF CalibrationDataLoaded
<1>2. CalibrationDataLoaded(kind, data).data = data /\ CalibrationDataLoaded(kind, data).kind = kind
  BY DEF CalibrationDataLoaded
<1> QED BY <1>1, <1>2 DEF Events

\* What the flash task is serving has the fields its operation needs.
LEMMA TaskFields ==
  ASSUME NEW task \in FlashCommands \cup Answers \cup {NoCommand}
  PROVE  /\ task.op \in {"get", "save", "answer", "none"}
         /\ task.op = "none" <=> task = NoCommand
         /\ task # NoCommand => task.kind \in Kinds
         /\ task.op = "save" => task.value \in ValuesOf(task.kind)
         /\ task.op = "answer" => task.data \in StoredOf(task.kind)
         /\ task \in FlashCommands => task.op \in {"get", "save"}
BY DEF FlashCommands, Answers, NoCommand

LEMMA EventFields ==
  ASSUME NEW event \in Events
  PROVE  /\ event.event \in {"initialize", "loaded"}
         /\ event.event = "initialize" <=> event = Initialize
         /\ event.event = "loaded" => event.kind \in Kinds /\ event.data \in StoredOf(event.kind)
BY DEF Events, Initialize

-----------------------------------------------------------------------------
(* Types *)

Stores ==
    /\ flash \in FlashContents
    /\ cache \in CacheContents
    /\ status \in [Kinds -> Statuses]
    /\ factor \in DistanceFactors

Channels ==
    /\ flashQueue \in Seq(FlashCommands) /\ Len(flashQueue) <= FlashCap
    /\ flashTask \in FlashCommands \cup Answers \cup {NoCommand}
    /\ events \in Seq(Events) /\ Len(events) <= EventCap

Places ==
    /\ driver \in MotorFactors
    /\ motorSave \in StoredOf("motor")
    /\ phase \in Phases
    /\ backup \in StoredOf("distance") /\ committed \in StoredOf("distance")

Flags == gateOpen \in BOOLEAN /\ agrees \in BOOLEAN

LEMMA TypeParts ==
    /\ TypeOK => Stores /\ Channels /\ Places /\ Flags
    /\ Stores' /\ Channels' /\ Places' /\ Flags' => TypeOK'
BY DEF TypeOK, Stores, Channels, Places, Flags

LEMMA PowerOnTypes == PowerOn /\ flash \in FlashContents => TypeOK
<1> SUFFICES ASSUME PowerOn, flash \in FlashContents PROVE TypeOK
  OBVIOUS
<1>1. [kind \in Kinds |-> Nominal] \in CacheContents
  BY KindValues DEF CacheContents
<1>2. [kind \in Kinds |-> "NotLoaded"] \in [Kinds -> Statuses]
  BY DEF Statuses
<1>3. <<Initialize>> \in Seq(Events) /\ Len(<<Initialize>>) = 1 /\ 1 <= EventCap
  BY StoreAssumption DEF Events
<1>4. <<>> \in Seq(FlashCommands) /\ Len(<<>>) = 0 /\ 0 <= FlashCap
  BY StoreAssumption
<1>5. NoValue \in StoredOf("motor") /\ NoValue \in StoredOf("distance") /\ "idle" \in Phases
  BY DEF StoredOf, Phases
<1>6. Nominal \in MotorFactors /\ Nominal \in DistanceFactors
  BY StoreAssumption
<1> QED BY <1>1, <1>2, <1>3, <1>4, <1>5, <1>6 DEF PowerOn, TypeOK

LEMMA QueueSteps ==
  ASSUME Channels
  PROVE  /\ \A command \in FlashCommands : Send(command) =>
                flashQueue' \in Seq(FlashCommands) /\ Len(flashQueue') <= FlashCap
         /\ \A event \in Events : Raise(event) =>
                events' \in Seq(Events) /\ Len(events') <= EventCap
         /\ events # <<>> =>
                /\ Head(events) \in Events
                /\ Tail(events) \in Seq(Events) /\ Len(Tail(events)) <= EventCap
         /\ flashQueue # <<>> =>
                /\ Head(flashQueue) \in FlashCommands
                /\ Tail(flashQueue) \in Seq(FlashCommands) /\ Len(Tail(flashQueue)) <= FlashCap
<1>0. FlashCap \in Nat /\ EventCap \in Nat
  BY StoreAssumption
<1>1. ASSUME NEW command \in FlashCommands, Send(command)
      PROVE  flashQueue' \in Seq(FlashCommands) /\ Len(flashQueue') <= FlashCap
  <2>1. Append(flashQueue, command) \in Seq(FlashCommands)
        /\ Len(Append(flashQueue, command)) = Len(flashQueue) + 1
    BY DEF Channels
  <2> QED BY <1>0, <1>1, <2>1 DEF Send, Channels
<1>2. ASSUME NEW event \in Events, Raise(event)
      PROVE  events' \in Seq(Events) /\ Len(events') <= EventCap
  <2>1. Append(events, event) \in Seq(Events) /\ Len(Append(events, event)) = Len(events) + 1
    BY DEF Channels
  <2> QED BY <1>0, <1>2, <2>1 DEF Raise, Channels
<1>3. ASSUME events # <<>>
      PROVE  /\ Head(events) \in Events
             /\ Tail(events) \in Seq(Events) /\ Len(Tail(events)) = Len(events) - 1
  BY <1>3 DEF Channels
<1>4. ASSUME flashQueue # <<>>
      PROVE  /\ Head(flashQueue) \in FlashCommands
             /\ Tail(flashQueue) \in Seq(FlashCommands) /\ Len(Tail(flashQueue)) = Len(flashQueue) - 1
  BY <1>4 DEF Channels
<1> QED BY <1>0, <1>1, <1>2, <1>3, <1>4 DEF Channels

LEMMA FlashTaskTypes == TypeOK /\ FlashNext => TypeOK'
<1> SUFFICES ASSUME TypeOK, FlashNext PROVE TypeOK'
  OBVIOUS
<1> Stores /\ Channels /\ Places /\ Flags
  BY TypeParts
<1>fields. /\ flashTask.op \in {"get", "save", "answer", "none"}
           /\ flashTask # NoCommand => flashTask.kind \in Kinds
           /\ flashTask.op = "save" => flashTask.value \in ValuesOf(flashTask.kind)
           /\ flashTask.op = "answer" => flashTask.data \in StoredOf(flashTask.kind)
  BY TaskFields DEF Channels
<1>busy. flashTask.op # "none" => flashTask # NoCommand
  BY DEF NoCommand
<1> USE DEF distanceVars
<1>1. CASE FlashTakes
  <2>1. /\ flashTask' \in FlashCommands
        /\ flashQueue' \in Seq(FlashCommands) /\ Len(flashQueue') <= FlashCap
    BY <1>1, QueueSteps DEF FlashTakes
  <2>2. Channels'
    BY <1>1, <2>1 DEF FlashTakes, Channels
  <2>3. cache' \in CacheContents
    <3>1. flashTask'.op = "save" => /\ flashTask'.kind \in Kinds
                                   /\ flashTask'.value \in ValuesOf(flashTask'.kind)
      BY <2>1 DEF FlashCommands
    <3> QED BY <1>1, <3>1, CacheUpdate DEF FlashTakes, CacheOnSave, Stores
  <2>4. Stores'
    BY <1>1, <2>3 DEF FlashTakes, Stores
  <2>5. Places' /\ Flags'
    BY <1>1 DEF FlashTakes, Places, Flags
  <2> QED BY <2>2, <2>4, <2>5, TypeParts
<1>2. ASSUME NEW kind \in Kinds, NEW value \in ValuesOf(kind), Publish(kind, value)
      PROVE  status' \in [Kinds -> Statuses] /\ factor' \in DistanceFactors
  <2>1. status' \in [Kinds -> Statuses]
    BY <1>2 DEF Publish, Stores, Statuses
  <2>2. factor' \in DistanceFactors
    BY <1>2 DEF Publish, Stores, ValuesOf
  <2> QED BY <2>1, <2>2
<1>3. CASE FlashReads
  <2> DEFINE kind == flashTask.kind
  <2>0. kind \in Kinds
    BY <1>3, <1>fields, <1>busy DEF FlashReads
  <2>1. Flags'
    BY <1>3 DEF FlashReads, Note, Flags
  <2>2. Places' /\ UNCHANGED <<flash, flashQueue, events>>
    BY <1>3 DEF FlashReads, Places
  <2>3. CASE flash[kind] # NoValue /\ cache' = [cache EXCEPT ![kind] = flash[kind]]
             /\ Publish(kind, flash[kind]) /\ flashTask' = Answer(kind, flash[kind])
    <3>1. flash[kind] \in StoredOf(kind) /\ flash[kind] \in ValuesOf(kind)
      BY <2>0, <2>3, KindValues DEF Stores, FlashContents
    <3>2. cache' \in CacheContents
      BY <2>0, <2>3, <3>1, CacheUpdate DEF Stores
    <3>3. status' \in [Kinds -> Statuses] /\ factor' \in DistanceFactors
      BY <1>2, <2>0, <2>3, <3>1
    <3>4. flashTask' \in Answers
      BY <2>0, <2>3, <3>1, AnswerIsAnswer
    <3> QED BY <2>1, <2>2, <3>2, <3>3, <3>4, TypeParts DEF Stores, Channels
  <2>4. CASE flashTask' = Answer(kind, NoValue) /\ UNCHANGED <<cache, status, factor>>
    <3>1. flashTask' \in Answers
      BY <2>0, <2>4, AnswerIsAnswer DEF StoredOf
    <3> QED BY <2>1, <2>2, <2>4, <3>1, TypeParts DEF Stores, Channels
  <2> QED BY <1>3, <2>3, <2>4 DEF FlashReads
<1>4. CASE FlashWrites
  <2> DEFINE kind == flashTask.kind
             value == flashTask.value
  <2>0. kind \in Kinds /\ value \in ValuesOf(kind)
    BY <1>4, <1>fields, <1>busy DEF FlashWrites
  <2>1. Flags'
    BY <1>4 DEF FlashWrites, Note, Flags
  <2>2. Places' /\ UNCHANGED <<flashQueue, events, cache>>
    BY <1>4 DEF FlashWrites, Places, StoredOf
  <2>3. CASE flash' = [flash EXCEPT ![kind] = value] /\ Publish(kind, value)
             /\ flashTask' = Answer(kind, value)
    <3>1. value \in StoredOf(kind)
      BY <2>0 DEF StoredOf
    <3>2. flash' \in FlashContents
      BY <2>0, <2>3, <3>1, FlashUpdate DEF Stores
    <3>3. status' \in [Kinds -> Statuses] /\ factor' \in DistanceFactors
      BY <1>2, <2>0, <2>3
    <3>4. flashTask' \in Answers
      BY <2>0, <2>3, <3>1, AnswerIsAnswer
    <3> QED BY <2>1, <2>2, <3>2, <3>3, <3>4, TypeParts DEF Stores, Channels
  <2>4. CASE flashTask' = NoCommand /\ UNCHANGED <<flash, status, factor>>
    BY <2>1, <2>2, <2>4, TypeParts DEF Stores, Channels
  <2> QED BY <1>4, <2>3, <2>4 DEF FlashWrites
<1>5. CASE FlashRaises
  <2>1. CalibrationDataLoaded(flashTask.kind, flashTask.data) \in Events
    BY <1>5, <1>fields, <1>busy, LoadedIsEvent DEF FlashRaises
  <2>2. events' \in Seq(Events) /\ Len(events') <= EventCap
    BY <1>5, <2>1, QueueSteps DEF FlashRaises
  <2>3. Channels'
    BY <1>5, <2>2 DEF FlashRaises, Channels
  <2>4. Stores' /\ Places' /\ Flags'
    BY <1>5 DEF FlashRaises, Stores, Places, Flags
  <2> QED BY <2>3, <2>4, TypeParts
<1> QED BY <1>1, <1>3, <1>4, <1>5 DEF FlashNext

LEMMA OrchestratorTypes == TypeOK /\ OrchestratorNext => TypeOK'
<1> SUFFICES ASSUME TypeOK, OrchestratorNext PROVE TypeOK'
  OBVIOUS
<1> Stores /\ Channels /\ Places /\ Flags
  BY TypeParts
<1> USE DEF distanceVars
<1>1. CASE HandleInitialize
  <2>1. events' \in Seq(Events) /\ Len(events') <= EventCap
    BY <1>1, QueueSteps DEF HandleInitialize
  <2>2. flashQueue' \in Seq(FlashCommands) /\ Len(flashQueue') <= FlashCap
    <3> DEFINE queries == <<GetData("motor"), GetData("flags"), GetData("distance")>>
    <3>1. queries \in Seq(FlashCommands) /\ Len(queries) = 3
      BY GetIsCommand DEF Kinds
    <3> HIDE DEF queries
    <3>2. /\ flashQueue \o queries \in Seq(FlashCommands)
          /\ Len(flashQueue \o queries) = Len(flashQueue) + 3
      <4>1. flashQueue \in Seq(FlashCommands)
        BY DEF Channels
      <4>2. /\ flashQueue \o queries \in Seq(FlashCommands)
            /\ Len(flashQueue \o queries) = Len(flashQueue) + Len(queries)
        BY <3>1, <4>1, ConcatProperties, Zenon
      <4> QED BY <3>1, <4>2
    <3>3. flashQueue' = flashQueue \o queries /\ Len(flashQueue) + 3 <= FlashCap
      BY <1>1 DEF HandleInitialize, queries
    <3> QED BY <3>2, <3>3
  <2>3. Channels'
    BY <1>1, <2>1, <2>2 DEF HandleInitialize, Channels
  <2>4. Stores' /\ Places' /\ Flags'
    BY <1>1 DEF HandleInitialize, Stores, Places, Flags
  <2> QED BY <2>3, <2>4, TypeParts
<1>2. CASE HandleCalibrationDataLoaded
  <2> DEFINE event == Head(events)
  <2>1. event \in Events /\ events' \in Seq(Events) /\ Len(events') <= EventCap
    BY <1>2, QueueSteps DEF HandleCalibrationDataLoaded
  <2>2. event.kind \in Kinds /\ event.data \in StoredOf(event.kind)
    BY <1>2, <2>1, EventFields DEF HandleCalibrationDataLoaded
  <2>3. Channels'
    BY <1>2, <2>1 DEF HandleCalibrationDataLoaded, Channels
  <2>4. status' \in [Kinds -> Statuses]
    BY <1>2, <2>2 DEF HandleCalibrationDataLoaded, StatusAfter, StatusOf, Stores, Statuses
  <2>5. driver' \in MotorFactors /\ factor' \in DistanceFactors
    BY <1>2, <2>2 DEF HandleCalibrationDataLoaded, DriverAfter, Stores, Places, StoredOf, ValuesOf
  <2>6. Stores'
    BY <1>2, <2>4, <2>5 DEF HandleCalibrationDataLoaded, Stores
  <2>7. Places' /\ Flags'
    BY <1>2, <2>5 DEF HandleCalibrationDataLoaded, Places, Flags
  <2> QED BY <2>3, <2>6, <2>7, TypeParts
<1> QED BY <1>1, <1>2 DEF OrchestratorNext

LEMMA MotorTypes == TypeOK /\ (GateOpens \/ MotorComputes \/ MotorSaves) => TypeOK'
<1> SUFFICES ASSUME TypeOK, GateOpens \/ MotorComputes \/ MotorSaves PROVE TypeOK'
  OBVIOUS
<1> Stores /\ Channels /\ Places /\ Flags
  BY TypeParts
<1> USE DEF bootVars, distanceVars
<1>1. CASE GateOpens
  <2>1. Flags' /\ Places'
    BY <1>1 DEF GateOpens, Flags, Places
  <2>2. Stores' /\ Channels'
    BY <1>1 DEF GateOpens, Stores, Channels
  <2> QED BY <2>1, <2>2, TypeParts
<1>2. CASE MotorComputes
  <2>1. Nominal \in MotorFactors /\ Nominal \in StoredOf("motor")
    BY StoreAssumption DEF StoredOf, ValuesOf
  <2>2. Places' /\ Flags'
    BY <1>2, <2>1 DEF MotorComputes, ComputedFactor, Places, Flags
  <2>3. Stores' /\ Channels'
    BY <1>2 DEF MotorComputes, Stores, Channels
  <2> QED BY <2>2, <2>3, TypeParts
<1>3. CASE MotorSaves
  <2>1. motorSave \in ValuesOf("motor") /\ "motor" \in Kinds
    BY <1>3, KindValues DEF MotorSaves, Places, Kinds
  <2>2. flashQueue' \in Seq(FlashCommands) /\ Len(flashQueue') <= FlashCap
    BY <1>3, <2>1, SaveIsCommand, QueueSteps DEF MotorSaves
  <2>3. Channels'
    BY <1>3, <2>2 DEF MotorSaves, Channels
  <2>4. Places' /\ Flags'
    BY <1>3 DEF MotorSaves, Places, Flags, StoredOf
  <2>5. Stores'
    BY <1>3 DEF MotorSaves, Stores
  <2> QED BY <2>3, <2>4, <2>5, TypeParts
<1> QED BY <1>1, <1>2, <1>3

LEMMA DistanceTypes == TypeOK /\ DistanceNext => TypeOK'
<1> SUFFICES ASSUME TypeOK, DistanceNext PROVE TypeOK'
  OBVIOUS
<1> Stores /\ Channels /\ Places /\ Flags
  BY TypeParts
<1> USE DEF bootVars
<1>status. [status EXCEPT !["distance"] = "Loaded"] \in [Kinds -> Statuses]
  BY DEF Stores, Statuses
<1>values. /\ DistanceFactors \subseteq StoredOf("distance")
           /\ StoredOf("distance") = DistanceFactors \cup {NoValue}
           /\ Nominal \in DistanceFactors
  BY StoreAssumption DEF StoredOf, ValuesOf
<1>1. CASE Begin
  <2>1. Stores'
    BY <1>1, <1>status, <1>values DEF Begin, Stores
  <2>2. Places'
    BY <1>1, <1>values DEF Begin, Places, Phases, Stores
  <2>3. Channels' /\ Flags'
    BY <1>1 DEF Begin, Channels, Flags
  <2> QED BY <2>1, <2>2, <2>3, TypeParts
<1>2. ASSUME Abort, phase' \in Phases PROVE TypeOK'
  <2>1. Stores'
    BY <1>2, <1>status, <1>values DEF Abort, Stores, Places
  <2>2. Places'
    BY <1>2, <1>values DEF Abort, Places
  <2>3. Channels' /\ Flags'
    BY <1>2 DEF Abort, Channels, Flags
  <2> QED BY <2>1, <2>2, <2>3, TypeParts
<1>3. CASE DriveStopped \/ Cancel
  BY <1>2, <1>3 DEF DriveStopped, Cancel, Phases
<1>4. ASSUME NEW from \in Phases, NEW to \in Phases, To(from, to) PROVE TypeOK'
  <2>1. Places' /\ Flags'
    BY <1>4 DEF To, Places, Flags
  <2>2. Stores' /\ Channels'
    BY <1>4 DEF To, Stores, Channels
  <2> QED BY <2>1, <2>2, TypeParts
<1>5. CASE \/ Launch \/ DriveEnds \/ DriveFails \/ DriveCompletes
           \/ PanelEnters \/ StopsTooLate \/ Dismiss
  BY <1>4, <1>5 DEF Launch, DriveEnds, DriveFails, DriveCompletes, PanelEnters, StopsTooLate,
     Dismiss, Phases
<1>6. ASSUME NEW value \in DistanceFactors, Commit(value) PROVE TypeOK'
  <2>1. "distance" \in Kinds /\ value \in ValuesOf("distance")
    BY DEF Kinds, ValuesOf
  <2>2. flashQueue' \in Seq(FlashCommands) /\ Len(flashQueue') <= FlashCap
    BY <1>6, <2>1, SaveIsCommand, QueueSteps DEF Commit
  <2>3. Channels'
    BY <1>6, <2>2 DEF Commit, Channels
  <2>4. Stores'
    BY <1>6, <1>status DEF Commit, Stores
  <2>5. Places' /\ Flags'
    BY <1>6, <1>values DEF Commit, Places, Flags, Phases
  <2> QED BY <2>3, <2>4, <2>5, TypeParts
<1> QED BY <1>1, <1>3, <1>5, <1>6 DEF DistanceNext

LEMMA RestartTypes == TypeOK /\ Restart => TypeOK'
<1> SUFFICES ASSUME TypeOK, Restart PROVE TypeOK'
  OBVIOUS
<1>1. flash' \in FlashContents
  <2>1. flashTask.op = "save" => /\ flashTask.kind \in Kinds
                                 /\ flashTask.value \in StoredOf(flashTask.kind)
    BY TaskFields DEF TypeOK, StoredOf, NoCommand
  <2> QED BY <2>1, FlashUpdate DEF Restart, TypeOK
<1>2. [kind \in Kinds |-> Nominal] \in CacheContents
  BY KindValues DEF CacheContents
<1>3. [kind \in Kinds |-> "NotLoaded"] \in [Kinds -> Statuses]
  BY DEF Statuses
<1>4. <<Initialize>> \in Seq(Events) /\ Len(<<Initialize>>) = 1 /\ 1 <= EventCap
  BY StoreAssumption DEF Events
<1>5. <<>> \in Seq(FlashCommands) /\ Len(<<>>) = 0 /\ 0 <= FlashCap
  BY StoreAssumption
<1>6. NoValue \in StoredOf("motor") /\ NoValue \in StoredOf("distance") /\ "idle" \in Phases
  BY DEF StoredOf, Phases
<1>7. Nominal \in MotorFactors /\ Nominal \in DistanceFactors
  BY StoreAssumption
<1>8. Stores' /\ Channels'
  BY <1>1, <1>2, <1>3, <1>4, <1>5, <1>7 DEF Restart, Stores, Channels
<1>9. Places' /\ Flags'
  BY <1>6, <1>7 DEF Restart, Places, Flags
<1> QED BY <1>8, <1>9, TypeParts

\* Every variable stays in its range, for every set of factors and all channel
\* capacities the boot needs (flash_storage.rs, initialization/mod.rs).
THEOREM StoreTypeCorrect == Spec => []TypeOK
<1>1. Init => TypeOK
  BY PowerOnTypes DEF Init
<1>2. TypeOK /\ [Next]_vars => TypeOK'
  <2>1. TypeOK /\ UNCHANGED vars => TypeOK'
    BY DEF vars, bootVars, distanceVars, TypeOK
  <2> QED BY <2>1, FlashTaskTypes, OrchestratorTypes, MotorTypes, DistanceTypes, RestartTypes DEF Next
<1> QED BY <1>1, <1>2, PTL DEF Spec

-----------------------------------------------------------------------------
(* Entries of a channel *)

LEMMA TailEntries ==
  ASSUME NEW S, NEW seq \in Seq(S), seq # <<>>
  PROVE  /\ 1 \in DOMAIN seq /\ Head(seq) = seq[1]
         /\ \A i \in DOMAIN Tail(seq) : i + 1 \in DOMAIN seq /\ Tail(seq)[i] = seq[i + 1]
OBVIOUS

LEMMA AppendEntries ==
  ASSUME NEW S, NEW seq \in Seq(S), NEW entry \in S
  PROVE  \A i \in DOMAIN Append(seq, entry) :
            \/ i \in DOMAIN seq /\ Append(seq, entry)[i] = seq[i]
            \/ Append(seq, entry)[i] = entry
OBVIOUS

-----------------------------------------------------------------------------
(* Motor events in a channel *)

IsMotor(event) == event.event = "loaded" /\ event.kind = "motor"
NoMotor(seq) == \A i \in DOMAIN seq : ~IsMotor(seq[i])
Filled(seq) == \A i \in DOMAIN seq : IsMotor(seq[i]) => seq[i].data # NoValue
NoBoot(seq) == \A i \in DOMAIN seq : seq[i] # Initialize

\* The last motor event, if there is one, carries the value.
LatestIs(seq, value) ==
    \A i \in DOMAIN seq :
        IsMotor(seq[i]) /\ (\A j \in DOMAIN seq : IsMotor(seq[j]) => j <= i)
        => seq[i].data = value

\* There is one motor event, and it says that nothing is stored.
OnlyMissing(seq) ==
    \E i \in DOMAIN seq :
        /\ IsMotor(seq[i]) /\ seq[i].data = NoValue
        /\ \A j \in DOMAIN seq : IsMotor(seq[j]) => j = i

LEMMA TailEvents ==
  ASSUME NEW seq \in Seq(Events), seq # <<>>
  PROVE  /\ NoBoot(seq) => NoBoot(Tail(seq))
         /\ Filled(seq) => Filled(Tail(seq)) /\ (IsMotor(Head(seq)) => Head(seq).data # NoValue)
         /\ \A value : LatestIs(seq, value) =>
               /\ LatestIs(Tail(seq), value)
               /\ IsMotor(Head(seq)) /\ NoMotor(Tail(seq)) => Head(seq).data = value
         /\ ~IsMotor(Head(seq)) => (NoMotor(seq) <=> NoMotor(Tail(seq)))
         /\ IsMotor(Head(seq)) => ~NoMotor(seq)
         /\ OnlyMissing(seq) =>
               IF IsMotor(Head(seq))
               THEN NoMotor(Tail(seq)) /\ Head(seq).data = NoValue
               ELSE OnlyMissing(Tail(seq))
<1> DEFINE rest == Tail(seq)
<1>1. /\ Len(seq) \in Nat /\ Len(seq) >= 1
      /\ DOMAIN seq = 1 .. Len(seq) /\ DOMAIN rest = 1 .. Len(seq) - 1
      /\ Head(seq) = seq[1]
      /\ \A i \in 1 .. Len(seq) - 1 : rest[i] = seq[i + 1]
  OBVIOUS
<1>2. \A j \in DOMAIN seq : j = 1 \/ (j - 1 \in DOMAIN rest /\ rest[j - 1] = seq[j])
  BY <1>1
<1> HIDE DEF rest
<1>3. (NoBoot(seq) => NoBoot(rest)) /\ (Filled(seq) => Filled(rest))
  BY <1>1 DEF NoBoot, Filled
<1>4. IsMotor(Head(seq)) => ~NoMotor(seq)
  BY <1>1 DEF NoMotor
<1>5. Filled(seq) /\ IsMotor(Head(seq)) => Head(seq).data # NoValue
  BY <1>1 DEF Filled
<1>6. ASSUME NEW value, LatestIs(seq, value) PROVE LatestIs(rest, value)
  <2> SUFFICES ASSUME NEW i \in DOMAIN rest, IsMotor(rest[i]),
                      \A j \in DOMAIN rest : IsMotor(rest[j]) => j <= i
               PROVE  rest[i].data = value
    BY DEF LatestIs
  <2>1. i + 1 \in DOMAIN seq /\ IsMotor(seq[i + 1]) /\ rest[i] = seq[i + 1]
    BY <1>1
  <2>2. ASSUME NEW j \in DOMAIN seq, IsMotor(seq[j]) PROVE j <= i + 1
    <3>1. j = 1 \/ (j - 1 \in DOMAIN rest /\ IsMotor(rest[j - 1]))
      BY <1>2, <2>2
    <3> QED BY <3>1, <1>1
  <2> QED BY <1>6, <2>1, <2>2 DEF LatestIs
<1>7. ASSUME NEW value, LatestIs(seq, value), IsMotor(Head(seq)), NoMotor(rest)
      PROVE  Head(seq).data = value
  <2>1. ASSUME NEW j \in DOMAIN seq, IsMotor(seq[j]) PROVE j <= 1
    BY <1>1, <1>2, <1>7, <2>1 DEF NoMotor
  <2> QED BY <1>1, <1>7, <2>1 DEF LatestIs
<1>8. ASSUME ~IsMotor(Head(seq)) PROVE NoMotor(seq) <=> NoMotor(rest)
  <2>1. ASSUME NoMotor(seq), NEW i \in DOMAIN rest PROVE ~IsMotor(rest[i])
    BY <1>1, <2>1 DEF NoMotor
  <2>2. ASSUME NoMotor(rest), NEW j \in DOMAIN seq PROVE ~IsMotor(seq[j])
    BY <1>1, <1>2, <1>8, <2>2 DEF NoMotor
  <2> QED BY <2>1, <2>2 DEF NoMotor
<1>9. ASSUME OnlyMissing(seq)
      PROVE  IF IsMotor(Head(seq)) THEN NoMotor(rest) /\ Head(seq).data = NoValue
             ELSE OnlyMissing(rest)
  <2>1. PICK i \in DOMAIN seq : /\ IsMotor(seq[i]) /\ seq[i].data = NoValue
                                /\ \A j \in DOMAIN seq : IsMotor(seq[j]) => j = i
    BY <1>9 DEF OnlyMissing
  <2>2. CASE IsMotor(Head(seq))
    BY <1>1, <2>1, <2>2 DEF NoMotor
  <2>3. CASE ~IsMotor(Head(seq))
    <3>1. i - 1 \in DOMAIN rest /\ rest[i - 1] = seq[i]
      BY <1>1, <1>2, <2>1, <2>3
    <3>2. ASSUME NEW j \in DOMAIN rest, IsMotor(rest[j]) PROVE j = i - 1
      BY <1>1, <2>1, <3>2
    <3> QED BY <2>1, <2>3, <3>1, <3>2 DEF OnlyMissing
  <2> QED BY <2>2, <2>3
<1> QED BY <1>3, <1>4, <1>5, <1>6, <1>7, <1>8, <1>9 DEF rest

LEMMA AppendedEvents ==
  ASSUME NEW seq \in Seq(Events), NEW event \in Events
  PROVE  /\ NoBoot(seq) /\ event # Initialize => NoBoot(Append(seq, event))
         /\ Filled(seq) /\ (IsMotor(event) => event.data # NoValue)
               => Filled(Append(seq, event))
         /\ IsMotor(event) =>
               /\ ~NoMotor(Append(seq, event))
               /\ LatestIs(Append(seq, event), event.data)
               /\ NoMotor(seq) /\ event.data = NoValue => OnlyMissing(Append(seq, event))
         /\ ~IsMotor(event) =>
               /\ NoMotor(seq) <=> NoMotor(Append(seq, event))
               /\ \A value : LatestIs(seq, value) => LatestIs(Append(seq, event), value)
               /\ OnlyMissing(seq) => OnlyMissing(Append(seq, event))
<1> DEFINE longer == Append(seq, event)  last == Len(seq) + 1
<1>1. /\ Len(seq) \in Nat /\ DOMAIN seq = 1 .. Len(seq) /\ DOMAIN longer = 1 .. last
      /\ longer[last] = event /\ \A i \in 1 .. Len(seq) : longer[i] = seq[i]
  OBVIOUS
<1> HIDE DEF longer
<1>2. \A i \in DOMAIN longer : i = last \/ (i \in DOMAIN seq /\ longer[i] = seq[i])
  BY <1>1
<1>3. /\ NoBoot(seq) /\ event # Initialize => NoBoot(longer)
      /\ Filled(seq) /\ (IsMotor(event) => event.data # NoValue) => Filled(longer)
  BY <1>1, <1>2 DEF NoBoot, Filled
<1>4. ASSUME IsMotor(event)
      PROVE  /\ ~NoMotor(longer)
             /\ LatestIs(longer, event.data)
             /\ NoMotor(seq) /\ event.data = NoValue => OnlyMissing(longer)
  <2>1. last \in DOMAIN longer /\ IsMotor(longer[last])
    BY <1>1, <1>4
  <2>2. ASSUME NEW i \in DOMAIN longer, last <= i PROVE i = last
    BY <1>1, <2>2
  <2>3. LatestIs(longer, event.data)
    BY <1>1, <2>1, <2>2 DEF LatestIs
  <2>4. ASSUME NoMotor(seq), event.data = NoValue PROVE OnlyMissing(longer)
    BY <1>1, <1>2, <2>1, <2>4 DEF NoMotor, OnlyMissing
  <2> QED BY <2>1, <2>3, <2>4 DEF NoMotor
<1>5. ASSUME ~IsMotor(event)
      PROVE  /\ NoMotor(seq) <=> NoMotor(longer)
             /\ \A value : LatestIs(seq, value) => LatestIs(longer, value)
             /\ OnlyMissing(seq) => OnlyMissing(longer)
  <2>1. NoMotor(seq) <=> NoMotor(longer)
    BY <1>1, <1>2, <1>5 DEF NoMotor
  <2>2. \A i \in DOMAIN longer : IsMotor(longer[i]) => i \in DOMAIN seq /\ longer[i] = seq[i]
    BY <1>1, <1>2, <1>5
  <2>3. \A i \in DOMAIN seq : i \in DOMAIN longer /\ longer[i] = seq[i]
    BY <1>1
  <2>4. \A value : LatestIs(seq, value) => LatestIs(longer, value)
    BY <2>2, <2>3 DEF LatestIs
  <2>5. OnlyMissing(seq) => OnlyMissing(longer)
    BY <2>2, <2>3 DEF OnlyMissing
  <2> QED BY <2>1, <2>4, <2>5
<1> QED BY <1>3, <1>4, <1>5 DEF longer

-----------------------------------------------------------------------------
(* The invariant *)

AnswersMotor == flashTask.op = "answer" /\ flashTask.kind = "motor"
NoMotorQuery ==
    /\ \A i \in DOMAIN flashQueue : flashQueue[i] # GetData("motor")
    /\ flashTask # GetData("motor")
IsMotorSave(command) == command.op = "save" /\ command.kind = "motor"
NoMotorSave ==
    /\ motorSave = NoValue
    /\ \A i \in DOMAIN flashQueue : ~IsMotorSave(flashQueue[i])
    /\ ~IsMotorSave(flashTask)
NoSave ==
    /\ motorSave = NoValue
    /\ \A i \in DOMAIN flashQueue : flashQueue[i].op # "save"
    /\ flashTask.op # "save"
Queries == <<GetData("motor"), GetData("flags"), GetData("distance")>>

\* Until the boot's motor query is answered, nothing has changed the factors.
Untouched ==
    /\ ~gateOpen /\ phase = "idle"
    /\ driver = Nominal /\ cache["motor"] = Nominal
    /\ status["motor"] = "NotLoaded"
Starting ==
    /\ Untouched /\ motorSave = NoValue
    /\ \/ events = <<Initialize>> /\ flashQueue = <<>> /\ flashTask = NoCommand
       \/ events = <<>> /\ flashQueue = Queries /\ flashTask = NoCommand
       \/ events = <<>> /\ flashQueue = Tail(Queries) /\ flashTask = GetData("motor")

\* The query was answered: nothing is stored, or it could not be read.
Missing ==
    /\ Untouched /\ NoBoot(events) /\ NoMotorQuery /\ NoSave
    /\ agrees => flash["motor"] = NoValue
    /\ IF AnswersMotor THEN flashTask.data = NoValue /\ NoMotor(events)
                       ELSE OnlyMissing(events)

\* The last value under way, if there is one, and the driver otherwise, is what
\* flash and its RAM copy have.
Decided ==
    LET value == cache["motor"] IN
    /\ flash["motor"] \in {value, NoValue}
    /\ IF AnswersMotor THEN flashTask.data = value ELSE LatestIs(events, value)
    /\ IF AnswersMotor \/ ~NoMotor(events)
       THEN flash["motor"] = value
       ELSE driver = value /\ status["motor"] = StatusOf(flash["motor"])
Running ==
    /\ NoBoot(events) /\ NoMotorQuery /\ Filled(events)
    /\ AnswersMotor => flashTask.data # NoValue
    /\ flashTask.op = "save" => cache[flashTask.kind] = flashTask.value
    /\ agrees /\ NoMotorSave => Decided

CopiesInv == Starting \/ Missing \/ Running

-----------------------------------------------------------------------------
(* The boot *)

\* Power lost at any time leaves what a boot begins with.
LEMMA RestartStarts == Restart => CopiesInv'
BY DEF Restart, CopiesInv, Starting, Untouched, Kinds

LEMMA StartingKeeps == TypeOK /\ Starting /\ Next => CopiesInv'
<1> SUFFICES ASSUME TypeOK, Starting, Next PROVE CopiesInv'
  OBVIOUS
<1>0. Untouched /\ motorSave = NoValue
  BY DEF Starting
<1>1. CASE Restart
  BY <1>1, RestartStarts
<1>2. ~(GateOpens \/ MotorComputes \/ MotorSaves \/ DistanceNext)
  <2>1. ~IsInitialized
    BY <1>0 DEF Untouched, IsInitialized, Kinds
  <2> QED BY <1>0, <2>1 DEF Untouched, GateOpens, MotorComputes, MotorSaves, DistanceNext,
       Begin, DriveStopped, Launch, DriveEnds, DriveFails, DriveCompletes, PanelEnters,
       StopsTooLate, Dismiss, Cancel, Commit, To
<1>3. CASE events = <<Initialize>> /\ flashQueue = <<>> /\ flashTask = NoCommand
  <2>1. ~FlashNext
    BY <1>3 DEF FlashNext, FlashTakes, FlashReads, FlashWrites, FlashRaises, NoCommand
  <2>2. ~HandleCalibrationDataLoaded
    BY <1>3 DEF HandleCalibrationDataLoaded, Initialize
  <2>3. CASE HandleInitialize
    <3>1. events' = <<>> /\ flashQueue' = Queries /\ flashTask' = NoCommand
      BY <1>3, <2>3 DEF HandleInitialize, Queries
    <3> QED BY <1>0, <2>3, <3>1 DEF HandleInitialize, CopiesInv, Starting, Untouched, distanceVars
  <2> QED BY <1>1, <1>2, <2>1, <2>2, <2>3 DEF Next, OrchestratorNext
<1>4. CASE events = <<>> /\ flashQueue = Queries /\ flashTask = NoCommand
  <2>1. ~OrchestratorNext
    BY <1>4 DEF OrchestratorNext, HandleInitialize, HandleCalibrationDataLoaded
  <2>2. ~(FlashReads \/ FlashWrites \/ FlashRaises)
    BY <1>4 DEF FlashReads, FlashWrites, FlashRaises, NoCommand
  <2>3. CASE FlashTakes
    <3>1. flashTask' = GetData("motor") /\ flashQueue' = Tail(Queries)
      BY <1>4, <2>3 DEF FlashTakes, Queries
    <3>2. cache' = cache
      BY <2>3, <3>1 DEF FlashTakes, CacheOnSave, GetData
    <3> QED BY <1>0, <1>4, <2>3, <3>1, <3>2
         DEF FlashTakes, CopiesInv, Starting, Untouched, distanceVars
  <2> QED BY <1>1, <1>2, <2>1, <2>2, <2>3 DEF Next, FlashNext
<1>5. CASE events = <<>> /\ flashQueue = Tail(Queries) /\ flashTask = GetData("motor")
  <2>1. ~OrchestratorNext
    BY <1>5 DEF OrchestratorNext, HandleInitialize, HandleCalibrationDataLoaded
  <2>2. ~(FlashTakes \/ FlashWrites \/ FlashRaises)
    BY <1>5 DEF FlashTakes, FlashWrites, FlashRaises, NoCommand, GetData
  <2>3. CASE FlashReads
    <3>1. flashTask.kind = "motor" /\ "motor" \in Kinds /\ "motor" # "distance"
      BY <1>5 DEF GetData, Kinds
    <3>2. flashQueue' = <<GetData("flags"), GetData("distance")>> /\ events' = <<>>
      BY <1>5, <2>3 DEF FlashReads, Queries
    <3>3. PICK data : /\ flashTask' = Answer("motor", data)
                      /\ \/ /\ data = flash["motor"] /\ data # NoValue
                            /\ cache' = [cache EXCEPT !["motor"] = data]
                         \/ /\ data = NoValue /\ UNCHANGED <<cache, status>>
                            /\ agrees' = (flash["motor"] = NoValue)
      BY <2>3, <3>1 DEF FlashReads, Note
    <3>4. flashTask'.op = "answer" /\ flashTask'.kind = "motor" /\ flashTask'.data = data
      BY <3>3 DEF Answer
    <3>5. NoMotorQuery' /\ NoSave'
      BY <1>0, <2>3, <3>2, <3>4 DEF NoMotorQuery, NoSave, GetData, FlashReads
    <3>6. NoBoot(events') /\ NoMotor(events') /\ Filled(events')
      BY <3>2 DEF NoBoot, NoMotor, Filled
    <3>7. flash' = flash
      BY <2>3 DEF FlashReads
    <3>8. CASE data # NoValue
      <4>1. cache'["motor"] = data /\ flash'["motor"] = data
        BY <3>1, <3>3, <3>7, <3>8 DEF TypeOK, CacheContents
      <4> QED BY <3>4, <3>5, <3>6, <3>8, <4>1 DEF CopiesInv, Running, Decided, AnswersMotor
    <3>9. CASE data = NoValue
      BY <1>0, <2>3, <3>3, <3>4, <3>5, <3>6, <3>7, <3>9
      DEF CopiesInv, Missing, Untouched, AnswersMotor, FlashReads, distanceVars
    <3> QED BY <3>8, <3>9
  <2> QED BY <1>1, <1>2, <2>1, <2>2, <2>3 DEF Next, FlashNext
<1> QED BY <1>3, <1>4, <1>5 DEF Starting

\* Commands that leave the queue, and those that enter it.
LEMMA TakenCommand ==
  ASSUME TypeOK, FlashTakes
  PROVE  /\ flashTask' \in FlashCommands /\ flashTask'.op \in {"get", "save"}
         /\ flashTask' = flashQueue[1] /\ 1 \in DOMAIN flashQueue
         /\ \A i \in DOMAIN flashQueue' :
               i + 1 \in DOMAIN flashQueue /\ flashQueue'[i] = flashQueue[i + 1]
         /\ \A j \in DOMAIN flashQueue :
               j = 1 \/ (j - 1 \in DOMAIN flashQueue' /\ flashQueue'[j - 1] = flashQueue[j])
         /\ flashTask.op = "none"
<1>1. flashQueue \in Seq(FlashCommands) /\ flashQueue # <<>>
      /\ flashTask' = Head(flashQueue) /\ flashQueue' = Tail(flashQueue)
      /\ flashTask = NoCommand
  BY DEF TypeOK, FlashTakes
<1>2. flashTask' \in FlashCommands
  BY <1>1
<1>3. flashTask'.op \in {"get", "save"}
  BY <1>2, TaskFields
<1> QED BY <1>1, <1>2, <1>3 DEF NoCommand

LEMMA SentDistanceSave ==
  ASSUME TypeOK, NEW value \in DistanceFactors, Send(SaveData("distance", value))
  PROVE  /\ NoMotorQuery /\ UNCHANGED flashTask => NoMotorQuery'
         /\ NoMotorSave' /\ UNCHANGED <<motorSave, flashTask>> => NoMotorSave
<1> DEFINE save == SaveData("distance", value)
<1>1. save \in FlashCommands /\ save.kind = "distance" /\ save # GetData("motor")
  <2>1. value \in ValuesOf("distance") /\ "distance" \in Kinds
    BY DEF ValuesOf, Kinds
  <2> QED BY <2>1, SaveIsCommand DEF SaveData, GetData
<1>2. flashQueue \in Seq(FlashCommands) /\ flashQueue' = Append(flashQueue, save)
  BY DEF TypeOK, Send
<1> HIDE DEF save
<1>3. /\ \A i \in DOMAIN flashQueue' :
            \/ i \in DOMAIN flashQueue /\ flashQueue'[i] = flashQueue[i]
            \/ flashQueue'[i] = save
      /\ \A i \in DOMAIN flashQueue :
            i \in DOMAIN flashQueue' /\ flashQueue'[i] = flashQueue[i]
  BY <1>1, <1>2
<1> QED BY <1>1, <1>3 DEF NoMotorQuery, NoMotorSave

\* The event the flash task raises.
LEMMA RaisedEvent ==
  ASSUME TypeOK, FlashRaises
  PROVE  \E event \in Events :
            /\ event # Initialize /\ events' = Append(events, event)
            /\ IsMotor(event) <=> AnswersMotor
            /\ event.data = flashTask.data
            /\ flashTask'.op = "none"
<1> DEFINE event == CalibrationDataLoaded(flashTask.kind, flashTask.data)
<1>1. flashTask.op = "answer" /\ flashTask # NoCommand
      /\ flashTask \in FlashCommands \cup Answers \cup {NoCommand}
  BY DEF FlashRaises, TypeOK, NoCommand
<1>2. flashTask.kind \in Kinds /\ flashTask.data \in StoredOf(flashTask.kind)
  BY <1>1, TaskFields
<1>3. event \in Events
  BY <1>2, LoadedIsEvent
<1>4. event.event = "loaded" /\ event.kind = flashTask.kind /\ event.data = flashTask.data
  BY DEF CalibrationDataLoaded
<1>5. events' = Append(events, event) /\ flashTask' = NoCommand
  BY DEF FlashRaises, Raise
<1>6. event # Initialize
  BY <1>4 DEF Initialize
<1> HIDE DEF event
<1> QED BY <1>1, <1>3, <1>4, <1>5, <1>6 DEF IsMotor, AnswersMotor, NoCommand

LEMMA MissingKeeps == TypeOK /\ Missing /\ Next => CopiesInv'
<1> SUFFICES ASSUME TypeOK, Missing, Next PROVE CopiesInv'
  OBVIOUS
<1>0. Untouched /\ NoBoot(events) /\ NoMotorQuery /\ NoSave
      /\ (agrees => flash["motor"] = NoValue)
  BY DEF Missing
<1>1. CASE Restart
  BY <1>1, RestartStarts
<1>2. ~(GateOpens \/ MotorComputes \/ MotorSaves \/ DistanceNext)
  <2>1. ~IsInitialized /\ motorSave = NoValue
    BY <1>0 DEF Untouched, IsInitialized, Kinds, NoSave
  <2> QED BY <1>0, <2>1 DEF Untouched, GateOpens, MotorComputes, MotorSaves, DistanceNext,
       Begin, DriveStopped, Launch, DriveEnds, DriveFails, DriveCompletes, PanelEnters,
       StopsTooLate, Dismiss, Cancel, Commit, To
<1>3. ~FlashWrites
  BY <1>0 DEF FlashWrites, NoSave
<1>4. ~HandleInitialize
  BY <1>0 DEF HandleInitialize, NoBoot, TypeOK
<1>5. CASE FlashTakes
  <2>1. flashTask'.op = "get" /\ flashTask' # GetData("motor") /\ ~AnswersMotor /\ ~AnswersMotor'
    BY <1>0, <1>5, TakenCommand DEF NoSave, NoMotorQuery, AnswersMotor
  <2>2. NoMotorQuery' /\ NoSave'
    BY <1>0, <1>5, <2>1, TakenCommand DEF NoSave, NoMotorQuery, FlashTakes
  <2>3. cache' = cache
    BY <1>5, <2>1 DEF FlashTakes, CacheOnSave
  <2> QED BY <1>0, <1>5, <2>1, <2>2, <2>3
       DEF Missing, CopiesInv, FlashTakes, Untouched, distanceVars
<1>6. CASE FlashReads
  <2>1. flashTask.kind # "motor" /\ ~AnswersMotor
    BY <1>0, <1>6, TaskFields DEF FlashReads, NoMotorQuery, GetData, AnswersMotor, TypeOK,
       FlashCommands, Answers, NoCommand
  <2>2. \E data : flashTask' = Answer(flashTask.kind, data)
    BY <1>6 DEF FlashReads
  <2>3. flashTask'.op = "answer" /\ flashTask'.kind = flashTask.kind
    BY <2>2 DEF Answer
  <2>4. cache'["motor"] = cache["motor"] /\ status'["motor"] = status["motor"]
        /\ agrees' = agrees
    BY <1>6, <2>1 DEF FlashReads, Publish, Note, TypeOK, CacheContents, Kinds
  <2>5. NoMotorQuery' /\ NoSave' /\ ~AnswersMotor'
    BY <1>0, <1>6, <2>1, <2>3 DEF FlashReads, NoMotorQuery, NoSave, AnswersMotor, GetData
  <2> QED BY <1>0, <1>6, <2>1, <2>4, <2>5
       DEF Missing, CopiesInv, FlashReads, Untouched, distanceVars
<1>7. CASE FlashRaises
  <2>1. PICK event \in Events :
           /\ event # Initialize /\ events' = Append(events, event)
           /\ IsMotor(event) <=> AnswersMotor
           /\ event.data = flashTask.data
           /\ flashTask'.op = "none"
    BY <1>7, RaisedEvent
  <2>2. NoMotorQuery' /\ NoSave' /\ ~AnswersMotor'
    BY <1>0, <1>7, <2>1 DEF FlashRaises, NoMotorQuery, NoSave, AnswersMotor, GetData
  <2>3. NoBoot(events') /\ OnlyMissing(events')
    BY <1>0, <2>1, AppendedEvents DEF Missing, TypeOK
  <2> QED BY <1>0, <1>7, <2>2, <2>3
       DEF Missing, CopiesInv, FlashRaises, Untouched, distanceVars
<1>8. CASE HandleCalibrationDataLoaded
  <2> DEFINE event == Head(events)
  <2>1. /\ events \in Seq(Events) /\ events # <<>> /\ events' = Tail(events)
        /\ event \in Events /\ event.event = "loaded" /\ NoBoot(events')
    BY <1>0, <1>8, TailEvents DEF HandleCalibrationDataLoaded, TypeOK
  <2>2. NoMotorQuery' /\ NoSave' /\ (AnswersMotor <=> AnswersMotor') /\ flashTask' = flashTask
    BY <1>0, <1>8 DEF HandleCalibrationDataLoaded, NoMotorQuery, NoSave, AnswersMotor
  <2>3. CASE event.kind = "motor"
    <3>1. IsMotor(event) /\ ~NoMotor(events)
      BY <2>1, <2>3, TailEvents DEF IsMotor
    <3>2. ~AnswersMotor /\ OnlyMissing(events)
      BY <3>1 DEF Missing
    <3>3. NoMotor(events') /\ event.data = NoValue
      BY <2>1, <3>1, <3>2, TailEvents
    <3>4. driver' = driver /\ status'["motor"] = "NotAvailable"
          /\ cache' = cache /\ flash' = flash /\ agrees' = agrees
      BY <1>8, <2>3, <3>3 DEF HandleCalibrationDataLoaded, StatusAfter, StatusOf, DriverAfter,
         TypeOK, Kinds
    <3>5. Filled(events') /\ ~AnswersMotor'
      BY <2>2, <3>2, <3>3 DEF Filled, NoMotor
    <3>6. agrees' => Decided'
      BY <1>0, <2>2, <3>2, <3>3, <3>4 DEF Decided, Untouched, StatusOf, LatestIs, NoMotor
    <3> QED BY <2>1, <2>2, <3>5, <3>6 DEF CopiesInv, Running, NoSave
  <2>4. CASE event.kind # "motor"
    <3>1. ~IsMotor(event)
      BY <2>4 DEF IsMotor
    <3>2. /\ NoMotor(events) => NoMotor(events')
          /\ OnlyMissing(events) => OnlyMissing(events')
      BY <2>1, <3>1, TailEvents
    <3>3. driver' = driver /\ status'["motor"] = status["motor"]
      BY <1>8, <2>4 DEF HandleCalibrationDataLoaded, StatusAfter, TypeOK, Kinds
    <3> QED BY <1>0, <1>8, <2>1, <2>2, <3>2, <3>3
         DEF Missing, CopiesInv, HandleCalibrationDataLoaded, Untouched, distanceVars
  <2> QED BY <2>3, <2>4
<1> QED BY <1>1, <1>2, <1>3, <1>4, <1>5, <1>6, <1>7, <1>8 DEF Next, FlashNext, OrchestratorNext

-----------------------------------------------------------------------------
(* After the boot *)

\* What a step may leave alone and still change nothing that is decided.
MotorUntouched ==
    /\ agrees' = agrees /\ driver' = driver /\ status'["motor"] = status["motor"]
    /\ flash'["motor"] = flash["motor"] /\ cache'["motor"] = cache["motor"]

LEMMA DecidedStands ==
  ASSUME Decided, MotorUntouched, AnswersMotor' <=> AnswersMotor,
         AnswersMotor => flashTask' = flashTask,
         NoMotor(events)' <=> NoMotor(events),
         \A value : LatestIs(events, value) => LatestIs(events, value)'
  PROVE  Decided'
BY DEF Decided, MotorUntouched

LEMMA SameEvents ==
  ASSUME events' = events
  PROVE  /\ NoMotor(events)' <=> NoMotor(events)
         /\ \A value : LatestIs(events, value) => LatestIs(events, value)'
         /\ NoBoot(events) => NoBoot(events)'
         /\ Filled(events) => Filled(events)'
OBVIOUS

LEMMA FlashKeepsRunning == TypeOK /\ Running /\ FlashNext => Running'
<1> SUFFICES ASSUME TypeOK, Running, FlashNext PROVE Running'
  OBVIOUS
<1>0. /\ NoBoot(events) /\ NoMotorQuery /\ Filled(events)
      /\ (flashTask.op = "save" => cache[flashTask.kind] = flashTask.value)
      /\ (agrees /\ NoMotorSave => Decided)
      /\ cache \in CacheContents /\ flash \in FlashContents /\ status \in [Kinds -> Statuses]
      /\ events \in Seq(Events)
      /\ flashTask \in FlashCommands \cup Answers \cup {NoCommand}
  BY DEF Running, TypeOK
<1>1. CASE FlashTakes
  <2>1. /\ flashTask'.op \in {"get", "save"} /\ flashTask' # GetData("motor")
        /\ ~AnswersMotor /\ ~AnswersMotor'
    BY <1>0, <1>1, TakenCommand DEF NoMotorQuery, AnswersMotor
  <2>2. NoMotorQuery'
    BY <1>0, <1>1, <2>1, TakenCommand DEF NoMotorQuery
  <2>3. flashTask'.op = "save" => flashTask'.kind \in Kinds
    BY <1>1, TakenCommand, TaskFields, <2>1 DEF NoCommand
  <2>4. flashTask'.op = "save" => cache'[flashTask'.kind] = flashTask'.value
    BY <1>0, <1>1, <2>3 DEF FlashTakes, CacheOnSave, CacheContents
  <2>5. ASSUME NoMotorSave' PROVE NoMotorSave /\ cache'["motor"] = cache["motor"]
    <3>1. ~IsMotorSave(flashTask')
      BY <2>5 DEF NoMotorSave
    <3>2. cache'["motor"] = cache["motor"]
      BY <1>0, <1>1, <3>1 DEF FlashTakes, CacheOnSave, CacheContents, IsMotorSave, Kinds
    <3>3. \A j \in DOMAIN flashQueue : ~IsMotorSave(flashQueue[j])
      BY <1>1, <2>5, <3>1, TakenCommand DEF NoMotorSave
    <3>4. ~IsMotorSave(flashTask) /\ motorSave = NoValue
      BY <1>1, <2>5, TakenCommand DEF NoMotorSave, IsMotorSave, FlashTakes
    <3> QED BY <3>2, <3>3, <3>4 DEF NoMotorSave
  <2>6. agrees' /\ NoMotorSave' => Decided'
    <3>1. /\ UNCHANGED <<events, agrees, driver, status, flash>>
      BY <1>1 DEF FlashTakes
    <3> QED BY <1>0, <2>1, <2>5, <3>1, DecidedStands, SameEvents DEF MotorUntouched
  <2>7. events' = events
    BY <1>1 DEF FlashTakes
  <2> QED BY <1>0, <2>1, <2>2, <2>4, <2>6, <2>7 DEF Running
<1>2. CASE FlashReads
  <2>1. flashTask.op = "get" /\ flashTask.kind # "motor" /\ flashTask.kind \in Kinds /\ ~AnswersMotor
    BY <1>0, <1>2, TaskFields DEF FlashReads, NoMotorQuery, GetData, AnswersMotor,
       FlashCommands, Answers, NoCommand
  <2>2. \E data : flashTask' = Answer(flashTask.kind, data)
    BY <1>2 DEF FlashReads
  <2>3. flashTask'.op = "answer" /\ flashTask'.kind = flashTask.kind
    BY <2>2 DEF Answer
  <2>4. MotorUntouched
    BY <1>0, <1>2, <2>1 DEF FlashReads, Publish, Note, CacheContents, Kinds, MotorUntouched
  <2>5. NoMotorQuery' /\ (NoMotorSave' => NoMotorSave) /\ ~AnswersMotor'
    BY <1>0, <1>2, <2>1, <2>3
    DEF FlashReads, NoMotorQuery, NoMotorSave, IsMotorSave, AnswersMotor, GetData
  <2>6. events' = events
    BY <1>2 DEF FlashReads
  <2>7. agrees' /\ NoMotorSave' => Decided'
    BY <1>0, <2>1, <2>4, <2>5, <2>6, DecidedStands, SameEvents DEF MotorUntouched
  <2> QED BY <1>0, <2>3, <2>5, <2>6, <2>7, SameEvents DEF Running
<1>3. CASE FlashWrites
  <2>1. /\ flashTask.op = "save" /\ flashTask.kind \in Kinds
        /\ flashTask.value \in ValuesOf(flashTask.kind) /\ ~AnswersMotor
    BY <1>0, <1>3, TaskFields DEF FlashWrites, AnswersMotor, NoCommand
  <2>2. \/ flashTask' = Answer(flashTask.kind, flashTask.value)
        \/ flashTask' = NoCommand
    BY <1>3 DEF FlashWrites
  <2>3. /\ flashTask'.op # "save" /\ flashTask' # GetData("motor")
        /\ AnswersMotor' => /\ flashTask.kind = "motor" /\ flashTask'.data = flashTask.value
                            /\ flashTask' = Answer(flashTask.kind, flashTask.value)
    BY <2>2 DEF Answer, NoCommand, GetData, AnswersMotor
  <2>4. events' = events /\ cache' = cache /\ NoMotorQuery'
    BY <1>0, <1>3, <2>3 DEF FlashWrites, NoMotorQuery
  <2>5. AnswersMotor' => flashTask'.data # NoValue
    BY <2>1, <2>3, StoreAssumption DEF ValuesOf
  <2>6. CASE flashTask.kind # "motor"
    <3>1. MotorUntouched
      BY <1>0, <1>3, <2>1, <2>6 DEF FlashWrites, Publish, Note, FlashContents, Kinds, MotorUntouched
    <3>2. NoMotorSave' => NoMotorSave
      BY <1>3, <2>6 DEF FlashWrites, NoMotorSave, IsMotorSave
    <3>3. agrees' /\ NoMotorSave' => Decided'
      BY <1>0, <2>1, <2>3, <2>4, <2>6, <3>1, <3>2, DecidedStands, SameEvents DEF MotorUntouched
    <3> QED BY <1>0, <2>3, <2>4, <2>5, <3>3, SameEvents DEF Running
  <2>7. CASE flashTask.kind = "motor"
    <3>1. ASSUME agrees' PROVE flash'["motor"] = flashTask.value /\ AnswersMotor'
      BY <1>0, <1>3, <2>7, <3>1
      DEF FlashWrites, Note, FlashContents, Kinds, Answer, AnswersMotor
    <3>2. agrees' => Decided'
      BY <1>0, <2>1, <2>3, <2>4, <2>7, <3>1 DEF Decided
    <3> QED BY <1>0, <2>3, <2>4, <2>5, <3>2, SameEvents DEF Running
  <2> QED BY <2>6, <2>7
<1>4. CASE FlashRaises
  <2>1. PICK event \in Events :
           /\ event # Initialize /\ events' = Append(events, event)
           /\ IsMotor(event) <=> AnswersMotor
           /\ event.data = flashTask.data
           /\ flashTask'.op = "none"
    BY <1>4, RaisedEvent
  <2>2. /\ NoMotorQuery' /\ ~AnswersMotor' /\ (NoMotorSave' => NoMotorSave) /\ MotorUntouched
    BY <1>0, <1>4, <2>1 DEF FlashRaises, NoMotorQuery, NoMotorSave, IsMotorSave, AnswersMotor,
       GetData, MotorUntouched
  <2>3. NoBoot(events') /\ Filled(events')
    BY <1>0, <2>1, AppendedEvents DEF Running
  <2>4. ASSUME agrees', NoMotorSave' PROVE Decided'
    <3>1. Decided
      BY <1>0, <2>2, <2>4 DEF MotorUntouched
    <3>2. CASE AnswersMotor
      <4>1. ~NoMotor(events') /\ LatestIs(events', cache["motor"])
        BY <1>0, <2>1, <3>1, <3>2, AppendedEvents DEF Decided
      <4> QED BY <2>2, <3>1, <3>2, <4>1 DEF Decided, MotorUntouched
    <3>3. CASE ~AnswersMotor
      <4>1. /\ NoMotor(events) <=> NoMotor(events')
            /\ \A value : LatestIs(events, value) => LatestIs(events', value)
        BY <1>0, <2>1, <3>3, AppendedEvents
      <4> QED BY <2>2, <3>1, <3>3, <4>1, DecidedStands
    <3> QED BY <3>2, <3>3
  <2> QED BY <2>1, <2>2, <2>3, <2>4 DEF Running
<1> QED BY <1>1, <1>2, <1>3, <1>4 DEF FlashNext

LEMMA OrchestratorKeepsRunning == TypeOK /\ Running /\ OrchestratorNext => Running'
<1> SUFFICES ASSUME TypeOK, Running, OrchestratorNext PROVE Running'
  OBVIOUS
<1>0. /\ NoBoot(events) /\ NoMotorQuery /\ Filled(events)
      /\ (agrees /\ NoMotorSave => Decided)
      /\ status \in [Kinds -> Statuses] /\ events \in Seq(Events)
  BY DEF Running, TypeOK
<1>1. ~HandleInitialize
  BY <1>0 DEF HandleInitialize, NoBoot
<1>2. HandleCalibrationDataLoaded
  BY <1>1 DEF OrchestratorNext
<1> DEFINE event == Head(events)
<1>3. /\ events # <<>> /\ events' = Tail(events) /\ event \in Events /\ event.event = "loaded"
      /\ UNCHANGED <<flash, flashQueue, flashTask, cache, motorSave, agrees>>
  BY <1>0, <1>2 DEF HandleCalibrationDataLoaded
<1>4. /\ NoBoot(events') /\ Filled(events')
      /\ \A value : LatestIs(events, value) => LatestIs(events', value)
  BY <1>0, <1>3, TailEvents
<1>5. ASSUME agrees', NoMotorSave' PROVE Decided'
  <2>1. Decided
    BY <1>0, <1>3, <1>5 DEF NoMotorSave
  <2>2. CASE event.kind = "motor"
    <3>1. IsMotor(event) /\ ~NoMotor(events) /\ event.data # NoValue
      BY <1>0, <1>3, <2>2, TailEvents DEF IsMotor
    <3>2. driver' = event.data /\ status'["motor"] = "Loaded"
      BY <1>0, <1>2, <2>2, <3>1 DEF HandleCalibrationDataLoaded, StatusAfter, StatusOf,
         DriverAfter, Kinds
    <3>3. ~AnswersMotor /\ NoMotor(events') => event.data = cache["motor"]
      BY <1>0, <1>3, <2>1, <3>1, TailEvents DEF Decided
    <3>4. flash["motor"] = cache["motor"]
      BY <2>1, <3>1 DEF Decided
    <3> QED BY <1>3, <1>4, <2>1, <3>1, <3>2, <3>3, <3>4 DEF Decided, AnswersMotor, StatusOf
  <2>3. CASE event.kind # "motor"
    <3>1. ~IsMotor(event)
      BY <2>3 DEF IsMotor
    <3>2. NoMotor(events) <=> NoMotor(events')
      BY <1>0, <1>3, <3>1, TailEvents
    <3>3. MotorUntouched
      BY <1>0, <1>2, <1>3, <2>3 DEF HandleCalibrationDataLoaded, StatusAfter, Kinds, MotorUntouched
    <3> QED BY <1>3, <1>4, <2>1, <3>2, <3>3, DecidedStands DEF AnswersMotor
  <2> QED BY <2>2, <2>3
<1> QED BY <1>3, <1>4, <1>5 DEF Running, NoMotorQuery, AnswersMotor

LEMMA PanelKeepsRunning ==
    TypeOK /\ Running /\ (GateOpens \/ MotorComputes \/ MotorSaves \/ DistanceNext) => Running'
<1> SUFFICES ASSUME TypeOK, Running,
                    GateOpens \/ MotorComputes \/ MotorSaves \/ DistanceNext
             PROVE  Running'
  OBVIOUS
<1>0. /\ NoMotorQuery /\ (agrees /\ NoMotorSave => Decided) /\ status \in [Kinds -> Statuses]
  BY DEF Running, TypeOK
<1> USE DEF bootVars, distanceVars
<1>1. ASSUME UNCHANGED <<flash, flashTask, cache, events, agrees>>
      PROVE  NoMotorQuery' /\ (agrees' /\ NoMotorSave' => Decided') => Running'
  BY <1>1 DEF Running, AnswersMotor
<1>2. CASE MotorComputes
  <2>1. motorSave' # NoValue
    BY <1>2, StoreAssumption DEF MotorComputes, ComputedFactor
  <2> QED BY <1>0, <1>1, <1>2, <2>1 DEF MotorComputes, NoMotorSave, NoMotorQuery
<1>3. CASE MotorSaves
  <2> DEFINE save == SaveData("motor", motorSave)
  <2>1. save \in FlashCommands /\ IsMotorSave(save) /\ save # GetData("motor")
    <3>1. "motor" \in Kinds /\ motorSave \in ValuesOf("motor")
      BY <1>3, KindValues DEF MotorSaves, TypeOK, Kinds
    <3> QED BY <3>1, SaveIsCommand DEF SaveData, IsMotorSave, GetData
  <2>2. flashQueue' = Append(flashQueue, save) /\ flashQueue \in Seq(FlashCommands)
    BY <1>3 DEF MotorSaves, Send, TypeOK
  <2> HIDE DEF save
  <2>3. /\ \A i \in DOMAIN flashQueue' :
              \/ i \in DOMAIN flashQueue /\ flashQueue'[i] = flashQueue[i]
            \/ flashQueue'[i] = save
        /\ \E i \in DOMAIN flashQueue' : flashQueue'[i] = save
    BY <2>1, <2>2
  <2>4. NoMotorQuery' /\ ~NoMotorSave'
    BY <1>0, <1>3, <2>1, <2>3 DEF NoMotorQuery, NoMotorSave, MotorSaves
  <2> QED BY <1>1, <1>3, <2>4 DEF MotorSaves
<1>4. CASE GateOpens \/ DistanceNext
  <2>1. /\ UNCHANGED <<flash, flashTask, cache, events, agrees, driver, motorSave>>
        /\ status'["motor"] = status["motor"]
    BY <1>0, <1>4 DEF GateOpens, DistanceNext, Begin, DriveStopped, Abort, Launch, DriveEnds,
       DriveFails, DriveCompletes, PanelEnters, StopsTooLate, Dismiss, Cancel, Commit, To, Kinds
  <2>2. \/ flashQueue' = flashQueue
        \/ \E value \in DistanceFactors : Send(SaveData("distance", value))
    BY <1>4 DEF GateOpens, DistanceNext, Begin, DriveStopped, Abort, Launch, DriveEnds,
       DriveFails, DriveCompletes, PanelEnters, StopsTooLate, Dismiss, Cancel, Commit, To
  <2>3. NoMotorQuery' /\ (NoMotorSave' => NoMotorSave)
    <3>1. CASE flashQueue' = flashQueue
      BY <1>0, <2>1, <3>1 DEF NoMotorQuery, NoMotorSave
    <3> QED BY <1>0, <2>1, <2>2, <3>1, SentDistanceSave
  <2>4. MotorUntouched
    BY <2>1 DEF MotorUntouched
  <2>5. agrees' /\ NoMotorSave' => Decided'
    BY <1>0, <2>1, <2>3, <2>4, DecidedStands, SameEvents DEF AnswersMotor
  <2> QED BY <1>1, <2>1, <2>3, <2>5
<1> QED BY <1>2, <1>3, <1>4

LEMMA CopiesInvariant == Spec => []CopiesInv
<1>1. Init => CopiesInv
  BY DEF Init, PowerOn, CopiesInv, Starting, Untouched, Kinds
<1>2. TypeOK /\ CopiesInv /\ [Next]_vars => CopiesInv'
  <2>1. CopiesInv /\ UNCHANGED vars => CopiesInv'
    BY DEF vars, bootVars, distanceVars, CopiesInv, Starting, Untouched, Missing, Running,
       Decided, AnswersMotor, NoMotorQuery, NoSave, NoMotorSave
  <2>2. TypeOK /\ Running /\ Next => CopiesInv'
    BY FlashKeepsRunning, OrchestratorKeepsRunning, PanelKeepsRunning, RestartStarts
    DEF Next, CopiesInv
  <2> QED BY <2>1, <2>2, StartingKeeps, MissingKeeps DEF CopiesInv
<1> QED BY <1>1, <1>2, StoreTypeCorrect, PTL DEF Spec

LEMMA CopiesAgreeWhenSettled ==
    CopiesInv => MotorCopiesAgree /\ MotorStatusTellsWhatIsStored
<1> SUFFICES ASSUME CopiesInv, Settled, agrees
             PROVE  /\ driver = cache["motor"]
                    /\ flash["motor"] # NoValue => driver = flash["motor"]
                    /\ status["motor"] = StatusOf(flash["motor"])
  BY DEF MotorCopiesAgree, MotorStatusTellsWhatIsStored
<1>1. NoMotor(events) /\ ~OnlyMissing(events) /\ ~AnswersMotor /\ NoMotorSave
  BY DEF Settled, NoMotor, OnlyMissing, AnswersMotor, NoMotorSave, IsMotorSave, NoCommand
<1>2. ~Starting
  BY DEF Settled, Starting, Queries, NoCommand, GetData
<1>3. ~Missing
  BY <1>1 DEF Missing
<1>4. Decided
  BY <1>1, <1>2, <1>3 DEF CopiesInv, Running
<1> QED BY <1>1, <1>4 DEF Decided

\* Whatever order boot loads, calibrations and saves came in, once all is handled
\* the motor driver runs with the calibration the flash task keeps, and with the
\* stored one (initialization/mod.rs, calibration/motor.rs, flash_storage.rs).
THEOREM MotorCopiesAgreeInTheEnd == Spec => []MotorCopiesAgree
BY CopiesInvariant, CopiesAgreeWhenSettled, PTL

\* Once all is handled the motor calibration's status on the panel is that of the
\* stored record (state/calibration.rs).
THEOREM StatusIsOfTheRecord == Spec => []MotorStatusTellsWhatIsStored
BY CopiesInvariant, CopiesAgreeWhenSettled, PTL


-----------------------------------------------------------------------------
(* The committed distance factor *)

IsDistance(event) == event.event = "loaded" /\ event.kind = "distance"
NoneWaits == \A i \in DOMAIN flashQueue : flashQueue[i].kind # "distance"
NoneServed == flashTask.op = "none" \/ flashTask.kind # "distance"
NoneTold == \A i \in DOMAIN events : ~IsDistance(events[i])
Stored(value) == cache["distance"] = value /\ flash["distance"] = value

\* Where the save of a committed factor is, after every older load and save.
Waits(value) ==
    \E i \in DOMAIN flashQueue :
        /\ flashQueue[i] = SaveData("distance", value)
        /\ \A j \in DOMAIN flashQueue : flashQueue[j].kind = "distance" => j <= i
Writes(value) ==
    /\ flashTask = SaveData("distance", value)
    /\ NoneWaits /\ cache["distance"] = value
Written(value) ==
    /\ flashTask = Answer("distance", value)
    /\ NoneWaits /\ Stored(value)
Told(value) ==
    /\ NoneWaits /\ NoneServed /\ Stored(value)
    /\ \E i \in DOMAIN events :
          /\ events[i] = CalibrationDataLoaded("distance", value)
          /\ \A j \in DOMAIN events : IsDistance(events[j]) => j <= i
InForce(value) ==
    /\ NoneWaits /\ NoneServed /\ NoneTold /\ Stored(value)
    /\ factor = value

UnderWay(value) == Waits(value) \/ Writes(value) \/ Written(value) \/ Told(value) \/ InForce(value)

CommitInv ==
    /\ phase # "idle" => gateOpen
    /\ committed # NoValue => gateOpen /\ phase = "idle" /\ UnderWay(committed)

\* A step that moves nothing of the distance factor.
LEMMA UnderWayStays ==
  ASSUME NEW value, UnderWay(value),
         UNCHANGED <<flashQueue, flashTask, events, factor, flash>>,
         cache'["distance"] = cache["distance"]
  PROVE  UnderWay(value)'
BY DEF UnderWay, Waits, Writes, Written, Told, InForce, NoneWaits, NoneServed, NoneTold, Stored

LEMMA TakesKeepsCommit ==
  ASSUME TypeOK, FlashTakes, NEW value \in DistanceFactors, UnderWay(value)
  PROVE  UnderWay(value)'
<1>0. /\ UNCHANGED <<flash, events, factor>> /\ cache \in CacheContents
      /\ cache' = CacheOnSave(flashTask')
  BY DEF FlashTakes, TypeOK
<1>1. /\ flashTask' = flashQueue[1] /\ 1 \in DOMAIN flashQueue
      /\ flashTask' # NoCommand /\ flashTask'.kind \in Kinds
      /\ \A i \in DOMAIN flashQueue' :
            i + 1 \in DOMAIN flashQueue /\ flashQueue'[i] = flashQueue[i + 1]
      /\ \A j \in DOMAIN flashQueue :
            j = 1 \/ (j - 1 \in DOMAIN flashQueue' /\ flashQueue'[j - 1] = flashQueue[j])
      /\ flashTask.op = "none"
  BY TakenCommand, TaskFields DEF NoCommand
<1>2. DOMAIN flashQueue \subseteq Nat \ {0} /\ DOMAIN flashQueue' \subseteq Nat \ {0}
  BY DEF FlashTakes, TypeOK
<1>3. ~Writes(value) /\ ~Written(value)
  BY <1>1 DEF Writes, Written, SaveData, Answer
<1>4. CASE Waits(value)
  <2>1. PICK i \in DOMAIN flashQueue :
           /\ flashQueue[i] = SaveData("distance", value)
           /\ \A j \in DOMAIN flashQueue : flashQueue[j].kind = "distance" => j <= i
    BY <1>4 DEF Waits
  <2>2. CASE i = 1
    <3>1. flashTask' = SaveData("distance", value)
      BY <1>1, <2>1, <2>2
    <3>2. cache'["distance"] = value
      BY <1>0, <3>1 DEF CacheOnSave, SaveData, CacheContents, Kinds
    <3>3. NoneWaits'
      BY <1>1, <1>2, <2>1, <2>2 DEF NoneWaits
    <3> QED BY <3>1, <3>2, <3>3 DEF UnderWay, Writes
  <2>3. CASE i # 1
    <3>1. i - 1 \in DOMAIN flashQueue' /\ flashQueue'[i - 1] = SaveData("distance", value)
      BY <1>1, <2>1, <2>3
    <3>2. \A j \in DOMAIN flashQueue' : flashQueue'[j].kind = "distance" => j <= i - 1
      BY <1>1, <1>2, <2>1
    <3> QED BY <3>1, <3>2 DEF UnderWay, Waits
  <2> QED BY <2>2, <2>3
<1>5. CASE Told(value) \/ InForce(value)
  <2>1. NoneWaits
    BY <1>5 DEF Told, InForce
  <2>2. NoneWaits' /\ flashTask'.kind # "distance"
    BY <1>1, <2>1 DEF NoneWaits
  <2>3. cache'["distance"] = cache["distance"]
    BY <1>0, <1>1, <2>2 DEF CacheOnSave, CacheContents, Kinds
  <2> QED BY <1>0, <1>5, <2>2, <2>3
       DEF UnderWay, Told, InForce, NoneServed, NoneTold, Stored
<1> QED BY <1>3, <1>4, <1>5 DEF UnderWay

LEMMA ServesKeepsCommit ==
  ASSUME TypeOK, FlashReads \/ FlashWrites,
         NEW value \in DistanceFactors, UnderWay(value), committed = value
  PROVE  committed' # NoValue => committed' = value /\ UnderWay(value)'
<1>0. /\ UNCHANGED <<events, flashQueue>>
      /\ flashTask.op \in {"get", "save"} /\ flashTask # NoCommand
      /\ flashTask.kind \in Kinds /\ cache \in CacheContents /\ flash \in FlashContents
      /\ committed' \in {committed, NoValue}
  BY TaskFields DEF FlashReads, FlashWrites, TypeOK, distanceVars, NoCommand
<1>1. /\ flashTask'.op \in {"none", "answer"}
      /\ flashTask'.op = "answer" => flashTask'.kind = flashTask.kind
  <2>1. (\E data : flashTask' = Answer(flashTask.kind, data)) \/ flashTask' = NoCommand
    BY DEF FlashReads, FlashWrites
  <2> QED BY <2>1 DEF Answer, NoCommand
<1>2. CASE Waits(value)
  BY <1>0, <1>2 DEF UnderWay, Waits
<1>3. CASE Writes(value)
  <2>1. /\ flashTask.op = "save" /\ flashTask.kind = "distance" /\ flashTask.value = value
        /\ NoneWaits /\ cache["distance"] = value
    BY <1>3 DEF Writes, SaveData
  <2>2. FlashWrites
    BY <2>1 DEF FlashReads
  <2>3. ASSUME committed' # NoValue PROVE Written(value)'
    <3>1. flash' = [flash EXCEPT !["distance"] = value] /\ flashTask' = Answer("distance", value)
      BY <1>3, <2>1, <2>2, <2>3 DEF FlashWrites, Writes
    <3>2. flash'["distance"] = value /\ cache' = cache
      BY <1>0, <2>1, <2>2, <3>1 DEF FlashWrites, FlashContents
    <3> QED BY <1>0, <2>1, <3>1, <3>2 DEF Written, Stored, NoneWaits
  <2> QED BY <1>0, <2>3 DEF UnderWay
<1>4. ~Written(value)
  BY <1>0 DEF Written, Answer
<1>5. CASE Told(value) \/ InForce(value)
  <2>1. flashTask.kind # "distance"
    BY <1>0, <1>5 DEF Told, InForce, NoneServed
  <2>2. NoneServed'
    BY <1>1, <2>1 DEF NoneServed
  <2>3. factor' = factor
    BY <2>1 DEF FlashReads, FlashWrites, Publish
  <2>4. cache'["distance"] = cache["distance"] /\ flash'["distance"] = flash["distance"]
    BY <1>0, <2>1 DEF FlashReads, FlashWrites, CacheContents, FlashContents, Kinds
  <2> QED BY <1>0, <1>5, <2>2, <2>3, <2>4
       DEF UnderWay, Told, InForce, NoneWaits, NoneTold, Stored
<1> QED BY <1>2, <1>3, <1>4, <1>5 DEF UnderWay

LEMMA RaisesKeepsCommit ==
  ASSUME TypeOK, FlashRaises, NEW value \in DistanceFactors, UnderWay(value)
  PROVE  UnderWay(value)'
<1> DEFINE event == CalibrationDataLoaded(flashTask.kind, flashTask.data)
<1>0. /\ UNCHANGED <<flash, flashQueue, cache, factor>>
      /\ flashTask.op = "answer" /\ flashTask # NoCommand /\ flashTask'.op = "none"
      /\ events \in Seq(Events) /\ events' = Append(events, event)
  BY DEF FlashRaises, Raise, TypeOK, NoCommand
<1>1. event \in Events
  <2>1. flashTask.kind \in Kinds /\ flashTask.data \in StoredOf(flashTask.kind)
    BY <1>0, TaskFields DEF TypeOK
  <2> QED BY <2>1, LoadedIsEvent
<1>2. IsDistance(event) <=> flashTask.kind = "distance"
  BY DEF CalibrationDataLoaded, IsDistance
<1>3. flashTask = Answer("distance", value) => event = CalibrationDataLoaded("distance", value)
  BY DEF Answer
<1> HIDE DEF event
<1>4. /\ Len(events) \in Nat /\ DOMAIN events = 1 .. Len(events)
      /\ DOMAIN events' = 1 .. Len(events) + 1
      /\ events'[Len(events) + 1] = event
      /\ \A i \in 1 .. Len(events) : events'[i] = events[i]
  BY <1>0, <1>1
<1>5. CASE Waits(value)
  BY <1>0, <1>5 DEF UnderWay, Waits
<1>6. ~Writes(value)
  BY <1>0 DEF Writes, SaveData
<1>7. CASE Written(value)
  <2>1. event = CalibrationDataLoaded("distance", value)
    BY <1>3, <1>7 DEF Written
  <2>2. \E i \in DOMAIN events' :
           /\ events'[i] = CalibrationDataLoaded("distance", value)
           /\ \A j \in DOMAIN events' : IsDistance(events'[j]) => j <= i
    BY <1>4, <2>1
  <2> QED BY <1>0, <1>7, <2>2 DEF UnderWay, Written, Told, NoneWaits, NoneServed, Stored
<1>8. CASE Told(value) \/ InForce(value)
  <2>1. ~IsDistance(event)
    BY <1>0, <1>2, <1>8 DEF Told, InForce, NoneServed
  <2>2. NoneWaits' /\ NoneServed' /\ Stored(value)'
    BY <1>0, <1>8 DEF Told, InForce, NoneWaits, NoneServed, Stored
  <2>3. CASE Told(value)
    <3>1. PICK i \in DOMAIN events :
             /\ events[i] = CalibrationDataLoaded("distance", value)
             /\ \A j \in DOMAIN events : IsDistance(events[j]) => j <= i
      BY <2>3 DEF Told
    <3>2. i \in DOMAIN events' /\ events'[i] = CalibrationDataLoaded("distance", value)
      BY <1>4, <3>1
    <3>3. \A j \in DOMAIN events' : IsDistance(events'[j]) => j <= i
      BY <1>4, <2>1, <3>1
    <3> QED BY <2>2, <3>2, <3>3 DEF UnderWay, Told
  <2>4. CASE InForce(value)
    <3>1. NoneTold'
      BY <1>4, <2>1, <2>4 DEF InForce, NoneTold
    <3> QED BY <1>0, <2>2, <2>4, <3>1 DEF UnderWay, InForce
  <2> QED BY <1>8, <2>3, <2>4
<1> QED BY <1>5, <1>6, <1>7, <1>8 DEF UnderWay

LEMMA HandlesKeepsCommit ==
  ASSUME TypeOK, HandleCalibrationDataLoaded, NEW value \in DistanceFactors, UnderWay(value)
  PROVE  UnderWay(value)'
<1> DEFINE event == Head(events)
<1>1. /\ events # <<>> /\ events \in Seq(Events) /\ events' = Tail(events)
      /\ event.event = "loaded"
      /\ UNCHANGED <<flash, flashQueue, flashTask, cache>>
      /\ factor' = IF event.kind = "distance" /\ event.data # NoValue
                   THEN event.data ELSE factor
  BY DEF HandleCalibrationDataLoaded, TypeOK
<1>2. /\ event = events[1] /\ 1 \in DOMAIN events
      /\ \A i \in DOMAIN events' : i + 1 \in DOMAIN events /\ events'[i] = events[i + 1]
      /\ \A j \in DOMAIN events :
            j = 1 \/ (j - 1 \in DOMAIN events' /\ events'[j - 1] = events[j])
      /\ DOMAIN events \subseteq Nat \ {0} /\ DOMAIN events' \subseteq Nat \ {0}
  BY <1>1
<1> HIDE DEF event
<1>3. CASE Waits(value) \/ Writes(value) \/ Written(value)
  BY <1>1, <1>3 DEF UnderWay, Waits, Writes, Written, NoneWaits, Stored
<1>4. CASE Told(value)
  <2>0. NoneWaits' /\ NoneServed' /\ Stored(value)'
    BY <1>1, <1>4 DEF Told, NoneWaits, NoneServed, Stored
  <2>1. PICK i \in DOMAIN events :
           /\ events[i] = CalibrationDataLoaded("distance", value)
           /\ \A j \in DOMAIN events : IsDistance(events[j]) => j <= i
    BY <1>4 DEF Told
  <2>2. CASE i = 1
    <3>1. factor' = value
      <4>1. event.kind = "distance" /\ event.data = value
        BY <1>2, <2>1, <2>2 DEF CalibrationDataLoaded
      <4> QED BY <1>1, <4>1, StoreAssumption
    <3>2. NoneTold'
      BY <1>2, <2>1, <2>2 DEF NoneTold
    <3> QED BY <2>0, <3>1, <3>2 DEF UnderWay, InForce
  <2>3. CASE i # 1
    <3>1. i - 1 \in DOMAIN events' /\ events'[i - 1] = CalibrationDataLoaded("distance", value)
      BY <1>2, <2>1, <2>3
    <3>2. \A j \in DOMAIN events' : IsDistance(events'[j]) => j <= i - 1
      BY <1>2, <2>1
    <3> QED BY <2>0, <3>1, <3>2 DEF UnderWay, Told
  <2> QED BY <2>2, <2>3
<1>5. CASE InForce(value)
  <2>1. ~IsDistance(event) /\ NoneTold'
    BY <1>2, <1>5 DEF InForce, NoneTold
  <2>2. factor' = factor
    BY <1>1, <2>1 DEF IsDistance
  <2> QED BY <1>1, <1>5, <2>1, <2>2 DEF UnderWay, InForce, NoneWaits, NoneServed, Stored
<1> QED BY <1>3, <1>4, <1>5 DEF UnderWay

LEMMA MotorSaveKeepsCommit ==
  ASSUME TypeOK, MotorSaves, NEW value \in DistanceFactors, UnderWay(value)
  PROVE  UnderWay(value)'
<1> DEFINE save == SaveData("motor", motorSave)
<1>1. save.kind = "motor" /\ save \in FlashCommands
  <2>1. "motor" \in Kinds /\ motorSave \in ValuesOf("motor")
    BY KindValues DEF MotorSaves, TypeOK, Kinds
  <2> QED BY <2>1, SaveIsCommand DEF SaveData
<1>2. /\ flashQueue' = Append(flashQueue, save) /\ flashQueue \in Seq(FlashCommands)
      /\ UNCHANGED <<flash, flashTask, events, factor, cache>>
  BY DEF MotorSaves, Send, TypeOK
<1> HIDE DEF save
<1>3. /\ \A i \in DOMAIN flashQueue' : flashQueue'[i].kind = "distance" =>
            i \in DOMAIN flashQueue /\ flashQueue'[i] = flashQueue[i]
      /\ \A i \in DOMAIN flashQueue : i \in DOMAIN flashQueue' /\ flashQueue'[i] = flashQueue[i]
  BY <1>1, <1>2
<1>4. NoneWaits => NoneWaits'
  BY <1>3 DEF NoneWaits
<1>5. CASE Waits(value)
  BY <1>3, <1>5 DEF UnderWay, Waits
<1>6. CASE Writes(value) \/ Written(value)
  BY <1>2, <1>4, <1>6 DEF UnderWay, Writes, Written, Stored
<1>7. CASE Told(value) \/ InForce(value)
  BY <1>2, <1>4, <1>7 DEF UnderWay, Told, InForce, NoneServed, NoneTold, Stored
<1> QED BY <1>5, <1>6, <1>7 DEF UnderWay

LEMMA CommitWaits ==
  ASSUME TypeOK, CommitInv, NEW value \in DistanceFactors, Commit(value)
  PROVE  CommitInv'
<1> DEFINE save == SaveData("distance", value)
<1>1. save \in FlashCommands
  <2>1. value \in ValuesOf("distance") /\ "distance" \in Kinds
    BY DEF ValuesOf, Kinds
  <2> QED BY <2>1, SaveIsCommand
<1>2. /\ flashQueue' = Append(flashQueue, save) /\ flashQueue \in Seq(FlashCommands)
      /\ phase' = "idle" /\ committed' = value
  BY DEF Commit, Send, TypeOK
<1> HIDE DEF save
<1>3. /\ Len(flashQueue) \in Nat /\ DOMAIN flashQueue' = 1 .. Len(flashQueue) + 1
      /\ flashQueue'[Len(flashQueue) + 1] = save
  BY <1>1, <1>2
<1>4. Waits(value)'
  BY <1>3 DEF Waits, save
<1>5. gateOpen'
  BY DEF Commit, CommitInv
<1> QED BY <1>2, <1>4, <1>5 DEF CommitInv, UnderWay

LEMMA FlashKeepsCommit == TypeOK /\ CommitInv /\ FlashNext => CommitInv'
<1> SUFFICES ASSUME TypeOK, CommitInv, FlashNext PROVE CommitInv'
  OBVIOUS
<1>1. phase' = phase /\ gateOpen' = gateOpen /\ (committed' # NoValue => committed' = committed)
  BY DEF FlashNext, FlashTakes, FlashReads, FlashWrites, FlashRaises, distanceVars
<1>2. ASSUME committed' # NoValue PROVE UnderWay(committed)'
  <2>1. committed \in DistanceFactors /\ UnderWay(committed) /\ committed' = committed
    BY <1>1, <1>2 DEF CommitInv, TypeOK, StoredOf, ValuesOf
  <2>3. PICK old \in DistanceFactors : old = committed /\ UnderWay(old)
    BY <2>1
  <2>4. UnderWay(old)'
    BY <1>2, <2>3, TakesKeepsCommit, ServesKeepsCommit, RaisesKeepsCommit DEF FlashNext
  <2>5. committed' = old
    BY <2>1, <2>3
  <2> QED BY <2>4, <2>5
<1> QED BY <1>1, <1>2 DEF CommitInv

LEMMA OrchestratorKeepsCommit ==
    TypeOK /\ CopiesInv /\ CommitInv /\ OrchestratorNext => CommitInv'
<1> SUFFICES ASSUME TypeOK, CopiesInv, CommitInv, OrchestratorNext PROVE CommitInv'
  OBVIOUS
<1>1. phase' = phase /\ gateOpen' = gateOpen /\ committed' = committed
  BY DEF OrchestratorNext, HandleInitialize, HandleCalibrationDataLoaded, distanceVars
<1>2. ASSUME committed # NoValue PROVE UnderWay(committed)'
  <2>1. gateOpen /\ committed \in DistanceFactors /\ UnderWay(committed)
    BY <1>2 DEF CommitInv, TypeOK, StoredOf, ValuesOf
  <2>2. NoBoot(events)
    BY <2>1 DEF CopiesInv, Starting, Untouched, Missing, Running
  <2>3. ~HandleInitialize
    BY <2>2, TailEntries DEF HandleInitialize, NoBoot, TypeOK
  <2>4. PICK old \in DistanceFactors : old = committed /\ UnderWay(old)
    BY <2>1
  <2>5. UnderWay(old)'
    BY <2>3, <2>4, HandlesKeepsCommit DEF OrchestratorNext
  <2>6. committed' = old
    BY <1>1, <2>4
  <2> QED BY <2>5, <2>6
<1> QED BY <1>1, <1>2 DEF CommitInv

LEMMA PanelKeepsCommit ==
    TypeOK /\ CommitInv /\ (GateOpens \/ MotorComputes \/ MotorSaves \/ DistanceNext) => CommitInv'
<1> SUFFICES ASSUME TypeOK, CommitInv,
                    GateOpens \/ MotorComputes \/ MotorSaves \/ DistanceNext
             PROVE  CommitInv'
  OBVIOUS
<1> USE DEF bootVars, distanceVars
<1>1. CASE GateOpens
  BY <1>1 DEF GateOpens, CommitInv
<1>2. CASE MotorComputes \/ MotorSaves
  <2>1. phase' = phase /\ gateOpen' = gateOpen /\ committed' = committed
    BY <1>2 DEF MotorComputes, MotorSaves
  <2>2. ASSUME committed # NoValue PROVE UnderWay(committed)'
    <3>1. PICK old \in DistanceFactors : old = committed /\ UnderWay(old)
      BY <2>2 DEF CommitInv, TypeOK, StoredOf, ValuesOf
    <3>2. CASE MotorComputes
      <4>1. UNCHANGED <<flashQueue, flashTask, events, factor, flash, cache>>
        BY <3>2 DEF MotorComputes
      <4> QED BY <2>1, <3>1, <4>1, UnderWayStays
    <3>3. CASE MotorSaves
      <4>1. UnderWay(old)'
        BY <3>1, <3>3, MotorSaveKeepsCommit
      <4> QED BY <2>1, <3>1, <4>1
    <3> QED BY <1>2, <3>2, <3>3
  <2> QED BY <2>1, <2>2 DEF CommitInv
<1>3. CASE Begin
  BY <1>3 DEF Begin, CommitInv
<1>4. CASE DriveStopped \/ Cancel
  BY <1>4 DEF DriveStopped, Cancel, Abort, CommitInv
<1>5. ASSUME NEW from \in Phases, from # "idle", NEW to \in Phases, To(from, to)
      PROVE  CommitInv'
  BY <1>5 DEF To, CommitInv
<1>6. CASE \/ Launch \/ DriveEnds \/ DriveFails \/ DriveCompletes
           \/ PanelEnters \/ StopsTooLate \/ Dismiss
  BY <1>5, <1>6 DEF Launch, DriveEnds, DriveFails, DriveCompletes, PanelEnters, StopsTooLate,
     Dismiss, Phases
<1>7. CASE \E value \in DistanceFactors : Commit(value)
  BY <1>7, CommitWaits
<1> QED BY <1>1, <1>2, <1>3, <1>4, <1>6, <1>7 DEF DistanceNext

LEMMA CommitInvariant == Spec => []CommitInv
<1>1. Init => CommitInv
  BY DEF Init, PowerOn, CommitInv
<1>2. TypeOK /\ CopiesInv /\ CommitInv /\ [Next]_vars => CommitInv'
  <2>1. CommitInv /\ UNCHANGED vars => CommitInv'
    BY DEF vars, bootVars, distanceVars, CommitInv, UnderWay, Waits, Writes, Written, Told,
       InForce, NoneWaits, NoneServed, NoneTold, Stored
  <2>2. Restart => CommitInv'
    BY DEF Restart, CommitInv
  <2> QED BY <2>1, <2>2, FlashKeepsCommit, OrchestratorKeepsCommit, PanelKeepsCommit DEF Next
<1> QED BY <1>1, <1>2, StoreTypeCorrect, CopiesInvariant, PTL DEF Spec

\* A committed distance factor lasts: whatever loads and saves are answered after
\* it was put in force, it is the one in force, in the RAM copy and in flash once
\* all is handled, unless its write failed or a distance calibration has begun
\* since (calibration/distance.rs, flash_storage.rs, initialization/mod.rs).
THEOREM CommittedFactorIsKept == Spec => []CommittedFactorLasts
<1>1. CommitInv => CommittedFactorLasts
  BY DEF CommitInv, CommittedFactorLasts, Settled, UnderWay, Waits, Writes, Written, Told,
     InForce, Stored, SaveData, Answer, NoCommand
<1> QED BY <1>1, CommitInvariant, PTL

=============================================================================
