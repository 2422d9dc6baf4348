--------------------------- MODULE SettingsProofs ---------------------------
(***************************************************************************)
(* Proofs about module Settings, for every UnitSize, every page left in      *)
(* flash, every set of commands and any number of repetitions.              *)
(***************************************************************************)
EXTENDS Settings, TLAPS

-----------------------------------------------------------------------------
(* Configurations stay configurations.                                      *)

LEMMA ZeroedType == Zeroed \in Configs /\ BlankPage \in Configs
  BY DEF Zeroed, BlankPage, Configs, Fields, Byte, ErasedByte

LEMMA LoadType ==
  ASSUME NEW c \in Configs
  PROVE  Load(c) \in Configs
<1>1. ASSUME NEW d \in Configs
      PROVE  ApplyVersionDefaults(d) \in Configs
  <2>1. (IF d.eeprom_version < EEPROM_VERSION THEN DefaultMaxRamp
         ELSE d.max_ramp) \in Byte
    BY <1>1 DEF Configs, Byte, DefaultMaxRamp
  <2>2. EEPROM_VERSION \in Byte
    BY DEF EEPROM_VERSION, Byte
  <2>3. QED
    BY <1>1, <2>1, <2>2 DEF ApplyVersionDefaults, Configs
<1>2. QED
  BY <1>1, ZeroedType DEF Load

LEMMA ConfigAfterType ==
  ASSUME NEW c \in Configs, NEW k
  PROVE  ConfigAfter(c, k) \in Configs
<1>1. /\ (CASE k = DIRECTION_NORMAL   -> 0
           [] k = DIRECTION_REVERSED -> 1
           [] OTHER -> c.dir_reversed) \in Byte
      /\ (CASE k = BIDIR_OFF -> 0
           [] k = BIDIR_ON  -> 1
           [] OTHER -> c.bi_direction) \in Byte
  BY DEF Configs, Byte, DIRECTION_NORMAL, DIRECTION_REVERSED, BIDIR_OFF,
         BIDIR_ON
<1>2. QED
  BY <1>1 DEF ConfigAfter, Configs

LEMMA ForwardAfterType ==
  ASSUME NEW b \in BOOLEAN, NEW c \in Configs, NEW k
  PROVE  ForwardAfter(b, c, k) \in BOOLEAN
<1>1. (c.dir_reversed = 0) \in BOOLEAN /\ (c.dir_reversed # 0) \in BOOLEAN
  OBVIOUS
<1>2. QED
  BY <1>1 DEF ForwardAfter

(* The count stays below the number of repetitions. *)
LEMMA ProcessorType ==
  ASSUME NEW p \in Processors, NEW k \in CommandNumbers
  PROVE  ProcessorAfter(p, k) \in Processors
<1>1. Count(p, k) \in Nat
  BY RepetitionsAssumption DEF Count, Processors, CommandNumbers
<1>2. (IF TakesEffect(p, k) THEN 0 ELSE Count(p, k)) \in 0 .. Repetitions - 1
  BY <1>1, RepetitionsAssumption DEF TakesEffect
<1>3. TakesEffect(p, k) \in BOOLEAN
  BY DEF TakesEffect
<1>4. (IF TakesEffect(p, k) /\ k = EDT_ENABLE THEN TRUE
       ELSE IF TakesEffect(p, k) /\ k = EDT_DISABLE THEN FALSE
       ELSE p.extended_telemetry) \in BOOLEAN
  BY DEF Processors
<1>5. (p.programming_mode \/ (TakesEffect(p, k) /\ k = PROGRAMMING_MODE))
        \in BOOLEAN
  OBVIOUS
<1>6. QED
  BY <1>2, <1>4, <1>5 DEF ProcessorAfter, Processors, CommandNumbers

LEMMA UnitsType == Units \in Nat /\ Units >= 2
<1>1. UnitSize \in {2,3,4,5,6,7,8,9,10,11,12,13,14,15,16}
  BY UnitAssumption
<1>2. QED
  BY <1>1, Z3 DEF Units

(* Every field lies in a unit that is programmed. *)
LEMMA OffsetBound ==
  ASSUME NEW f \in Fields
  PROVE  Offset[f] \div UnitSize \in Nat /\ Offset[f] \div UnitSize < Units
<1>1. UnitSize \in {2,3,4,5,6,7,8,9,10,11,12,13,14,15,16}
  BY UnitAssumption
<1>2. Offset[f] \in {1, 5, 17, 18}
  BY DEF Fields, Offset
<1>3. ASSUME NEW o \in {1, 5, 17, 18}
      PROVE  o \div UnitSize \in Nat /\ o \div UnitSize < Units
  BY <1>1, <1>3, Z3 DEF Units
<1>4. QED
  BY <1>2, <1>3

LEMMA UnitType ==
  ASSUME page \in Configs, mainConfig \in Configs
  PROVE  [f \in Fields |-> IF Offset[f] \div UnitSize = programmed
                           THEN mainConfig[f] ELSE page[f]] \in Configs
<1>1. ASSUME NEW f \in Fields
      PROVE  /\ mainConfig[f] \in Byte
             /\ page[f] \in Byte
  BY DEF Configs, Fields
<1>2. QED
  BY <1>1 DEF Configs, Fields

-----------------------------------------------------------------------------
(* The loop of program_impl goes on only while units are left. *)
Room == pc = "save_program" => programmed < Units

Typed == TypeOK /\ Room

LEMMA TypedInit == Init => Typed
<1>. SUFFICES ASSUME Init PROVE Typed
  OBVIOUS
<1>1. page \in Configs /\ programmed \in 0 .. Units /\ saved \in Configs
  <2>1. WrittenPages \subseteq Configs
    <3>1. {0} \subseteq Byte
      BY DEF Byte
    <3>2. ASSUME NEW c \in WrittenPages
          PROVE  c \in Configs
      BY <3>1, BytesAssumption DEF WrittenPages, Configs
    <3>3. QED
      BY <3>2
  <2>2. QED
    BY <2>1, ZeroedType, UnitsType DEF Init
<1>2. cmd \in Processors
  BY RepetitionsAssumption DEF Init, NewProcessor, Processors
<1>3. masked \in BOOLEAN /\ entryMasked \in BOOLEAN
  BY EntryAssumption DEF Init
<1>4. /\ isrForward \in BOOLEAN
      /\ edtArmed \in BOOLEAN
      /\ saveFlag \in BOOLEAN
      /\ infoFlag \in BOOLEAN
      /\ telemFlag \in BOOLEAN
      /\ forward \in BOOLEAN
      /\ armed \in BOOLEAN
      /\ running \in BOOLEAN
      /\ directed \in BOOLEAN
      /\ owed \in BOOLEAN
      /\ missed \in BOOLEAN
  BY DEF Init
<1>5. QED
  BY <1>1, <1>2, <1>3, <1>4, ZeroedType DEF Init, Typed, TypeOK, Room,
     BootSteps

LEMMA TypedNext == Typed /\ [Next]_vars => Typed'
<1>. SUFFICES ASSUME Typed, [Next]_vars PROVE Typed'
  OBVIOUS
<1>. USE DEF Typed, vars, flash, isr, flags, motor, ghosts, telem, Goto
<1>1. CASE Boot
  <2>. USE DEF TypeOK, Room, BootSteps, LoopSteps
  <2>1. CASE StartPeripherals
    BY <2>1 DEF StartPeripherals
  <2>1a. CASE PlaceState
    BY <2>1a DEF PlaceState
  <2>1b. CASE EnableInterrupts
    <3>1. masked' \in BOOLEAN
      BY <2>1b DEF EnableInterrupts
    <3>2. QED
      BY <2>1b, <3>1 DEF EnableInterrupts
  <2>2. CASE LoadSettings
    BY <2>2, LoadType DEF LoadSettings
  <2>3. CASE GiveSettings
    <3>1. isrForward' \in BOOLEAN
      BY <2>3 DEF GiveSettings, IsDirReversed
    <3>2. isrConfig' \in Configs
      BY <2>3 DEF GiveSettings
    <3>3. QED
      BY <2>3, <3>1, <3>2 DEF GiveSettings
  <2>4. QED
    BY <1>1, <2>1, <2>1a, <2>1b, <2>2, <2>3 DEF Boot
<1>2. CASE MainLoop
  <2>. USE DEF TypeOK, Room, LoopSteps
  <2>1. CASE SendTelemetry
    <3>1. owed' \in BOOLEAN /\ missed' \in BOOLEAN
      BY <2>1 DEF SendTelemetry
    <3>2. QED
      BY <2>1, <3>1 DEF SendTelemetry
  <2>1a. CASE ClearTelemetry
    <3>1. telemFlag' \in BOOLEAN
      BY <2>1a DEF ClearTelemetry
    <3>2. QED
      BY <2>1a, <3>1 DEF ClearTelemetry
  <2>1b. CASE NoTelemetry
    BY <2>1b DEF NoTelemetry
  <2>2. CASE AcceptSave
    <3>1. saveFlag' \in BOOLEAN
      BY <2>2 DEF AcceptSave
    <3>2. QED
      BY <2>2, <3>1 DEF AcceptSave
  <2>2a. CASE NoSave
    BY <2>2a DEF NoSave
  <2>2b. CASE CopySettings
    BY <2>2b DEF CopySettings
  <2>3. CASE ErasePage
    BY <2>3, ZeroedType, UnitsType DEF ErasePage
  <2>4. CASE ProgramUnit
    <3>1. page' \in Configs
      BY <2>4, UnitType DEF ProgramUnit
    <3>2. programmed' \in 0 .. Units /\ (programmed' # Units => programmed' < Units)
      BY <2>4, UnitsType DEF ProgramUnit
    <3>3. QED
      BY <2>4, <3>1, <3>2 DEF ProgramUnit
  <2>5. CASE AcceptInfo
    <3>1. infoFlag' \in BOOLEAN
      BY <2>5 DEF AcceptInfo
    <3>2. QED
      BY <2>5, <3>1 DEF AcceptInfo
  <2>5a. CASE NoInfo
    BY <2>5a DEF NoInfo
  <2>5b. CASE SendInfo
    BY <2>5b DEF SendInfo
  <2>6. QED
    BY <1>2, <2>1, <2>1a, <2>1b, <2>2, <2>2a, <2>2b, <2>3, <2>4, <2>5, <2>5a,
       <2>5b DEF MainLoop
<1>3. CASE TurnDirection
  <2>1. forward' \in BOOLEAN
    BY <1>3 DEF TurnDirection, TypeOK
  <2>2. QED
    BY <1>3, <2>1 DEF TurnDirection, TypeOK, Room
<1>4. CASE Handler
  <2>. USE DEF TypeOK, Room, TakesState, LoopSteps
  <2>1. CASE StateMissing
    <3>1. masked' \in BOOLEAN /\ armed' \in BOOLEAN /\ running' \in BOOLEAN
      BY <2>1 DEF StateMissing
    <3>2. QED
      BY <2>1, <3>1 DEF StateMissing
  <2>2. CASE OtherHandler
    <3>1. armed' \in BOOLEAN /\ running' \in BOOLEAN
      BY <2>2 DEF OtherHandler
    <3>2. QED
      BY <2>2, <3>1 DEF OtherHandler
  <2>3. ASSUME NEW asked \in BOOLEAN, RequestTelemetry(asked)
        PROVE  telemFlag' \in BOOLEAN /\ owed' \in BOOLEAN /\ missed' \in BOOLEAN
    BY <2>3 DEF RequestTelemetry
  <2>4. ASSUME NEW asked \in BOOLEAN, DshotThrottle(asked)
        PROVE  Typed'
    BY <2>3, <2>4 DEF DshotThrottle
  <2>5. ASSUME NEW asked \in BOOLEAN, NEW k \in Commanded,
               DshotCommand(k, asked)
        PROVE  Typed'
    <3>. DEFINE effect == Listens /\ TakesEffect(cmd, k)
    <3>1. k \in CommandNumbers
      BY CommandedAssumption
    <3>2. cmd' \in Processors
      BY <2>5, <3>1, ProcessorType DEF DshotCommand
    <3>3. isrConfig' \in Configs
      BY <2>5, ConfigAfterType DEF DshotCommand
    <3>4. isrForward' \in BOOLEAN
      BY <2>5, ForwardAfterType DEF DshotCommand
    <3>5. /\ edtArmed' \in BOOLEAN
          /\ saveFlag' \in BOOLEAN
          /\ infoFlag' \in BOOLEAN
      BY <2>5 DEF DshotCommand
    <3>6. edtAsked' \in [init : BOOLEAN, deinit : BOOLEAN]
      BY <2>5 DEF DshotCommand
    <3>7. /\ telemFlag' \in BOOLEAN
          /\ owed' \in BOOLEAN
          /\ missed' \in BOOLEAN
      BY <2>5, <2>3 DEF DshotCommand
    <3>8. forward' \in BOOLEAN
      BY <2>5, <3>4 DEF DshotCommand, PublishForward
    <3>9. /\ slot' = "taken"
          /\ directed' = TRUE
          /\ UNCHANGED <<flash, pc, mainConfig, masked, motor, entryMasked,
                         saved>>
      BY <2>5 DEF DshotCommand
    <3>. HIDE DEF effect
    <3>10. QED
      BY <3>2, <3>3, <3>4, <3>5, <3>6, <3>7, <3>8, <3>9
  <2>6. QED
    BY <1>4, <2>1, <2>2, <2>4, <2>5 DEF Handler
<1>5. CASE PowerLoss
  <2>1. NewProcessor \in Processors
    BY RepetitionsAssumption DEF NewProcessor, Processors
  <2>2. /\ isrForward' \in BOOLEAN
        /\ edtArmed' \in BOOLEAN
        /\ saveFlag' \in BOOLEAN
        /\ infoFlag' \in BOOLEAN
        /\ telemFlag' \in BOOLEAN
        /\ forward' \in BOOLEAN
        /\ armed' \in BOOLEAN
        /\ running' \in BOOLEAN
        /\ directed' \in BOOLEAN
        /\ owed' \in BOOLEAN
        /\ missed' \in BOOLEAN
        /\ masked' \in BOOLEAN
        /\ entryMasked' \in BOOLEAN
    BY <1>5, EntryAssumption DEF PowerLoss
  <2>3. QED
    BY <1>5, <2>1, <2>2, ZeroedType DEF PowerLoss, TypeOK, Room, BootSteps
<1>6. CASE UNCHANGED vars
  BY <1>6 DEF TypeOK, Room
<1>7. QED
  BY <1>1, <1>2, <1>3, <1>4, <1>5, <1>6 DEF Next

LEMMA AlwaysTyped == Spec => []Typed
  BY TypedInit, TypedNext, PTL DEF Spec

(* Every variable keeps its type: the page and both copies of the settings   *)
(* stay records of bytes, the command count stays below its threshold and   *)
(* a save never programs past the page.                                     *)
THEOREM TypeCorrect == Spec => []TypeOK
<1>1. Typed => TypeOK
  BY DEF Typed
<1>2. QED
  BY <1>1, AlwaysTyped, PTL

-----------------------------------------------------------------------------
(***************************************************************************)
(* The hand-over.  With interrupts masked at entry nothing runs before the   *)
(* loop, so the state is still in the slot when the settings are given; once *)
(* it is taken, main can no longer reach it.                                *)
(***************************************************************************)
HandOver ==
  /\ entryMasked /\ pc \in BootSteps => masked
  /\ pc \in {"init", "state", "panic"} <=> slot = "empty"
  /\ entryMasked => pc # "panic"
  /\ entryMasked /\ pc \in {"load", "give", "enable"} => slot = "placed"
  /\ entryMasked /\ pc \in {"enable"} \cup LoopSteps /\ ~directed =>
       /\ isrConfig = mainConfig
       /\ isrForward = ~IsDirReversed(mainConfig)

(* Commands, and with them saves, come only from a state that was taken;    *)
(* the direction they publish is the one they keep.                         *)
Commanding ==
  /\ saveFlag \/ pc = "save_copy" => slot = "taken"
  /\ directed => slot = "taken"
  /\ directed /\ (pc \in BootSteps \/ ~IsBidirectional(mainConfig)) =>
       forward = isrForward

(* A packet was sent and its flag is not cleared yet. *)
Requested ==
  /\ owed => telemFlag \/ missed
  /\ pc = "telemetry_sent" /\ owed => missed

Inv == HandOver /\ Commanding /\ Requested

LEMMA InvInit == Init => Inv
  BY DEF Init, Inv, HandOver, Commanding, Requested, LoopSteps

LEMMA InvNext == Typed /\ Inv /\ [Next]_vars => Inv'
<1>. SUFFICES ASSUME Typed, Inv, [Next]_vars PROVE Inv'
  OBVIOUS
<1>. USE DEF Typed, TypeOK, Inv, HandOver, Commanding, Requested, BootSteps,
             LoopSteps, vars, flash, isr, flags, motor, ghosts, telem, Goto
<1>1. CASE Boot
  <2>1. CASE StartPeripherals
    BY <2>1 DEF StartPeripherals
  <2>2. CASE PlaceState
    BY <2>2 DEF PlaceState
  <2>3. CASE LoadSettings
    BY <2>3 DEF LoadSettings
  <2>4. CASE GiveSettings
    BY <2>4 DEF GiveSettings, WithIsr
  <2>5. CASE EnableInterrupts
    BY <2>5 DEF EnableInterrupts
  <2>6. QED
    BY <1>1, <2>1, <2>2, <2>3, <2>4, <2>5 DEF Boot
<1>2. CASE MainLoop
  <2>1. CASE SendTelemetry
    BY <2>1 DEF SendTelemetry
  <2>2. CASE ClearTelemetry
    BY <2>2 DEF ClearTelemetry
  <2>3. CASE NoTelemetry
    BY <2>3 DEF NoTelemetry
  <2>4. CASE AcceptSave
    BY <2>4 DEF AcceptSave
  <2>5. CASE NoSave
    BY <2>5 DEF NoSave
  <2>6. CASE CopySettings
    BY <2>6 DEF CopySettings, WithIsr
  <2>7. CASE ErasePage
    BY <2>7 DEF ErasePage
  <2>8. CASE ProgramUnit
    BY <2>8 DEF ProgramUnit
  <2>9. CASE AcceptInfo
    BY <2>9 DEF AcceptInfo
  <2>10. CASE NoInfo
    BY <2>10 DEF NoInfo
  <2>11. CASE SendInfo
    BY <2>11 DEF SendInfo
  <2>12. QED
    BY <1>2, <2>1, <2>2, <2>3, <2>4, <2>5, <2>6, <2>7, <2>8, <2>9, <2>10, <2>11 DEF MainLoop
<1>3. CASE TurnDirection
  BY <1>3 DEF TurnDirection
<1>4. CASE Handler
  <2>. USE DEF TakesState, Interruptible
  <2>1. CASE StateMissing
    BY <2>1 DEF StateMissing
  <2>2. CASE OtherHandler
    BY <2>2 DEF OtherHandler
  <2>3. ASSUME NEW asked \in BOOLEAN, DshotThrottle(asked)
        PROVE  Inv'
    BY <2>3 DEF DshotThrottle, RequestTelemetry
  <2>4. ASSUME NEW asked \in BOOLEAN, NEW k \in Commanded,
               DshotCommand(k, asked)
        PROVE  Inv'
    <3>1. /\ slot' = "taken"
          /\ slot # "empty"
          /\ ~masked
          /\ pc # "panic"
          /\ directed' = TRUE
          /\ forward' = isrForward'
          /\ UNCHANGED <<pc, mainConfig, masked, entryMasked>>
      BY <2>4 DEF DshotCommand, PublishForward
    <3>2. Requested'
      BY <2>4 DEF DshotCommand, RequestTelemetry
    <3>3. QED
      BY <3>1, <3>2
  <2>5. QED
    BY <1>4, <2>1, <2>2, <2>3, <2>4 DEF Handler
<1>5. CASE PowerLoss
  BY <1>5 DEF PowerLoss
<1>6. CASE UNCHANGED vars
  BY <1>6
<1>7. QED
  BY <1>1, <1>2, <1>3, <1>4, <1>5, <1>6 DEF Next

LEMMA AlwaysInv == Spec => [](Typed /\ Inv)
  BY TypedInit, TypedNext, InvInit, InvNext, PTL DEF Spec

(* Entered with interrupts masked, the firmware never runs a handler before  *)
(* the interrupt state is in its slot: IsrCell::get does not panic.          *)
THEOREM NeverPanics == Spec => []HandlersFindState
<1>1. Inv => HandlersFindState
  BY DEF Inv, HandOver, HandlersFindState
<1>2. QED
  BY <1>1, AlwaysInv, PTL

(* The interrupt side works with the settings and the direction that main    *)
(* loaded, from its first handler to the first command frame.                *)
THEOREM HandOverComplete == Spec => []StartsFromLoaded
<1>1. Typed /\ Inv => StartsFromLoaded
  <2>1. SUFFICES ASSUME Typed, Inv, entryMasked, slot = "taken", ~directed
                 PROVE  pc \in LoopSteps
    BY DEF Inv, HandOver, StartsFromLoaded
  <2>2. QED
    BY <2>1 DEF Typed, TypeOK, Inv, HandOver, BootSteps
<1>2. QED
  BY <1>1, AlwaysInv, PTL

(* After a command frame the shared direction is the commanded one, unless   *)
(* main turns it.                                                           *)
THEOREM CommandedDirection == Spec => []DirectionFollowsCommands
<1>1. Inv => DirectionFollowsCommands
  BY DEF Inv, Commanding, DirectionFollowsCommands
<1>2. QED
  BY <1>1, AlwaysInv, PTL

(* No telemetry request is dropped outside the gap between a packet and the  *)
(* clearing of its flag.                                                    *)
THEOREM RequestsKept == Spec => []RequestKept
<1>1. Inv => RequestKept
  BY DEF Inv, Requested, RequestKept
<1>2. QED
  BY <1>1, AlwaysInv, PTL

(* A save never changes the settings that main works with: the state it      *)
(* would copy from has always been taken when a save is asked for.           *)
LEMMA LoadedKept ==
  ASSUME Typed, Inv, [Next]_vars, Live, Live'
  PROVE  mainConfig' = mainConfig
<1>. USE DEF vars, Goto
<1>1. CASE LoadSettings
  BY <1>1 DEF LoadSettings, Live, LoopSteps
<1>2. CASE CopySettings
  BY <1>2 DEF CopySettings, WithIsr, Inv, Commanding
<1>3. CASE PowerLoss
  BY <1>3 DEF PowerLoss, Live, LoopSteps
<1>4. ASSUME Boot, ~LoadSettings
      PROVE  mainConfig' = mainConfig
  BY <1>4 DEF Boot, StartPeripherals, PlaceState, GiveSettings,
     EnableInterrupts
<1>5. ASSUME MainLoop, ~CopySettings
      PROVE  mainConfig' = mainConfig
  BY <1>5 DEF MainLoop, SendTelemetry, ClearTelemetry, NoTelemetry,
     AcceptSave, NoSave, ErasePage, ProgramUnit, AcceptInfo, NoInfo, SendInfo
<1>6. CASE TurnDirection \/ Handler
  BY <1>6 DEF TurnDirection, Handler, StateMissing, OtherHandler,
     DshotThrottle, DshotCommand
<1>7. CASE UNCHANGED vars
  BY <1>7
<1>8. QED
  BY <1>1, <1>2, <1>3, <1>4, <1>5, <1>6, <1>7 DEF Next

THEOREM SavesKeepLoaded == Spec => SaveKeepsLoaded
<1>1. Typed /\ Inv /\ [Next]_vars => [Live /\ Live' => mainConfig' = mainConfig]_vars
  BY LoadedKept
<1>2. QED
  BY <1>1, AlwaysInv, PTL DEF Spec, SaveKeepsLoaded

-----------------------------------------------------------------------------
(***************************************************************************)
(* The flash.  The page holds what the last save set out to write as far as  *)
(* it was programmed, and erased bytes from there on; what is saved is a     *)
(* configuration of this firmware's version.                                *)
(***************************************************************************)
PageHolds ==
  \A f \in Fields :
    page[f] = IF Offset[f] \div UnitSize < programmed
              THEN saved[f] ELSE ErasedByte

SaveHolds ==
  /\ pc = "save_program" => saved = mainConfig
  /\ Live => mainConfig.eeprom_version = EEPROM_VERSION
  /\ programmed \in 1 .. Units - 1 => saved.eeprom_version = EEPROM_VERSION

Stored == PageHolds /\ SaveHolds

LEMMA LoadVersion ==
  ASSUME NEW c \in Configs
  PROVE  Load(c).eeprom_version = EEPROM_VERSION
<1>1. ASSUME NEW d \in Configs
      PROVE  ApplyVersionDefaults(d).eeprom_version = EEPROM_VERSION
  BY DEF ApplyVersionDefaults, Configs
<1>2. QED
  BY <1>1, ZeroedType DEF Load

(* A configuration of this version is loaded as it is. *)
LEMMA LoadSame ==
  ASSUME NEW c \in Configs, c.eeprom_version = EEPROM_VERSION
  PROVE  Load(c) = c
<1>1. IsValid(c)
  BY DEF IsValid, EEPROM_VERSION
<1>2. ApplyVersionDefaults(c) = [c EXCEPT !.eeprom_version = c.eeprom_version,
                                          !.max_ramp = c.max_ramp]
  BY DEF ApplyVersionDefaults, EEPROM_VERSION, Configs
<1>3. QED
  BY <1>1, <1>2 DEF Load, Configs

LEMMA StoredInit == Init => Stored
<1>. SUFFICES ASSUME Init PROVE Stored
  OBVIOUS
<1>1. Units - 1 \in Nat /\ Units \in Nat
  BY UnitsType
<1>2. PageHolds
  <2>1. CASE page = BlankPage /\ programmed = 0
    BY <2>1, OffsetBound DEF PageHolds, BlankPage
  <2>2. CASE programmed = Units
    BY <2>2, OffsetBound DEF PageHolds, Init
  <2>3. QED
    BY <2>1, <2>2 DEF Init
<1>3. SaveHolds
  BY <1>1 DEF Init, SaveHolds, Live, LoopSteps
<1>4. QED
  BY <1>2, <1>3 DEF Stored

LEMMA StoredNext == Typed /\ Inv /\ Stored /\ [Next]_vars => Stored'
<1>. SUFFICES ASSUME Typed, Inv, Stored, [Next]_vars PROVE Stored'
  OBVIOUS
<1>. USE DEF Typed, vars, flash, ghosts, Goto
<1>0. Units \in Nat /\ Units >= 2
  BY UnitsType
<1>1. CASE LoadSettings
  <2>1. mainConfig'.eeprom_version = EEPROM_VERSION
    BY <1>1, LoadVersion DEF LoadSettings, TypeOK
  <2>2. PageHolds'
    BY <1>1 DEF LoadSettings, Stored, PageHolds
  <2>3. QED
    BY <1>1, <2>1, <2>2 DEF LoadSettings, Stored, SaveHolds
<1>2. CASE ErasePage
  <2>1. PageHolds'
    BY <1>2, OffsetBound DEF ErasePage, PageHolds, BlankPage
  <2>2. SaveHolds'
    BY <1>2, <1>0 DEF ErasePage, Stored, SaveHolds, Live, LoopSteps
  <2>3. QED
    BY <2>1, <2>2 DEF Stored
<1>3. CASE ProgramUnit
  <2>1. programmed \in Nat /\ programmed < Units /\ saved = mainConfig
    BY <1>3, <1>0 DEF ProgramUnit, TypeOK, Room, Stored, SaveHolds
  <2>2. PageHolds'
    <3>1. SUFFICES ASSUME NEW f \in Fields
                   PROVE  page'[f] = IF Offset[f] \div UnitSize < programmed + 1
                                     THEN saved[f] ELSE ErasedByte
      BY <1>3 DEF ProgramUnit, PageHolds
    <3>2. page'[f] = IF Offset[f] \div UnitSize = programmed
                     THEN mainConfig[f] ELSE page[f]
      BY <1>3 DEF ProgramUnit
    <3>3. page[f] = IF Offset[f] \div UnitSize < programmed
                    THEN saved[f] ELSE ErasedByte
      BY DEF Stored, PageHolds
    <3>4. QED
      BY <2>1, <3>2, <3>3, OffsetBound
  <2>3. SaveHolds'
    BY <1>3, <2>1 DEF ProgramUnit, Stored, SaveHolds, Live, LoopSteps
  <2>4. QED
    BY <2>2, <2>3 DEF Stored
<1>4. ASSUME page' = page, programmed' = programmed, saved' = saved,
             pc' # "save_program", Live' => Live /\ mainConfig' = mainConfig
      PROVE  Stored'
  BY <1>4 DEF Stored, PageHolds, SaveHolds
<1>5. ASSUME page' = page, programmed' = programmed, saved' = saved,
             pc' = pc, mainConfig' = mainConfig
      PROVE  Stored'
  BY <1>5 DEF Stored, PageHolds, SaveHolds, Live
<1>6. ASSUME Boot, ~LoadSettings
      PROVE  Stored'
  BY <1>6, <1>4 DEF Boot, StartPeripherals, PlaceState, GiveSettings,
     EnableInterrupts, Live, LoopSteps
<1>7. ASSUME MainLoop, ~ErasePage, ~ProgramUnit
      PROVE  Stored'
  <2>1. CASE CopySettings
    <3>1. mainConfig' = mainConfig
      BY <2>1 DEF CopySettings, WithIsr, Inv, Commanding
    <3>2. QED
      BY <2>1, <3>1, <1>4 DEF CopySettings, Live, LoopSteps
  <2>2. QED
    BY <1>7, <2>1, <1>4 DEF MainLoop, SendTelemetry, ClearTelemetry,
       NoTelemetry, AcceptSave, NoSave, AcceptInfo, NoInfo, SendInfo, Live,
       LoopSteps
<1>8. CASE TurnDirection
  BY <1>8, <1>5 DEF TurnDirection
<1>9. CASE Handler
  BY <1>9, <1>4, <1>5 DEF Handler, StateMissing, OtherHandler, DshotThrottle,
     DshotCommand, Live, LoopSteps
<1>10. CASE PowerLoss
  BY <1>10, <1>4 DEF PowerLoss, Live, LoopSteps
<1>11. CASE UNCHANGED vars
  BY <1>11, <1>5
<1>12. QED
  BY <1>1, <1>2, <1>3, <1>6, <1>7, <1>8, <1>9, <1>10, <1>11 DEF Next

LEMMA AlwaysStored == Spec => [](Typed /\ Inv /\ Stored)
  BY TypedInit, TypedNext, InvInit, InvNext, StoredInit, StoredNext, PTL
     DEF Spec

(* A page whose save was cut off is loaded as it lies in flash: the first    *)
(* unit holds the version, so the check accepts it, and what the save did    *)
(* not reach reads as erased flash.                                         *)
LEMMA TornLoad ==
  ASSUME Typed, Stored, programmed \in 1 .. Units - 1
  PROVE  Load(page) = page
<1>1. 1 \div UnitSize = 0
  <2>1. UnitSize \in {2,3,4,5,6,7,8,9,10,11,12,13,14,15,16}
    BY UnitAssumption
  <2>2. QED
    BY <2>1, Z3
<1>2. page["eeprom_version"] = saved["eeprom_version"]
  <2>1. "eeprom_version" \in Fields /\ Offset["eeprom_version"] = 1
    BY DEF Fields, Offset
  <2>2. Units \in Nat
    BY UnitsType
  <2>3. programmed > 0
    BY <2>2
  <2>4. QED
    BY <1>1, <2>1, <2>3 DEF Stored, PageHolds
<1>3. page.eeprom_version = EEPROM_VERSION
  BY <1>2 DEF Stored, SaveHolds
<1>4. QED
  BY <1>3, LoadSame DEF Typed, TypeOK

(* Main works with the page's content once it has loaded it, as long as no    *)
(* save has touched the page.                                               *)
Loaded ==
  pc \in {"give", "enable"} => mainConfig = Load(page)

LEMMA LoadedInit == Init => Loaded
  BY DEF Init, Loaded

LEMMA LoadedNext == Loaded /\ [Next]_vars => Loaded'
<1>. SUFFICES ASSUME Loaded, [Next]_vars PROVE Loaded'
  OBVIOUS
<1>. USE DEF Loaded, vars, flash, Goto
<1>1. CASE Boot
  BY <1>1 DEF Boot, StartPeripherals, PlaceState, LoadSettings, GiveSettings,
     EnableInterrupts
<1>2. CASE MainLoop
  BY <1>2 DEF MainLoop, SendTelemetry, ClearTelemetry, NoTelemetry,
     AcceptSave, NoSave, CopySettings, ErasePage, ProgramUnit, AcceptInfo,
     NoInfo, SendInfo
<1>3. CASE TurnDirection \/ Handler
  BY <1>3 DEF TurnDirection, Handler, StateMissing, OtherHandler,
     DshotThrottle, DshotCommand
<1>4. CASE PowerLoss \/ UNCHANGED vars
  BY <1>4 DEF PowerLoss
<1>5. QED
  BY <1>1, <1>2, <1>3, <1>4 DEF Next

(* A boot takes what a cut save left for valid: settings before the cut are  *)
(* the saved ones, those beyond it read as erased flash.                     *)
THEOREM TornPagesBoot == Spec => []TornPageBootsErased
<1>1. Typed /\ Stored /\ Loaded => TornPageBootsErased
  BY TornLoad DEF Stored, PageHolds, Loaded, TornPageBootsErased
<1>2. Spec => []Loaded
  BY LoadedInit, LoadedNext, PTL DEF Spec
<1>3. QED
  BY <1>1, <1>2, AlwaysStored, PTL

-----------------------------------------------------------------------------
(***************************************************************************)
(* The refinement of SettingsStore.                                         *)
(***************************************************************************)
store ==
  [kind |-> CASE programmed = 0 -> "blank"
              [] programmed = Units -> "whole"
              [] OTHER -> "torn",
   of |-> saved]

live == IF Live THEN mainConfig ELSE Abstract!NoConfig

LEMMA Mapping ==
  /\ store = [kind |-> CASE programmed = 0 -> "blank"
                         [] programmed = Units -> "whole"
                         [] OTHER -> "torn",
              of |-> saved]
  /\ live = IF Live THEN mainConfig ELSE [f \in Fields |-> 256]
  BY DEF store, live, Abstract!NoConfig, Fields, Abstract!Fields

LEMMA NoConfigFresh == \A c \in Configs : c # Abstract!NoConfig
<1>1. SUFFICES ASSUME NEW c \in Configs, c = Abstract!NoConfig
               PROVE  FALSE
  OBVIOUS
<1>2. c["max_ramp"] = 256
  BY <1>1 DEF Abstract!NoConfig, Abstract!Fields
<1>3. QED
  BY <1>2 DEF Configs, Byte

LEMMA StoreInit == Init => Abstract!Init
<1>. SUFFICES ASSUME Init PROVE Abstract!Init
  OBVIOUS
<1>1. Units >= 2 /\ Typed
  BY UnitsType, TypedInit
<1>2. programmed \in {0, Units} /\ ~Live
  BY DEF Init, Live, LoopSteps
<1>3. saved \in Abstract!Configs
  BY <1>1 DEF Typed, TypeOK, Configs, Abstract!Configs, Byte, Abstract!Byte
<1>4. store.kind \in {"blank", "whole"} /\ store.of = saved
  BY <1>1, <1>2 DEF store
<1>5. store \in Abstract!Stored
  BY <1>3 DEF store, Abstract!Stored
<1>6. live = Abstract!NoConfig
  BY <1>2 DEF live
<1>7. QED
  BY <1>4, <1>5, <1>6, Mapping DEF Abstract!Init

(* Loading is the abstract power-up. *)
LEMMA PowerUpStep ==
  ASSUME Typed, Stored, LoadSettings
  PROVE  Abstract!PowerUp
<1>1. /\ ~Live
      /\ Live'
      /\ mainConfig' = Load(page)
      /\ UNCHANGED <<page, programmed, saved>>
  BY DEF LoadSettings, Live, LoopSteps, Goto, flash, ghosts
<1>2. Load(page) \in Abstract!Configs
  BY LoadType DEF Typed, TypeOK, Configs, Abstract!Configs, Byte, Abstract!Byte
<1>3. CASE programmed = 0
  <2>1. page = BlankPage
    BY <1>3, OffsetBound DEF Typed, TypeOK, Stored, PageHolds, BlankPage,
       Configs, Fields
  <2>2. ~IsValid(page)
    BY <2>1 DEF IsValid, BlankPage, Fields, ErasedByte, EEPROM_VERSION
  <2>3. Load(page) = Abstract!Defaults
    BY <2>2 DEF Load, Zeroed, Abstract!Defaults, ApplyVersionDefaults, Fields,
       Abstract!ApplyVersionDefaults, Abstract!Fields, EEPROM_VERSION,
       Abstract!EEPROM_VERSION, DefaultMaxRamp, Abstract!DefaultMaxRamp
  <2>4. programmed # Units
    BY <1>3, UnitsType
  <2>5. QED
    BY <1>1, <1>2, <1>3, <2>3, <2>4 DEF Abstract!PowerUp, Abstract!NoConfig,
       Abstract!Fields, Fields
<1>4. CASE programmed = Units
  <2>1. page = saved
    BY <1>4, OffsetBound DEF Typed, TypeOK, Stored, PageHolds, Configs, Fields
  <2>2. Load(page) = Abstract!Loaded(saved)
    BY <2>1 DEF Load, Abstract!Loaded, Abstract!IsValid, IsValid, Zeroed,
       Abstract!Defaults, ApplyVersionDefaults, Fields,
       Abstract!ApplyVersionDefaults, Abstract!Fields, EEPROM_VERSION,
       Abstract!EEPROM_VERSION, DefaultMaxRamp, Abstract!DefaultMaxRamp
  <2>3. programmed # 0
    BY <1>4, UnitsType
  <2>4. QED
    BY <1>1, <1>2, <1>4, <2>2, <2>3 DEF Abstract!PowerUp, Abstract!NoConfig,
       Abstract!Fields, Fields
<1>5. CASE programmed \in 1 .. Units - 1
  <2>1. Load(page) = page
    BY <1>5, TornLoad
  <2>2. ASSUME NEW f \in Abstract!Fields
        PROVE  page[f] \in {saved[f], Abstract!ErasedByte, Abstract!Defaults[f]}
    BY DEF Stored, PageHolds, Fields, Abstract!Fields, ErasedByte,
       Abstract!ErasedByte
  <2>3. programmed # 0 /\ programmed # Units
    BY <1>5, UnitsType
  <2>4. QED
    BY <1>1, <1>2, <2>1, <2>2, <2>3 DEF Abstract!PowerUp, Abstract!NoConfig,
       Abstract!Fields, Fields
<1>6. QED
  BY <1>3, <1>4, <1>5, UnitsType DEF Typed, TypeOK

(* Any other step that leaves the flash and the live settings alone ... *)
LEMMA Stutter ==
  ASSUME UNCHANGED <<programmed, saved>>, live' = live
  PROVE  UNCHANGED Abstract!vars
  BY DEF Abstract!vars, live, Abstract!NoConfig, Abstract!Fields, Fields

(* ... and the steps of a save are its own. *)
LEMMA EraseStep ==
  ASSUME Typed, ErasePage
  PROVE  Abstract!Erase
<1>1. /\ Live
      /\ Live'
      /\ mainConfig' = mainConfig
      /\ programmed' = 0
      /\ saved' = mainConfig
  BY DEF ErasePage, Live, LoopSteps, Goto
<1>2. mainConfig # Abstract!NoConfig
  BY NoConfigFresh DEF Typed, TypeOK
<1>3. 0 # Units
  BY UnitsType
<1>4. QED
  BY <1>1, <1>2, <1>3 DEF Abstract!Erase, Abstract!NoConfig, Abstract!Fields,
     Fields

LEMMA ProgramStep ==
  ASSUME Typed, Stored, ProgramUnit
  PROVE  [Abstract!Begin \/ Abstract!Finish]_(Abstract!vars)
<1>1. /\ Live
      /\ Live'
      /\ mainConfig' = mainConfig
      /\ programmed' = programmed + 1
      /\ saved = mainConfig
      /\ saved' = saved
  BY DEF ProgramUnit, Live, LoopSteps, Stored, SaveHolds, ghosts
<1>2. mainConfig # Abstract!NoConfig
  BY NoConfigFresh DEF Typed, TypeOK
<1>3. programmed \in Nat /\ programmed < Units /\ Units \in Nat /\ Units >= 2
  BY UnitsType DEF Typed, TypeOK, Room, ProgramUnit
<1>4. CASE programmed = 0
  <2>1. programmed # Units /\ programmed' # 0 /\ programmed' # Units
    BY <1>1, <1>3, <1>4
  <2>2. QED
    BY <1>1, <1>2, <1>4, <2>1 DEF Abstract!Begin, Abstract!NoConfig,
       Abstract!Fields, Fields
<1>5. CASE programmed # 0 /\ programmed + 1 = Units
  <2>1. programmed # Units /\ programmed' = Units /\ programmed' # 0
    BY <1>1, <1>3, <1>5
  <2>2. QED
    BY <1>1, <1>2, <1>5, <2>1 DEF Abstract!Finish, Abstract!NoConfig,
       Abstract!Fields, Fields
<1>6. CASE programmed # 0 /\ programmed + 1 # Units
  <2>1. programmed # Units /\ programmed' # Units /\ programmed' # 0
    BY <1>1, <1>3, <1>6
  <2>2. QED
    BY <1>1, <1>6, <2>1 DEF Abstract!vars
<1>7. QED
  BY <1>4, <1>5, <1>6

LEMMA LossStep ==
  ASSUME Typed, PowerLoss
  PROVE  [Abstract!PowerLoss]_(Abstract!vars)
<1>1. /\ ~Live'
      /\ UNCHANGED <<programmed, saved>>
  BY DEF PowerLoss, Live, LoopSteps, flash
<1>2. CASE Live
  <2>1. mainConfig # Abstract!NoConfig
    BY NoConfigFresh DEF Typed, TypeOK
  <2>2. QED
    BY <1>1, <1>2, <2>1 DEF Abstract!PowerLoss, Abstract!NoConfig,
       Abstract!Fields, Fields
<1>3. CASE ~Live
  <2>1. live' = live
    BY <1>1, <1>3 DEF live
  <2>2. QED
    BY <1>1, <2>1, Stutter
<1>4. QED
  BY <1>2, <1>3

LEMMA StoreNext ==
  Typed /\ Inv /\ Stored /\ [Next]_vars => [Abstract!Next]_(Abstract!vars)
<1>. SUFFICES ASSUME Typed, Inv, Stored, [Next]_vars
              PROVE  [Abstract!Next]_(Abstract!vars)
  OBVIOUS
<1>. USE DEF Goto
<1>1. CASE LoadSettings
  BY <1>1, PowerUpStep DEF Abstract!Next
<1>2. CASE ErasePage
  BY <1>2, EraseStep DEF Abstract!Next
<1>3. CASE ProgramUnit
  BY <1>3, ProgramStep DEF Abstract!Next
<1>4. CASE PowerLoss
  BY <1>4, LossStep DEF Abstract!Next
<1>5. ASSUME UNCHANGED <<programmed, saved>>, Live' <=> Live,
             mainConfig' = mainConfig
      PROVE  UNCHANGED Abstract!vars
  <2>1. live' = live
    BY <1>5 DEF live, Abstract!NoConfig, Abstract!Fields
  <2>2. QED
    BY <1>5, <2>1, Stutter
<1>6. ASSUME Boot, ~LoadSettings
      PROVE  UNCHANGED Abstract!vars
  BY <1>6, <1>5 DEF Boot, StartPeripherals, PlaceState, GiveSettings,
     EnableInterrupts, Live, LoopSteps, flash, ghosts
<1>7. CASE CopySettings
  <2>1. mainConfig' = mainConfig
    BY <1>7 DEF CopySettings, WithIsr, Inv, Commanding
  <2>2. QED
    BY <1>7, <1>5, <2>1 DEF CopySettings, Live, LoopSteps, flash, ghosts
<1>8. ASSUME MainLoop, ~ErasePage, ~ProgramUnit, ~CopySettings
      PROVE  UNCHANGED Abstract!vars
  BY <1>8, <1>5 DEF MainLoop, SendTelemetry, ClearTelemetry, NoTelemetry,
     AcceptSave, NoSave, AcceptInfo, NoInfo, SendInfo, Live, LoopSteps, flash,
     ghosts
<1>9. CASE StateMissing
  <2>1. ~Live /\ ~Live'
    BY <1>9 DEF StateMissing, Inv, HandOver, Live, LoopSteps
  <2>2. QED
    BY <1>9, <1>5, <2>1 DEF StateMissing, flash, ghosts
<1>10. ASSUME Handler, ~StateMissing
       PROVE  UNCHANGED Abstract!vars
  BY <1>10, <1>5 DEF Handler, OtherHandler, DshotThrottle, DshotCommand, Live,
     flash, ghosts
<1>11. CASE TurnDirection
  BY <1>11, <1>5 DEF TurnDirection, Live, flash, ghosts
<1>12. CASE UNCHANGED vars
  BY <1>12, <1>5 DEF vars, Live, flash, ghosts
<1>13. QED
  BY <1>1, <1>2, <1>3, <1>4, <1>6, <1>7, <1>8, <1>9, <1>10, <1>11, <1>12
     DEF Next, MainLoop, Boot

(* Through every boot, hand-over, command, save and loss of power the        *)
(* settings behave as the abstract store does.                              *)
THEOREM ImplementsStore == Spec => KeepsStore
  BY StoreInit, StoreNext, AlwaysStored, PTL
     DEF Spec, KeepsStore, Abstract!Spec

-----------------------------------------------------------------------------
(* Every start uses what is in flash, on both sides, also after a save that was     *)
(* cut off (main.rs:92-135, isr_handlers.rs, IsrCell::get).                  *)
THEOREM StartsRight == Spec => []StartsFromFlash
BY HandOverComplete, TornPagesBoot, PTL DEF StartsFromFlash

=============================================================================
