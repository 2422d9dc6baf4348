------------------------------ MODULE Settings ------------------------------
(***************************************************************************)
(* The settings from power-up to power loss: the boot sequence of main, the  *)
(* hand-over of the interrupt state, the DShot commands that change the     *)
(* interrupt side's copy of the settings, and the main loop that saves its   *)
(* own copy in flash.                                                       *)
(*                                                                         *)
(* Interrupt handlers are single actions and come between any two accesses   *)
(* of the main loop, as soon as interrupts are enabled.  Whether they are    *)
(* masked at power-up is up to what starts the firmware: a bootloader may    *)
(* jump into it with interrupts masked, after a plain reset they are not.    *)
(***************************************************************************)
EXTENDS Config, Commands

CONSTANTS
  Commanded,      \* commands that the transmitter sends
  EntryMasks,     \* interrupts may be masked (TRUE) or not at power-up
  Versions, Ramps, Directions,  \* bytes that earlier firmware left in flash
  UnitSize        \* bytes that flash programs at once: 2 on F051, else 8

ASSUME CommandedAssumption == Commanded \subseteq CommandNumbers

ASSUME EntryAssumption == EntryMasks \subseteq BOOLEAN

ASSUME BytesAssumption ==
  /\ Versions \subseteq Byte
  /\ Ramps \subseteq Byte
  /\ Directions \subseteq Byte

ASSUME UnitAssumption == UnitSize \in 2 .. 16

VARIABLES
  \* flash
  page,         \* the bytes of the settings page
  programmed,   \* units of the page programmed since it was erased
  \* main
  pc,           \* its next step
  mainConfig,   \* main_state.config
  masked,       \* PRIMASK
  \* interrupt side
  slot,         \* the interrupt state: "empty", "placed" or "taken"
  isrConfig,    \* its config
  isrForward,   \* its forward
  cmd,          \* its command processor
  edtArmed,     \* its edt_armed
  edtAsked,     \* EDT frames it owes: edt.send_init, edt.send_deinit
  \* SharedState
  saveFlag,     \* save_settings_flag
  infoFlag,     \* send_esc_info_flag
  telemFlag,    \* send_telemetry
  forward,      \* forward
  armed,        \* the motor is armed
  running,      \* the motor runs
  \* what happened, for the properties
  entryMasked,  \* interrupts were masked at power-up
  directed,     \* a command frame has been handled since power-up
  saved,        \* the settings that the last save set out to write
  owed,         \* a telemetry request no packet has answered
  missed        \* one came between a packet and the clearing of its flag

flash  == <<page, programmed>>
isr    == <<slot, isrConfig, isrForward, cmd, edtArmed, edtAsked>>
flags  == <<saveFlag, infoFlag, telemFlag>>
motor  == <<armed, running>>
telem  == <<owed, missed>>
ghosts == <<entryMasked, directed, saved, telem>>
vars   == <<flash, pc, mainConfig, masked, isr, flags, forward, motor, ghosts>>

Fields == {"eeprom_version", "max_ramp", "dir_reversed", "bi_direction"}

Configs == [eeprom_version : Byte, max_ramp : Byte,
            dir_reversed : Byte, bi_direction : Byte]

(* The page is programmed from its start, one unit at a time; beyond the    *)
(* unit that holds the last of the fields, at byte 18, nothing is modelled.  *)
Units == 18 \div UnitSize + 1

BootSteps == {"init", "state", "load", "give", "enable"}
LoopSteps == {"telemetry", "telemetry_sent", "save", "save_copy", "save_erase",
              "save_program", "info", "info_send"}

(* Main has loaded its settings. *)
Live == pc \in {"give", "enable"} \cup LoopSteps

Abstract == INSTANCE SettingsStore WITH
  store <- [kind |-> CASE programmed = 0 -> "blank"
                       [] programmed = Units -> "whole"
                       [] OTHER -> "torn",
            of |-> saved],
  live  <- IF Live THEN mainConfig ELSE [f \in Fields |-> 256]

(* Where the fields lie in the page. *)
Offset == [eeprom_version |-> 1, max_ramp |-> 5,
           dir_reversed |-> 17, bi_direction |-> 18]

BlankPage == [f \in Fields |-> ErasedByte]

(* EepromConfig::default() *)
Zeroed == [f \in Fields |-> 0]

(* An invalid page gives the defaults; either way newer fields get theirs.  *)
Load(c) == ApplyVersionDefaults(IF IsValid(c) THEN c ELSE Zeroed)

TypeOK ==
  /\ page \in Configs
  /\ programmed \in 0 .. Units
  /\ pc \in BootSteps \cup LoopSteps \cup {"panic"}
  /\ mainConfig \in Configs
  /\ masked \in BOOLEAN
  /\ slot \in {"empty", "placed", "taken"}
  /\ isrConfig \in Configs
  /\ isrForward \in BOOLEAN
  /\ cmd \in Processors
  /\ edtArmed \in BOOLEAN
  /\ edtAsked \in [init : BOOLEAN, deinit : BOOLEAN]
  /\ saveFlag \in BOOLEAN
  /\ infoFlag \in BOOLEAN
  /\ telemFlag \in BOOLEAN
  /\ forward \in BOOLEAN
  /\ armed \in BOOLEAN
  /\ running \in BOOLEAN
  /\ entryMasked \in BOOLEAN
  /\ directed \in BOOLEAN
  /\ saved \in Configs
  /\ owed \in BOOLEAN
  /\ missed \in BOOLEAN

(* Pages that a programming tool or an earlier firmware left. *)
WrittenPages ==
  [eeprom_version : Versions, max_ramp : Ramps, dir_reversed : Directions,
   bi_direction : {0}]

(* What power-up sets: everything but the flash. *)
Init ==
  /\ \/ page = BlankPage /\ programmed = 0
     \/ page \in WrittenPages /\ programmed = Units
  /\ saved = page
  /\ pc = "init"
  /\ mainConfig = Zeroed
  /\ masked \in EntryMasks
  /\ slot = "empty"
  /\ isrConfig = Zeroed
  /\ isrForward = TRUE
  /\ cmd = NewProcessor
  /\ edtArmed = FALSE
  /\ edtAsked = [init |-> FALSE, deinit |-> FALSE]
  /\ saveFlag = FALSE
  /\ infoFlag = FALSE
  /\ telemFlag = FALSE
  /\ forward = TRUE
  /\ armed = FALSE
  /\ running = FALSE
  /\ entryMasked = masked
  /\ directed = FALSE
  /\ owed = FALSE
  /\ missed = FALSE

-----------------------------------------------------------------------------
(***************************************************************************)
(* Boot.                                                                    *)
(***************************************************************************)

Goto(here, there) == pc = here /\ pc' = there

(* Mutant: the peripherals are started with interrupts enabled. *)
StartUnmasked ==
  /\ Goto("init", "state")
  /\ masked' = FALSE
  /\ UNCHANGED <<flash, mainConfig, isr, flags, forward, motor, ghosts>>

(* init::init starts the timers and unmasks their interrupts in the NVIC. *)
StartPeripherals ==
  /\ Goto("init", "state")
  /\ UNCHANGED <<flash, mainConfig, masked, isr, flags, forward, motor, ghosts>>

(* init_isr_state replaces what the slot holds. *)
PlaceState ==
  /\ Goto("state", "load")
  /\ slot' = "placed"
  /\ UNCHANGED <<flash, mainConfig, masked, isrConfig, isrForward, cmd,
                 edtArmed, edtAsked, flags, forward, motor, ghosts>>

LoadSettings ==
  /\ Goto("load", "give")
  /\ mainConfig' = Load(page)
  /\ UNCHANGED <<flash, masked, isr, flags, forward, motor, ghosts>>

(* Mutant: the interrupt side is reached wherever its state is. *)
WithIsrAnywhere == slot # "empty"

(* with_isr_state reaches the interrupt side's state only while it is in    *)
(* the slot; otherwise it silently does nothing.                            *)
WithIsr == slot = "placed"

(* Mutant: the direction is not handed over. *)
GiveSettingsOnly ==
  /\ Goto("give", "enable")
  /\ isrConfig' = IF WithIsr THEN mainConfig ELSE isrConfig
  /\ UNCHANGED <<flash, mainConfig, masked, slot, isrForward, cmd, edtArmed,
                 edtAsked, flags, forward, motor, ghosts>>

GiveSettings ==
  /\ Goto("give", "enable")
  /\ IF WithIsr
     THEN /\ isrConfig' = mainConfig
          /\ isrForward' = ~IsDirReversed(mainConfig)
     ELSE UNCHANGED <<isrConfig, isrForward>>
  /\ UNCHANGED <<flash, mainConfig, masked, slot, cmd, edtArmed, edtAsked,
                 flags, forward, motor, ghosts>>

EnableInterrupts ==
  /\ Goto("enable", "telemetry")
  /\ masked' = FALSE
  /\ UNCHANGED <<flash, mainConfig, isr, flags, forward, motor, ghosts>>

Boot == \/ StartPeripherals
        \/ PlaceState
        \/ LoadSettings
        \/ GiveSettings
        \/ EnableInterrupts

-----------------------------------------------------------------------------
(***************************************************************************)
(* The main loop: telemetry packet, save, ESC info.                         *)
(***************************************************************************)

(* send_telemetry is read, the packet sent, and only then the flag cleared. *)
SendTelemetry ==
  /\ telemFlag
  /\ Goto("telemetry", "telemetry_sent")
  /\ owed' = FALSE
  /\ missed' = FALSE
  /\ UNCHANGED <<flash, mainConfig, masked, isr, flags, forward, motor,
                 entryMasked, directed, saved>>

ClearTelemetry ==
  /\ Goto("telemetry_sent", "save")
  /\ telemFlag' = FALSE
  /\ UNCHANGED <<flash, mainConfig, masked, isr, saveFlag, infoFlag, forward,
                 motor, ghosts>>

NoTelemetry ==
  /\ ~telemFlag
  /\ Goto("telemetry", "save")
  /\ UNCHANGED <<flash, mainConfig, masked, isr, flags, forward, motor, ghosts>>

(* The save flag is cleared first, before the settings are copied. *)
AcceptSave ==
  /\ saveFlag
  /\ Goto("save", "save_copy")
  /\ saveFlag' = FALSE
  /\ UNCHANGED <<flash, mainConfig, masked, isr, infoFlag, telemFlag, forward,
                 motor, ghosts>>

NoSave ==
  /\ ~saveFlag
  /\ Goto("save", "info")
  /\ UNCHANGED <<flash, mainConfig, masked, isr, flags, forward, motor, ghosts>>

CopySettings ==
  /\ Goto("save_copy", "save_erase")
  /\ mainConfig' = IF WithIsr THEN isrConfig ELSE mainConfig
  /\ UNCHANGED <<flash, masked, isr, flags, forward, motor, ghosts>>

(* Mutant: the page is not erased before it is programmed. *)
EraseSkipped ==
  /\ Goto("save_erase", "save_program")
  /\ programmed' = 0
  /\ saved' = mainConfig
  /\ UNCHANGED <<page, mainConfig, masked, isr, flags, forward, motor,
                 entryMasked, directed, telem>>

ErasePage ==
  /\ Goto("save_erase", "save_program")
  /\ page' = BlankPage
  /\ programmed' = 0
  /\ saved' = mainConfig
  /\ UNCHANGED <<mainConfig, masked, isr, flags, forward, motor, entryMasked,
                 directed, telem>>

(* Mutant: the loop ends one unit early. *)
ProgramShort ==
  /\ pc = "save_program"
  /\ page' = [f \in Fields |-> IF Offset[f] \div UnitSize = programmed
                               THEN mainConfig[f] ELSE page[f]]
  /\ programmed' = programmed + 1
  /\ pc' = IF programmed' = Units - 1 THEN "info" ELSE pc
  /\ UNCHANGED <<mainConfig, masked, isr, flags, forward, motor, ghosts>>

(* One turn of program_impl's loop. *)
ProgramUnit ==
  /\ pc = "save_program"
  /\ page' = [f \in Fields |-> IF Offset[f] \div UnitSize = programmed
                               THEN mainConfig[f] ELSE page[f]]
  /\ programmed' = programmed + 1
  /\ pc' = IF programmed' = Units THEN "info" ELSE pc
  /\ UNCHANGED <<mainConfig, masked, isr, flags, forward, motor, ghosts>>

AcceptInfo ==
  /\ infoFlag
  /\ Goto("info", "info_send")
  /\ infoFlag' = FALSE
  /\ UNCHANGED <<flash, mainConfig, masked, isr, saveFlag, telemFlag, forward,
                 motor, ghosts>>

NoInfo ==
  /\ ~infoFlag
  /\ Goto("info", "telemetry")
  /\ UNCHANGED <<flash, mainConfig, masked, isr, flags, forward, motor, ghosts>>

SendInfo ==
  /\ Goto("info_send", "telemetry")
  /\ UNCHANGED <<flash, mainConfig, masked, isr, flags, forward, motor, ghosts>>

(* process_input turns the shared direction in bidirectional operation, at  *)
(* moments that module Direction describes.                                 *)
TurnDirection ==
  /\ pc = "telemetry"
  /\ IsBidirectional(mainConfig)
  /\ forward' = ~forward
  /\ UNCHANGED <<flash, pc, mainConfig, masked, isr, flags, motor, ghosts>>

MainLoop == \/ SendTelemetry
            \/ ClearTelemetry
            \/ NoTelemetry
            \/ AcceptSave
            \/ NoSave
            \/ CopySettings
            \/ ErasePage
            \/ ProgramUnit
            \/ AcceptInfo
            \/ NoInfo
            \/ SendInfo

-----------------------------------------------------------------------------
(***************************************************************************)
(* Interrupts.                                                              *)
(***************************************************************************)

Interruptible == ~masked /\ pc # "panic"

(* Every handler begins with IsrCell::get, which takes the state out of the *)
(* slot the first time and panics when there is none.                       *)
TakesState == Interruptible /\ slot # "empty" /\ slot' = "taken"

StateMissing ==
  /\ Interruptible
  /\ slot = "empty"
  /\ pc # "init"
  /\ pc' = "panic"
  /\ masked' = TRUE
  /\ armed' = FALSE
  /\ running' = FALSE
  /\ UNCHANGED <<flash, mainConfig, isr, flags, forward, ghosts>>

(* The tick and the other handlers arm, start and stop the motor; modules   *)
(* Esc and MotorMode describe how.                                          *)
OtherHandler ==
  /\ TakesState
  /\ armed' \in BOOLEAN
  /\ running' \in {FALSE, armed'}
  /\ UNCHANGED <<flash, pc, mainConfig, masked, isrConfig, isrForward, cmd,
                 edtArmed, edtAsked, flags, forward, ghosts>>

(* Mutant: every frame stores its bit. *)
RequestStored(asked) ==
  /\ telemFlag' = asked
  /\ owed' = (owed \/ asked)
  /\ missed' = (missed \/ (asked /\ pc = "telemetry_sent"))

(* The request bit of a frame, whatever else the frame says. *)
RequestTelemetry(asked) ==
  /\ telemFlag' = (telemFlag \/ asked)
  /\ owed' = (owed \/ asked)
  /\ missed' = (missed \/ (asked /\ pc = "telemetry_sent"))

DshotThrottle(asked) ==
  /\ TakesState
  /\ RequestTelemetry(asked)
  /\ UNCHANGED <<flash, pc, mainConfig, masked, isrConfig, isrForward, cmd,
                 edtArmed, edtAsked, saveFlag, infoFlag, forward, motor,
                 entryMasked, directed, saved>>

(* The processor listens to an armed motor that does not run. *)
Listens == armed /\ ~running

(* shared.set_forward(state.forward), at every command frame. *)
PublishForward == forward' = isrForward'

DshotCommand(c, asked) ==
  /\ TakesState
  /\ RequestTelemetry(asked)
  /\ LET effect == Listens /\ TakesEffect(cmd, c) IN
     /\ cmd' = IF Listens THEN ProcessorAfter(cmd, c) ELSE cmd
     /\ isrConfig' = IF effect THEN ConfigAfter(isrConfig, c) ELSE isrConfig
     /\ isrForward' = IF effect THEN ForwardAfter(isrForward, isrConfig, c)
                                ELSE isrForward
     /\ edtArmed' = (edtArmed \/ (effect /\ c = EDT_ENABLE
                                         /\ cmd.extended_telemetry))
     /\ edtAsked' = [init   |-> edtAsked.init \/ (effect /\ c = EDT_ENABLE),
                     deinit |-> edtAsked.deinit \/ (effect /\ c = EDT_DISABLE)]
     /\ saveFlag' = (saveFlag \/ (effect /\ c = SAVE_SETTINGS))
     /\ infoFlag' = (infoFlag \/ (effect /\ c = ESC_INFO))
  /\ PublishForward
  /\ directed' = TRUE
  /\ UNCHANGED <<flash, pc, mainConfig, masked, motor, entryMasked, saved>>

Handler == \/ StateMissing
           \/ OtherHandler
           \/ \E asked \in BOOLEAN :
                \/ DshotThrottle(asked)
                \/ \E c \in Commanded : DshotCommand(c, asked)

(* Power is lost; everything but the flash starts anew. *)
PowerLoss ==
  /\ Live \/ pc = "panic"
  /\ pc' = "init"
  /\ mainConfig' = Zeroed
  /\ masked' \in EntryMasks
  /\ slot' = "empty"
  /\ isrConfig' = Zeroed
  /\ isrForward' = TRUE
  /\ cmd' = NewProcessor
  /\ edtArmed' = FALSE
  /\ edtAsked' = [init |-> FALSE, deinit |-> FALSE]
  /\ saveFlag' = FALSE
  /\ infoFlag' = FALSE
  /\ telemFlag' = FALSE
  /\ forward' = TRUE
  /\ armed' = FALSE
  /\ running' = FALSE
  /\ entryMasked' = masked'
  /\ directed' = FALSE
  /\ owed' = FALSE
  /\ missed' = FALSE
  /\ UNCHANGED <<flash, saved>>

Next == Boot \/ MainLoop \/ TurnDirection \/ Handler \/ PowerLoss

(* The CPU runs: boot and the main loop go on under all interrupts, which   *)
(* return; the watchdog would restart a loop that hangs.                    *)
Spec == Init /\ [][Next]_vars /\ WF_vars(Boot) /\ WF_vars(MainLoop)

-----------------------------------------------------------------------------
(***************************************************************************)
(* Properties.                                                              *)
(***************************************************************************)

(* The boot sequence places the interrupt state before any handler runs     *)
(* (isr_handlers.rs, IsrCell::get), provided that the firmware was entered   *)
(* with interrupts masked: main never masks them itself.                    *)
HandlersFindState == pc = "panic" => ~entryMasked

(* The interrupt side starts from the settings that main loaded: until a    *)
(* command frame arrives its settings and direction are those of main_state, *)
(* and it never runs on the zeroed ones that init_isr_state placed.          *)
StartsFromLoaded ==
  entryMasked /\ slot = "taken" /\ ~directed =>
    /\ isrConfig = mainConfig
    /\ isrForward = ~IsDirReversed(mainConfig)

(* From the first command frame on, shared.forward is the direction that    *)
(* the commands ask for, as long as main does not turn it.                  *)
DirectionFollowsCommands ==
  directed /\ ~IsBidirectional(mainConfig)
    => forward = isrForward

(* The settings that main works with, and saves, never change while the     *)
(* power is on: not even a save copies what commands changed.               *)
SaveKeepsLoaded ==
  [][Live /\ Live' => mainConfig' = mainConfig]_vars

(* A page that holds no whole configuration was left by a cut in the middle *)
(* of a save, and a boot takes it for valid as soon as its first unit was   *)
(* programmed; fields beyond the cut then read as erased flash.             *)
TornPageBootsErased ==
  pc = "give" /\ programmed \in 1 .. Units - 1 =>
    \A f \in Fields :
      mainConfig[f] = IF Offset[f] \div UnitSize < programmed
                      THEN saved[f] ELSE ErasedByte

(* A telemetry request stays flagged until a packet answers it, unless it   *)
(* arrived after a packet was sent and before its flag was cleared.         *)
RequestKept == owed => telemFlag \/ missed

(* A save request reaches the flash: the page is written in full after it,  *)
(* however many requests and other frames come in between.                  *)
SaveServed ==
  /\ saveFlag ~> \/ pc = "save_program" /\ programmed = 0
                 \/ ~Live
  /\ pc = "save_program" ~> \/ programmed = Units /\ page = mainConfig
                            \/ ~Live

(* Whatever main, the handlers and power do, the settings behave as the     *)
(* abstract store.                                                          *)
KeepsStore == Abstract!Spec

(* What main.rs says of a save, "Copy ISR config back and write to flash":  *)
(* a save copies the settings of the interrupt side.                        *)
SaveCopiesCommanded == [][pc = "save_copy" /\ Live' => mainConfig' = isrConfig]_vars

(* A start uses what is in flash: the loaded settings on both sides, also when the  *)
(* last save was cut off.                                                   *)
StartsFromFlash == StartsFromLoaded /\ TornPageBootsErased

=============================================================================
