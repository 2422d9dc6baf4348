-------------------------------- MODULE Board --------------------------------
(***************************************************************************)
(* The bring-up of the board, from init::init to the hand-over of the         *)
(* interrupt state: what each chip's code writes in turn, the flags of the     *)
(* hardware it waits for, and what it does about a flag that never comes.      *)
(***************************************************************************)
EXTENDS BoardSteps, SequencesExt

CONSTANT PulseOutput    \* the board has a pin for pulses of the speed

ASSUME PulseAssumption == PulseOutput \in BOOLEAN

F051 == INSTANCE ChipF051
G071 == INSTANCE ChipG071
L431 == INSTANCE ChipL431
G431 == INSTANCE ChipG431

ChipNames == {"F051", "G071", "L431", "G431"}

VARIABLES
  chip,       \* the chip that the firmware was built for
  at,         \* index of the next step of its bring-up
  gates,      \* clocks that are on
  claims,     \* who made a pin what: <<part, pin, mode>>
  granted,      \* DMA channels: <<part, number>>
  unmasked,   \* interrupts unmasked in the NVIC
  ready,      \* parts that came to the end of their bring-up
  failed      \* parts that gave up

bringUpVars == <<at, gates, claims, granted, unmasked, ready, failed>>

(* By chip: the channel of the input, and the timer of the steps. *)
Channels == [F051 |-> F051!CaptureChannel, G071 |-> G071!CaptureChannel,
             L431 |-> L431!CaptureChannel, G431 |-> G431!CaptureChannel]

(* Tim2Interval::new and Tim14Com::new *)
Timers(intervalClock, stepClock) ==
  << intervalClock, Write("interval", {"TIM2"}),
     stepClock, Write("step", stepClock.gates) >>

(* receive_dshot_dma *)
Receiving(c) ==
  << Write("capture", {"DMA1", Channels[c].timer}),
     Channel("capture", Channels[c].number, {}) >>

(* What main adds: the pin of the LED, the start-up tune on all pins of the     *)
(* bridge, the pulse pin of a board that has one, the watchdog, whose           *)
(* registers are waited for without a bound, and the input once more.         *)
Main(c) ==
  << Claim("led", {PB(8)}, "output"),
     Claim("bridge", {PA(7), PB(0), PB(1)}, "output"),
     IF PulseOutput THEN Claim("pulses", {PB(10)}, "output") ELSE Nothing("pulses"),
     Write("watchdog", {"IWDG"}), Endless("watchdog") >>
  \o Receiving(c)

(* init::init of each chip, then main. *)
PlanF051 ==
  F051!Start \o F051!Comparator
    \o Timers(F051!IntervalClock, F051!StepClock)
    \o F051!Capture \o Receiving("F051") \o F051!Adc \o F051!Uart
    \o F051!Tick \o F051!Interrupts \o Main("F051")

PlanG071 ==
  G071!Start \o G071!Comparator
    \o Timers(G071!IntervalClock, G071!StepClock)
    \o G071!Capture \o Receiving("G071") \o G071!Adc \o G071!Uart
    \o G071!Tick \o G071!Interrupts \o Main("G071")

PlanL431 ==
  L431!Start \o L431!Comparator
    \o Timers(L431!IntervalClock, L431!StepClock)
    \o L431!Capture \o Receiving("L431") \o L431!Adc \o L431!Uart
    \o L431!Tick \o L431!Interrupts \o Main("L431")

PlanG431 ==
  G431!Start \o G431!Comparator
    \o Timers(G431!IntervalClock, G431!StepClock)
    \o G431!Capture \o Receiving("G431") \o G431!Adc \o G431!Uart
    \o G431!Tick \o G431!Interrupts \o Main("G431")

Plan == [F051 |-> PlanF051, G071 |-> PlanG071, L431 |-> PlanL431, G431 |-> PlanG431]

Steps == Plan[chip]
Done  == at > Len(Steps)
Step  == Steps[at]

(* Where the code goes on when a part gives up: `?` skips the rest of it. *)
AfterPart == CHOOSE n \in at .. Len(Steps) :
  /\ Steps[n].part # Step.part
  /\ \A k \in at .. n - 1 : Steps[k].part = Step.part

(* After a reset only what every chip clocks by itself has a clock. *)
BoardInit ==
  /\ chip \in ChipNames
  /\ at = 1
  /\ gates = {}
  /\ claims = {}
  /\ granted = {}
  /\ unmasked = {}
  /\ ready = {}
  /\ failed = {}

Perform ==
  /\ gates' = gates \cup Step.gates
  /\ claims' = {c \in claims : c[2] \notin Step.pins}
                 \cup {<<Step.part, p, Step.mode>> : p \in Step.pins}
  /\ granted' = granted \cup {<<Step.part, n>> : n \in Step.channels}
  /\ unmasked' = unmasked \cup Step.irqs
  /\ ready' = IF Step.ends THEN ready \cup {Step.part} ELSE ready
  /\ at' = at + 1
  /\ UNCHANGED <<chip, failed>>

WriteRegisters == ~Done /\ Step.wait = "none" /\ Perform

(* The flag is there. *)
FlagComes == ~Done /\ Step.wait # "none" /\ Perform

(* Mutant: the count starts over. *)
CountAgain ==
  /\ ~Done /\ Step.wait = "bounded"
  /\ UNCHANGED <<chip, bringUpVars>>

(* The flag has not come within the bound: the part is used as it is. *)
GiveUp ==
  /\ ~Done /\ Step.wait = "bounded"
  /\ failed' = failed \cup {Step.part}
  /\ at' = AfterPart
  /\ UNCHANGED <<chip, gates, claims, granted, unmasked, ready>>

(* The main loop goes on. *)
MainRuns == Done /\ UNCHANGED <<chip, bringUpVars>>

BoardNext == WriteRegisters \/ FlagComes \/ GiveUp \/ MainRuns

-----------------------------------------------------------------------------
BoardTypeOK ==
  /\ chip \in ChipNames
  /\ at \in 1 .. Len(Steps) + 1
  /\ gates \subseteq UNION {s.gates : s \in Range(Steps)}
  /\ {c[2] : c \in claims} \subseteq UNION {s.pins : s \in Range(Steps)}
  /\ unmasked \subseteq ControlIrqs
  /\ failed \cup ready \subseteq {"adc", "uart"}

(* The clock gate of a block: comparators share that of SYSCFG. *)
GateOf(block) ==
  CASE block = "COMP" -> "SYSCFG"
    [] block = "DMAMUX" -> IF chip = "G071" THEN "DMA1" ELSE "DMAMUX"
    [] OTHER -> block

AlwaysClocked == {"EXTI", "IWDG", "FLASH"}

(* Blocks that the code writes without having given them a clock. *)
LeftToReset ==
  [F051 |-> {}, G071 |-> {}, L431 |-> {"COMP"}, G431 |-> {"COMP", "DMAMUX"}]

Clocked(blocks) ==
  \A b \in blocks \ (AlwaysClocked \cup LeftToReset[chip]) : GateOf(b) \in gates

(* What the interrupt handlers of the control code use. *)
HandlerParts == {"bridge", "comparator", "interval", "step", "capture", "tick", "frame"}

HandlerBlocks ==
  UNION {s.blocks : s \in {t \in Range(Steps) : t.part \in HandlerParts}}

(* Pins that a second part takes from the first: on F051 the ADC takes the      *)
(* input's.                                                                 *)
Retaken == [F051 |-> {PA(2)}, G071 |-> {}, L431 |-> {}, G431 |-> {}]

PinsKept ==
  ~Done => \A c \in claims :
    c[2] \in Step.pins \ Retaken[chip] /\ c[1] # Step.part => c[3] = Step.mode

ChannelsApart == \A x, y \in granted : x[2] = y[2] => x[1] = y[1]

(* No block is written before its clock is on, no part takes a pin or a DMA     *)
(* channel from another, and no interrupt of the control code is unmasked       *)
(* before all that its handler uses is clocked, on any chip and whichever part  *)
(* gave up; but for the comparators and the DMA multiplexer of two chips and    *)
(* one pin of F051 (mcu_*/init.rs, comp_init.rs, adc.rs, telemetry_uart.rs,     *)
(* input_capture.rs).                                                       *)
PeripheralsReady ==
  /\ ~Done => Clocked(Step.blocks)
  /\ unmasked # {} => Clocked(HandlerBlocks)
  /\ PinsKept
  /\ ChannelsApart

(* What a part that did not give up asked for is in effect. *)
InEffect(s) ==
  /\ s.gates \subseteq gates
  /\ \A n \in s.channels : <<s.part, n>> \in granted
  /\ s.irqs \subseteq unmasked
  /\ s.ends => s.part \in ready

BroughtUp == Done /\ \A s \in Range(Steps) : s.part \notin failed => InEffect(s)
HeldUp    == ~Done /\ Step.wait = "endless"

(* The bring-up comes to its end, whatever flag fails to come, with every part  *)
(* but those that gave up complete; only the waits without a bound, for the     *)
(* clocks of G431 and the registers of the watchdog, can hold it up             *)
(* (regs.rs:21-35, adc_generic.rs:27-40, telem_hal.rs:35-46, mcu_g431/          *)
(* init.rs:25-49, mcu_*/system.rs).                                         *)
BringUpEnds == <>BroughtUp \/ <>[]HeldUp

=============================================================================
