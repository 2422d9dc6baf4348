----------------------------- MODULE Comparators -----------------------------
(***************************************************************************)
(* The registers between the comparator and the commutation: BemfComparator     *)
(* over the comparator and the external interrupt lines of each chip, driven    *)
(* by the tick that starts the motor, the tick that polls, the comparator's      *)
(* interrupt and the commutation timer (rm32/src/control/isr_logic.rs).         *)
(***************************************************************************)
EXTENDS Board, Bridge

VARIABLES
  sector,     \* Commutation: step
  rising,     \* Commutation and BemfComparator: rising
  heading,    \* history: the direction of the last step
  watched,    \* the phase on the comparator's inverting input
  output,     \* the comparator's output
  rtsr, ftsr, imr, pr,   \* EXTI, the comparator's lines
  waiting,    \* the commutation timer runs
  spins,      \* shared: running
  polls,      \* shared: old_routine
  seen        \* history: the output went past the crossing, unmasked

comparatorVars == <<sector, rising, heading, watched, output, rtsr, ftsr,
                    imr, pr, waiting, spins, polls, seen>>

sensed == [F051 |-> F051!Sense, G071 |-> G071!Sense,
           L431 |-> L431!Sense, G431 |-> G431!Sense][chip]

Line(phase) == sensed.line[phase]

ComparatorTypeOK ==
  /\ sector \in 1 .. 6
  /\ watched \in {"a", "b", "c"}
  /\ {rtsr, ftsr, imr, pr} \subseteq SUBSET sensed.lines
  /\ {rising, heading, output, waiting, spins, polls, seen} \subseteq BOOLEAN

(* The comparators' init: both edges of the lines, masked; the driver is new.   *)
ComparatorInit ==
  /\ chip \in ChipNames
  /\ sector = 1 /\ rising = TRUE /\ heading = TRUE
  /\ watched = "c"
  /\ output \in BOOLEAN
  /\ rtsr = sensed.lines /\ ftsr = sensed.lines
  /\ imr = {} /\ pr = {}
  /\ waiting = FALSE
  /\ spins = FALSE
  /\ polls = TRUE
  /\ seen = FALSE

(* output_level: what the code reads of it. *)
OutputLevel == sensed.reads /\ output

(* The phase that change_input watches in a step. *)
Input(step) == CASE step \in {1, 4} -> "c" [] step \in {2, 5} -> "a" [] OTHER -> "b"

(* set_rising_edge and set_falling_edge: the edge is added for the line of the    *)
(* phase, the other one removed for all lines of the comparator.              *)
Select(edge, phase) ==
  /\ rtsr' = IF edge = "rise" THEN rtsr \cup {Line(phase)} ELSE rtsr \ sensed.lines
  /\ ftsr' = IF edge = "fall" THEN ftsr \cup {Line(phase)} ELSE ftsr \ sensed.lines

(* Mutant: the edges are taken the other way round. *)
SwappedInput ==
  /\ watched' = Input(sector')
  /\ Select(IF rising' THEN sensed.rising ELSE sensed.falling, watched')

(* change_input *)
ChangeInput ==
  /\ watched' = Input(sector')
  /\ Select(IF rising' THEN sensed.falling ELSE sensed.rising, watched')

(* Mutant: forward and reverse steps rise alike. *)
AlwaysForwardStep(forward) ==
  /\ heading' = forward
  /\ sector' = NextStep(sector, forward)
  /\ rising' = (sector' % 2 = 1)

(* advance, set_step and change_input; the new phase may be at any level.      *)
AdvanceInput(forward) ==
  /\ heading' = forward
  /\ sector' = NextStep(sector, forward)
  /\ rising' = (forward <=> sector' % 2 = 1)

TakeStep ==
  /\ \E forward \in BOOLEAN : AdvanceInput(forward)
  /\ ChangeInput
  /\ output' \in BOOLEAN
  /\ seen' = FALSE

(* enable_interrupts, and mask_interrupts, which forgets what is pending. *)
Enable == imr' = imr \cup {Line(watched')}
MaskAndClear == imr' = imr \ sensed.lines /\ pr' = pr \ sensed.lines

(* The tick that starts the motor. *)
StartMotorTick ==
  /\ ~spins
  /\ spins' = TRUE
  /\ TakeStep /\ Enable
  /\ UNCHANGED <<chip, pr, waiting, polls>>

(* The tick that polls: it masks the comparator; if its samples amount to a      *)
(* crossing it steps at once or arms the timer.                               *)
PollingTick ==
  /\ spins /\ polls
  /\ MaskAndClear
  /\ \/ UNCHANGED <<sector, rising, heading, watched, output, rtsr, ftsr, waiting>>
          /\ seen' = FALSE
     \/ TakeStep /\ UNCHANGED waiting
     \/ waiting' = TRUE /\ seen' = FALSE
          /\ UNCHANGED <<sector, rising, heading, watched, output, rtsr, ftsr>>
  /\ UNCHANGED <<chip, spins, polls>>

(* The comparator's interrupt: before the crossing it returns with its flag set, *)
(* and is taken again; past it, it masks itself and arms the timer.            *)
ComparatorIrq ==
  /\ pr \cap imr # {}
  /\ OutputLevel # rising
  /\ MaskAndClear
  /\ waiting' = TRUE
  /\ seen' = FALSE
  /\ UNCHANGED <<chip, sector, rising, heading, watched, output, rtsr, ftsr, spins, polls>>

(* The commutation timer's interrupt, which may end the polling. *)
StepTimerIrq ==
  /\ waiting
  /\ waiting' = FALSE
  /\ TakeStep /\ Enable
  /\ polls' \in {polls, FALSE}
  /\ UNCHANGED <<chip, pr, spins>>

(* The main loop falls back to polling, or the motor is stopped; neither one     *)
(* touches the comparator or the timer.                                     *)
FallBackToPolling ==
  /\ ~polls /\ polls' = TRUE
  /\ spins' \in {spins, FALSE}
  /\ UNCHANGED <<chip, sector, rising, heading, watched, output, rtsr, ftsr, imr, pr,
                 waiting, seen>>

(* The voltage of the phase crosses the neutral point, or noise does.  An edge   *)
(* that is selected sets its flag, masked or not.                             *)
OutputChanges ==
  LET line == Line(watched)
  IN  /\ output' = ~output
      /\ pr' = IF line \in (IF output' THEN rtsr ELSE ftsr) THEN pr \cup {line} ELSE pr
      /\ seen' = (output' # rising /\ line \in imr)
      /\ UNCHANGED <<chip, sector, rising, heading, watched, rtsr, ftsr, imr, waiting,
                     spins, polls>>

(* On a chip with two comparators the other one goes on, and sets its flag too.    *)
OtherChanges ==
  /\ \E line \in (sensed.lines \ {Line(watched)}) \cap (rtsr \cup ftsr) :
       pr' = pr \cup {line}
  /\ UNCHANGED <<chip, sector, rising, heading, watched, output, rtsr, ftsr, imr,
                 waiting, spins, polls, seen>>

ComparatorNext ==
  \/ StartMotorTick \/ PollingTick \/ ComparatorIrq \/ StepTimerIrq
  \/ FallBackToPolling \/ OutputChanges \/ OtherChanges

-----------------------------------------------------------------------------
(* An unmasked comparator watches the phase that the bridge leaves floating, and  *)
(* interrupts at the edge that the phase makes on its way from what the step     *)
(* before drove it to, to what the next step will, in either direction of       *)
(* rotation: a phase on its way up ends the high output.  Not on G431, whose     *)
(* driver selects the opposite edges (comparator.rs:40-52,                      *)
(* mcu_*/comparator.rs, commutation.rs:43-61, phase.rs:117-150).                *)
Floating(step) == CASE StepPhases[step][1] = "A" -> "a"
                    [] StepPhases[step][1] = "B" -> "b"
                    [] OTHER -> "c"

GoesUp == StepPhases[NextStep(sector, heading)][3] = StepPhases[sector][1]

WatchesFloatingPhase ==
  imr # {} =>
    /\ watched = Floating(sector)
    /\ Line(watched) \in imr
    /\ chip # "G431" =>
         Line(watched) \in (IF GoesUp THEN ftsr \ rtsr ELSE rtsr \ ftsr)

(* An output that went past the crossing while the comparator was unmasked and    *)
(* stays there makes the interrupt that takes the crossing, unless a tick takes   *)
(* the motor to polling; on the chips that select the right edge and read the    *)
(* right output (comparator.rs:40-58, isr_logic.rs:208-225).                    *)
CrossingTaken ==
  chip \notin {"F051", "G431"} => (seen ~> ~seen)

=============================================================================
