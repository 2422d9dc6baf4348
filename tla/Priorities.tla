----------------------------- MODULE Priorities -----------------------------
(***************************************************************************)
(* Whether the interrupt handlers exclude each other on the chip whose main  *)
(* loop changes their priorities: adjust_irq_priorities of                   *)
(* rm32_stm32/src/mcu_l431/chip.rs, before, between and after the handlers    *)
(* that share the state in IsrCell.                                         *)
(***************************************************************************)
EXTENDS Naturals, Sequences

CONSTANT KeptSteps   \* a priority's lowest step that the chip keeps, 16

ASSUME PrioritiesAssumption == KeptSteps \in Nat \ {0, 1}

Interrupts == {"tim6", "com", "comp", "dma", "exti"}

VARIABLES
  priority,     \* as written to the NVIC; less is more urgent
  pending,      \* raised and not yet entered
  active        \* the handlers on the stack, the one that runs last

prioritiesVars == <<priority, pending, active>>

PrioritiesTypeOK ==
  /\ priority \in [Interrupts -> 0 .. KeptSteps]
  /\ pending \subseteq Interrupts
  /\ active \in UNION {[1 .. n -> Interrupts] : n \in 0 .. 2}

PrioritiesInit ==
  /\ priority = [i \in Interrupts |-> 0]
  /\ pending = {}
  /\ active = <<>>

-----------------------------------------------------------------------------
(* Mutant: the second level is one that the chip keeps. *)
SecondLevelKept == KeptSteps

SecondLevel == 1

(* adjust_irq_priorities, three stores, one after the other: frames first at  *)
(* low speed, commutation first at high speed.  It runs outside of handlers.  *)
LevelsFor(framesFirst) ==
  [i \in {"dma", "com", "comp"} |->
     IF (i = "dma") = framesFirst THEN 0 ELSE SecondLevel]

AdjustPriority ==
  /\ active = <<>>
  /\ \E framesFirst \in BOOLEAN, i \in {"dma", "com", "comp"} :
       priority' = [priority EXCEPT ![i] = LevelsFor(framesFirst)[i]]
  /\ UNCHANGED <<pending, active>>

Raise ==
  /\ \E i \in Interrupts \ pending : pending' = pending \cup {i}
  /\ UNCHANGED <<priority, active>>

(* What the NVIC compares. *)
Urgency(i) == priority[i] \div KeptSteps

(* A pending interrupt enters when nothing runs, or when it is more urgent    *)
(* than what runs.                                                          *)
Enter ==
  /\ \E i \in pending :
       /\ active # <<>> => Urgency(i) < Urgency(active[Len(active)])
       /\ active' = Append(active, i)
       /\ pending' = pending \ {i}
  /\ UNCHANGED priority

Leave ==
  /\ active # <<>>
  /\ active' = SubSeq(active, 1, Len(active) - 1)
  /\ UNCHANGED <<priority, pending>>

PrioritiesNext == AdjustPriority \/ Raise \/ Enter \/ Leave

PrioritiesSpec == PrioritiesInit /\ [][PrioritiesNext]_prioritiesVars

-----------------------------------------------------------------------------
(* No handler runs on top of another one: each takes the state that they      *)
(* share as its own, and the levels that the main loop gives them must not    *)
(* be told apart by the chip (isr_handlers.rs:12-31, chip.rs:53-68).         *)
OneHandlerAtATime ==
  Len(active) <= 1

=============================================================================
