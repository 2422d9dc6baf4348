------------------------------ MODULE BoardSteps ------------------------------
(***************************************************************************)
(* What the chips' bring-up code is made of: register writes that turn       *)
(* clocks on, claim pins, take a DMA channel, unmask interrupts or configure  *)
(* a peripheral, and waits for a flag of the hardware.                       *)
(***************************************************************************)
EXTENDS Naturals, Sequences

(* The step of a part of the board that changes nothing. *)
Nothing(part) ==
  [part |-> part, gates |-> {}, blocks |-> {}, pins |-> {}, mode |-> "none",
   channels |-> {}, irqs |-> {}, wait |-> "none", ends |-> FALSE]

(* Clock gates of RCC. *)
Power(part, gates) == [Nothing(part) EXCEPT !.gates = gates]

(* Registers of these blocks. *)
Write(part, blocks) == [Nothing(part) EXCEPT !.blocks = blocks]

(* The mode of pins, and with it their alternate function and pull. *)
PA(n) == <<"GPIOA", n>>
PB(n) == <<"GPIOB", n>>

Claim(part, pins, mode) ==
  [Nothing(part) EXCEPT !.blocks = {p[1] : p \in pins}, !.pins = pins, !.mode = mode]

(* A DMA channel, with the blocks that route its request. *)
Channel(part, n, routing) ==
  [Nothing(part) EXCEPT !.blocks = {"DMA1"} \cup routing, !.channels = {n}]

Unmask(part, irqs) == [Nothing(part) EXCEPT !.irqs = irqs]

(* A wait for a flag gives up after 100000 polls, or never does. *)
Bounded(part) == [Nothing(part) EXCEPT !.wait = "bounded"]
Endless(part) == [Nothing(part) EXCEPT !.wait = "endless"]

(* The part is ready. *)
Finish(part) == [Nothing(part) EXCEPT !.ends = TRUE]

(* The interrupts of the control code: tick, commutation timer, comparator,    *)
(* capture channel and frame.                                               *)
ControlIrqs == {"tick", "step", "comparator", "capture", "frame"}

BridgePins == {PA(8), PA(9), PA(10)}

=============================================================================
