------------------------------- MODULE ChipF051 -------------------------------
(***************************************************************************)
(* What rm32_stm32/src/mcu_f051 gives to the shared drivers: the bring-up of   *)
(* its peripherals, its capture channel, the ends of its interrupt handlers,   *)
(* and its comparator.                                                      *)
(***************************************************************************)
EXTENDS BoardSteps

(* Clocks, and TIM1 on the pins of the bridge. *)
Start ==
  << Power("core", {"GPIOA", "GPIOB", "TIM1"}),
     Claim("bridge", BridgePins, "alternate"),
     Write("bridge", {"TIM1"}) >>

Comparator ==
  << Claim("comparator", {PA(0), PA(1), PA(4), PA(5)}, "analog"),
     Power("comparator", {"SYSCFG"}),
     Write("comparator", {"COMP", "EXTI"}) >>

IntervalClock == Power("interval", {"TIM2"})
StepClock     == Power("step", {"TIM14"})

Capture ==
  << Power("capture", {"TIM15", "DMA1", "GPIOA"}),
     Claim("capture", {PA(2)}, "alternate") >>

Adc ==
  << Power("adc", {"ADC", "DMA1"}),
     Claim("adc", {PA(2), PA(6)}, "analog"),
     Channel("adc", 1, {"ADC"}),
     Bounded("adc"), Bounded("adc"),
     Finish("adc") >>

(* Mutant: the packets take the channel of the samples. *)
UartOnFirstChannel ==
  << Power("uart", {"USART1", "DMA1", "GPIOB"}),
     Claim("uart", {PB(6)}, "alternate"),
     Write("uart", {"USART1"}),
     Bounded("uart"), Bounded("uart"),
     Channel("uart", 1, {}),
     Finish("uart") >>

Uart ==
  << Power("uart", {"USART1", "DMA1", "GPIOB"}),
     Claim("uart", {PB(6)}, "alternate"),
     Write("uart", {"USART1"}),
     Bounded("uart"), Bounded("uart"),
     Channel("uart", 2, {}),
     Finish("uart") >>

Tick == << Power("tick", {"TIM6"}), Write("tick", {"TIM6"}) >>

Interrupts == << Unmask("irqs", ControlIrqs), Write("frame", {"EXTI"}) >>

-----------------------------------------------------------------------------
(* The capture channel: what its DMA control register holds, stopped,          *)
(* receiving and transmitting; its timer, and whether the timer has a main     *)
(* output to enable.                                                        *)
CaptureChannel ==
  [number   |-> 5,
   timer    |-> "TIM15",
   stopped  |-> {},
   receive  |-> {"EN", "TCIE", "MINC"},
   transmit |-> {"EN", "TCIE", "MINC", "DIR"},
   main_output |-> TRUE]

(* The wrappers of its interrupts: what the first one clears, the edges of a    *)
(* servo pulse that the second one asks for on a high and on a low line, and    *)
(* what it sets.                                                            *)
Handlers == [clears |-> {"EN"}, high |-> 2, low |-> 2, sets |-> {"EN"}]

(* The comparator's interrupt line for each phase, and the edge that            *)
(* set_rising_edge and set_falling_edge select.  output() reads bit 30 of CSR,    *)
(* the output of COMP2, which is off, while the phases are on COMP1.           *)
Sense ==
  [line |-> [a |-> 21, b |-> 21, c |-> 21], lines |-> {21},
   rising |-> "rise", falling |-> "fall", reads |-> FALSE]

=============================================================================
