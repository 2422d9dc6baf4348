------------------------------- MODULE ChipG071 -------------------------------
(***************************************************************************)
(* What rm32_stm32/src/mcu_g071 gives to the shared drivers: the bring-up of   *)
(* its peripherals, its capture channel, the ends of its interrupt handlers,   *)
(* and its comparator.                                                      *)
(***************************************************************************)
EXTENDS BoardSteps

(* The clocks and pins of the bridge are the HAL's; the register block of TIM1 *)
(* is Tim1Pwm's.                                                            *)
Start ==
  << Power("core", {"GPIOA", "GPIOB"}),
     Power("bridge", {"TIM1"}),
     Claim("bridge", BridgePins, "alternate"),
     Write("bridge", {"TIM1"}) >>

Comparator ==
  << Power("comparator", {"SYSCFG"}),
     Claim("comparator", {PA(2), PA(3)}, "analog"),
     Claim("comparator", {PB(3), PB(7)}, "analog"),
     Write("comparator", {"COMP", "EXTI"}) >>

IntervalClock == Power("interval", {"TIM2"})
StepClock     == Power("step", {"TIM14"})

Capture ==
  << Power("capture", {"TIM3", "DMA1", "GPIOB"}),
     Claim("capture", {PB(4)}, "alternate"),
     Write("capture", {"DMAMUX"}) >>

Adc ==
  << Power("adc", {"ADC", "DMA1"}),
     Claim("adc", {PA(4), PA(6)}, "analog"),
     Channel("adc", 2, {"ADC", "DMAMUX"}),
     Bounded("adc"), Bounded("adc"),
     Finish("adc") >>

Uart ==
  << Power("uart", {"USART1", "GPIOB", "DMA1"}),
     Claim("uart", {PB(6)}, "alternate"),
     Write("uart", {"USART1"}),
     Bounded("uart"), Bounded("uart"),
     Channel("uart", 3, {"DMAMUX"}),
     Finish("uart") >>

Tick == << Power("tick", {"TIM6"}), Write("tick", {"TIM6"}) >>

Interrupts == << Unmask("irqs", ControlIrqs), Write("frame", {"EXTI"}) >>

-----------------------------------------------------------------------------
(* The capture channel; TIM3 has no main output to enable.                    *)
CaptureChannel ==
  [number   |-> 1,
   timer    |-> "TIM3",
   stopped  |-> {},
   receive  |-> {"EN", "TCIE", "MINC"},
   transmit |-> {"EN", "TCIE", "MINC", "DIR"},
   main_output |-> FALSE]

(* The wrappers of its interrupts; a servo pulse that begins on a high line     *)
(* takes three edges.                                                       *)
Handlers == [clears |-> {"EN"}, high |-> 3, low |-> 2, sets |-> {"EN"}]

(* The comparator's interrupt line, and the edges selected.                   *)
Sense ==
  [line |-> [a |-> 18, b |-> 18, c |-> 18], lines |-> {18},
   rising |-> "rise", falling |-> "fall", reads |-> TRUE]

=============================================================================
