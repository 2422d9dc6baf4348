------------------------------- MODULE ChipL431 -------------------------------
(***************************************************************************)
(* What rm32_stm32/src/mcu_l431 gives to the shared drivers: the bring-up of   *)
(* its peripherals, its capture channel, the ends of its interrupt handlers,   *)
(* and its comparator.                                                      *)
(***************************************************************************)
EXTENDS BoardSteps

(* Clocks, and TIM1 on the pins of the bridge. *)
Start ==
  << Power("core", {"GPIOA", "GPIOB", "TIM1"}),
     Claim("bridge", BridgePins, "alternate"),
     Write("bridge", {"TIM1"}) >>

(* SYSCFG is given no clock. *)
Comparator ==
  << Power("comparator", {"GPIOA", "GPIOB"}),
     Claim("comparator", {PA(4), PA(5)}, "analog"),
     Claim("comparator", {PB(4), PB(7)}, "analog"),
     Write("comparator", {"COMP", "EXTI"}) >>

IntervalClock == Power("interval", {"TIM2"})
StepClock     == Power("step", {"TIM16"})

Capture ==
  << Power("capture", {"TIM15", "DMA1", "GPIOA"}),
     Claim("capture", {PA(2)}, "alternate"),
     Write("capture", {"DMA1"}) >>

Adc ==
  << Power("adc", {"ADC", "GPIOA", "DMA1"}),
     Claim("adc", {PA(3), PA(6)}, "analog"),
     Channel("adc", 1, {"ADC"}),
     Bounded("adc"), Bounded("adc"),
     Finish("adc") >>

Uart ==
  << Power("uart", {"USART1", "GPIOB", "DMA1"}),
     Claim("uart", {PB(6)}, "alternate"),
     Write("uart", {"USART1"}),
     Bounded("uart"), Bounded("uart"),
     Channel("uart", 4, {}),
     Finish("uart") >>

Tick == << Power("tick", {"TIM6"}), Write("tick", {"TIM6"}) >>

Interrupts == << Unmask("irqs", ControlIrqs), Write("frame", {"EXTI"}) >>

-----------------------------------------------------------------------------
(* The capture channel; it interrupts on transfer errors too.                 *)
CaptureChannel ==
  [number   |-> 5,
   timer    |-> "TIM15",
   stopped  |-> {},
   receive  |-> {"EN", "TCIE", "TEIE", "MINC"},
   transmit |-> {"EN", "TCIE", "TEIE", "MINC", "DIR"},
   main_output |-> TRUE]

Handlers == [clears |-> {"EN"}, high |-> 2, low |-> 2, sets |-> {"EN"}]

Sense ==
  [line |-> [a |-> 22, b |-> 22, c |-> 22], lines |-> {22},
   rising |-> "rise", falling |-> "fall", reads |-> TRUE]

=============================================================================
