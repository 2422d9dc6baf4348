------------------------------- MODULE ChipG431 -------------------------------
(***************************************************************************)
(* What rm32_stm32/src/mcu_g431 gives to the shared drivers: the bring-up of   *)
(* its peripherals, its capture channel, the ends of its interrupt handlers,   *)
(* and its comparator.                                                      *)
(***************************************************************************)
EXTENDS BoardSteps

(* The flash latency, the PLL and the clock switch are waited for without a    *)
(* bound; then clocks, and TIM1 on the pins of the bridge.                    *)
Start ==
  << Write("core", {"FLASH"}), Endless("core"), Endless("core"), Endless("core"),
     Power("core", {"GPIOA", "GPIOB", "TIM1", "TIM15", "TIM16", "TIM2", "TIM6"}),
     Claim("bridge", BridgePins, "alternate"),
     Write("bridge", {"TIM1"}) >>

(* SYSCFG is given no clock. *)
Comparator ==
  << Power("comparator", {"GPIOA"}),
     Claim("comparator", {PA(0), PA(1), PA(3), PA(4), PA(5)}, "analog"),
     Write("comparator", {"COMP", "EXTI"}) >>

IntervalClock == Power("interval", {"TIM2"})
StepClock     == Power("step", {"TIM16"})

(* DMAMUX is given no clock. *)
Capture ==
  << Power("capture", {"TIM15", "DMA1", "GPIOA"}),
     Claim("capture", {PA(2)}, "alternate"),
     Write("capture", {"DMAMUX"}) >>

Adc ==
  << Power("adc", {"ADC12", "GPIOA", "DMA1"}),
     Claim("adc", {PA(4), PA(5)}, "analog"),
     Channel("adc", 2, {"ADC12", "DMAMUX"}),
     Bounded("adc"), Bounded("adc"),
     Finish("adc") >>

(* Only the acknowledge of the transmitter is waited for. *)
Uart ==
  << Power("uart", {"USART2", "GPIOB", "DMA1"}),
     Claim("uart", {PB(3)}, "alternate"),
     Write("uart", {"USART2"}),
     Bounded("uart"),
     Channel("uart", 3, {"DMAMUX"}),
     Finish("uart") >>

(* The clock of TIM6 is on since the start. *)
Tick == << Write("tick", {"TIM6"}) >>

Interrupts == << Unmask("irqs", ControlIrqs), Write("frame", {"EXTI"}) >>

-----------------------------------------------------------------------------
(* The capture channel; it interrupts on transfer errors too.                 *)
CaptureChannel ==
  [number   |-> 1,
   timer    |-> "TIM15",
   stopped  |-> {},
   receive  |-> {"EN", "TCIE", "TEIE", "MINC"},
   transmit |-> {"EN", "TCIE", "TEIE", "MINC", "DIR"},
   main_output |-> TRUE]

Handlers == [clears |-> {"EN"}, high |-> 2, low |-> 2, sets |-> {"EN"}]

(* Two comparators, on a line each; set_rising_edge programs the falling       *)
(* edge of the active line and set_falling_edge its rising edge.              *)
Sense ==
  [line |-> [a |-> 21, b |-> 22, c |-> 21], lines |-> {21, 22},
   rising |-> "fall", falling |-> "rise", reads |-> TRUE]

=============================================================================
