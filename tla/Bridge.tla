-------------------------------- MODULE Bridge --------------------------------
(***************************************************************************)
(* The power stage: six pins, each switched by its own register writes, that  *)
(* the startup tune, the commutation, the brake and the panic handler write   *)
(* one after the other (rm32_stm32/src/phase.rs, emergency.rs, panic.rs,      *)
(* rm32/src/commutation.rs, sounds.rs).                                      *)
(*                                                                         *)
(* Handlers do not interrupt each other, so a handler's writes are not mixed  *)
(* with another's; a panic of the main loop can be interrupted until it masks *)
(* the interrupts.  The driver is built without complementary PWM.            *)
(***************************************************************************)
EXTENDS Naturals, Sequences

CONSTANTS
  Enables,       \* bridge_enable of the board: driver chips with an enable pin
  BrakesOnStop   \* brake_on_stop = 2 of the settings

ASSUME BridgeAssumption == Enables \subseteq BOOLEAN /\ BrakesOnStop \subseteq BOOLEAN

Phases == {"A", "B", "C"}
Pins == Phases \X {"high", "low"}

VARIABLES
  bridge_enable,  \* of the board
  step_brakes,    \* brake_on_stop = 2
  pins,           \* mode and output bit of each pin
  todo,           \* register writes that the code in hand still makes
  pwm_on,         \* TIM1 has a compare value above zero
  com_step,       \* Commutation: step
  applied,        \* a step is on the bridge since it was last all off
  stage,          \* "tune", "run"; "portA", "portB", "halted" after a panic
  in_handler,     \* the panic is a handler's
  stepped_late    \* history: a step was written after the panic began

bridgeVars == <<bridge_enable, step_brakes, pins, todo, pwm_on, com_step,
                applied, stage, in_handler, stepped_late>>
panicVars == <<stage, in_handler, stepped_late>>
boardVars == <<bridge_enable, step_brakes>>

PinStates == [mode : {"analog", "output", "alternate"}, set : BOOLEAN]
Stages == {"tune", "run", "portA", "portB", "halted"}

BridgeTypeOK ==
  /\ bridge_enable \in Enables /\ step_brakes \in BrakesOnStop
  /\ pins \in [Pins -> PinStates]
  /\ todo \in Seq([pin : Pins, mode : {"same", "output", "alternate"},
                   bit : {"same", "set", "reset"}])
  /\ pwm_on \in BOOLEAN /\ applied \in BOOLEAN
  /\ com_step \in 1 .. 6
  /\ stage \in Stages
  /\ in_handler \in BOOLEAN /\ stepped_late \in BOOLEAN

-----------------------------------------------------------------------------
(* set_mode, set_high and set_low: a write to MODER, one to BSRR. *)
Mode(phase, side, mode) == [pin |-> <<phase, side>>, mode |-> mode, bit |-> "same"]
High(phase, side) == [pin |-> <<phase, side>>, mode |-> "same", bit |-> "set"]
Low(phase, side)  == [pin |-> <<phase, side>>, mode |-> "same", bit |-> "reset"]

Written(pin, w) ==
  [mode |-> IF w.mode = "same" THEN pin.mode ELSE w.mode,
   set  |-> IF w.bit = "same" THEN pin.set ELSE w.bit = "set"]

(* phase_pwm: with an enable pin nothing is written to it. *)
PhasePwm(p) ==
  (IF bridge_enable THEN <<>> ELSE <<Mode(p, "low", "output"), Low(p, "low")>>)
    \o <<Mode(p, "high", "alternate")>>

PhaseLow(p) ==
  <<Mode(p, "low", "output"), High(p, "low"),
    Mode(p, "high", "output"), Low(p, "high")>>

(* Mutant: the low side is left as it is. *)
PhaseFloatHigh(p) ==
  <<Mode(p, "low", "output"), Mode(p, "high", "output"), Low(p, "high")>>

PhaseFloat(p) ==
  <<Mode(p, "low", "output"), Low(p, "low"),
    Mode(p, "high", "output"), Low(p, "high")>>

(* com_step: the floating phase, the low one, the one with PWM. *)
StepPhases ==
  << <<"C", "B", "A">>, <<"A", "B", "C">>, <<"B", "A", "C">>,
     <<"C", "A", "B">>, <<"A", "C", "B">>, <<"B", "C", "A">> >>

ComStep(step) ==
  LET phases == StepPhases[step]
  IN  PhaseFloat(phases[1]) \o PhaseLow(phases[2]) \o PhasePwm(phases[3])

AllOff == PhaseFloat("A") \o PhaseFloat("B") \o PhaseFloat("C")

(* Mutant: the step is not brought round backwards. *)
NextStepBelowOne(step, forward) ==
  IF forward THEN (step % 6) + 1 ELSE step - 1

(* advance *)
NextStep(step, forward) ==
  IF forward THEN (step % 6) + 1 ELSE ((step + 4) % 6) + 1

-----------------------------------------------------------------------------
(* play_startup, with the interrupts off: its notes are steps at the volume of *)
(* the tune, and after the last one everything is off.  The compare value      *)
(* stays.                                                                   *)
Tune == ComStep(3) \o ComStep(5) \o ComStep(6) \o AllOff

(* Init binds the high pins to the timer; the low ones are as reset left them. *)
PinsAtReset ==
  [p \in Pins |-> [mode |-> IF p[2] = "high" THEN "alternate" ELSE "analog",
                   set |-> FALSE]]

BridgeInit ==
  /\ bridge_enable \in Enables /\ step_brakes \in BrakesOnStop
  /\ pins = PinsAtReset
  /\ todo = Tune
  /\ pwm_on = TRUE
  /\ com_step = 1
  /\ applied = FALSE
  /\ stage = "tune"
  /\ in_handler = FALSE
  /\ stepped_late = FALSE

EndTune ==
  /\ stage = "tune" /\ todo = <<>>
  /\ stage' = "run"
  /\ UNCHANGED <<boardVars, pins, todo, pwm_on, com_step, applied, in_handler,
                 stepped_late>>

(* The next register write of whoever writes. *)
WriteRegister ==
  /\ todo # <<>>
  /\ pins' = [pins EXCEPT ![Head(todo).pin] = Written(@, Head(todo))]
  /\ todo' = Tail(todo)
  /\ UNCHANGED <<boardVars, pwm_on, com_step, applied, panicVars>>

(* A handler can run: not while main or another one writes, not once the       *)
(* interrupts are masked, nor on top of a handler that panicked.             *)
HandlersRun ==
  /\ todo = <<>>
  /\ \/ stage = "run"
     \/ stage \in {"portA", "portB"} /\ ~in_handler

(* The tick that starts, the tick that polls, and the commutation timer. *)
Commutate ==
  /\ HandlersRun
  /\ \E forward \in BOOLEAN : com_step' = NextStep(com_step, forward)
  /\ todo' = ComStep(com_step')
  /\ applied' = TRUE
  /\ stepped_late' = (stage # "run")
  /\ UNCHANGED <<boardVars, pins, pwm_on, stage, in_handler>>

(* The tick of a motor that was let go, with brake_on_stop = 2: the            *)
(* commutation's own step is left as it was.                                *)
BrakeOnStep ==
  /\ HandlersRun
  /\ step_brakes
  /\ todo' = ComStep(2)
  /\ applied' = TRUE
  /\ stepped_late' = (stage # "run")
  /\ UNCHANGED <<boardVars, pins, pwm_on, com_step, stage, in_handler>>

(* The end of the tick: the duty, the drag brake's or zero. *)
SetDuty ==
  /\ HandlersRun
  /\ pwm_on' = ~pwm_on
  /\ UNCHANGED <<boardVars, pins, todo, com_step, applied, panicVars>>

Reset(S) == [p \in Pins |-> IF p \in S THEN [pins[p] EXCEPT !.set = FALSE] ELSE pins[p]]

PortB == {<<"A", "low">>, <<"B", "low">>}

(* emergency_off: port A ... *)
PanicPortA ==
  /\ stage = "run" /\ todo = <<>>
  /\ stage' = "portA"
  /\ in_handler' \in BOOLEAN
  /\ pins' = Reset(Pins \ PortB)
  /\ UNCHANGED <<boardVars, todo, pwm_on, com_step, applied, stepped_late>>

(* ... then port B ... *)
PanicPortB ==
  /\ stage = "portA" /\ todo = <<>>
  /\ stage' = "portB"
  /\ pins' = Reset(PortB)
  /\ UNCHANGED <<boardVars, todo, pwm_on, com_step, applied, in_handler, stepped_late>>

(* ... and only then are the interrupts masked. *)
Halt ==
  /\ stage = "portB" /\ todo = <<>>
  /\ stage' = "halted"
  /\ UNCHANGED <<boardVars, pins, todo, pwm_on, com_step, applied, in_handler,
                 stepped_late>>

WatchdogBarks ==
  /\ stage = "halted"
  /\ pins' = PinsAtReset
  /\ todo' = Tune
  /\ pwm_on' = TRUE /\ com_step' = 1 /\ applied' = FALSE /\ stage' = "tune"
  /\ in_handler' = FALSE /\ stepped_late' = FALSE
  /\ UNCHANGED boardVars

BridgeNext ==
  \/ EndTune \/ WriteRegister \/ Commutate \/ BrakeOnStep \/ SetDuty
  \/ PanicPortA \/ PanicPortB \/ Halt \/ WatchdogBarks

BridgeSpec == BridgeInit /\ [][BridgeNext]_bridgeVars

-----------------------------------------------------------------------------
(* What the transistors do.  With an enable pin the driver chip switches one   *)
(* side or the other, and none while it is not enabled.                      *)
Drives(pin) == pins[pin].mode = "output" /\ pins[pin].set

Switches(p) == pins[<<p, "high">>].mode = "alternate" /\ pwm_on

Sources(p) == Switches(p) /\ (bridge_enable => Drives(<<p, "low">>))

Sinks(p) == Drives(<<p, "low">>)

Shorted(p) == ~bridge_enable /\ Switches(p) /\ Sinks(p)

(* Both transistors of a phase conduct at no moment of a commutation, whatever *)
(* the direction does.  They do for some register writes where a step comes    *)
(* that does not follow the one on the bridge: in the startup tune, and with   *)
(* brake_on_stop = 2.  No short outlasts the step that makes it.              *)
NoLastingShort ==
  \A p \in Phases :
    Shorted(p) => todo # <<>> /\ (stage = "tune" \/ step_brakes)

(* Between two steps one phase is switched, another one is low and the third   *)
(* floats, so that the comparator has a phase to watch.                      *)
OnePhaseFloats ==
  stage = "run" /\ todo = <<>> /\ applied /\ ~bridge_enable =>
    \E p, q, r \in Phases :
      /\ p # q /\ q # r /\ r # p
      /\ pins[<<p, "high">>].mode = "alternate" /\ ~Sinks(p)
      /\ \A x \in {q, r} : pins[<<x, "high">>] = [mode |-> "output", set |-> FALSE]
      /\ Sinks(q) /\ ~Sinks(r)

(* After a panic no phase is low, so no current flows through the motor,       *)
(* although the phase that was switched still is.  It holds unless an          *)
(* interrupt writes a step after emergency_off and before the mask.          *)
OpenAfterPanic ==
  stage = "halted" /\ ~stepped_late => \A p \in Phases : ~Sinks(p)

(* The bridge never shorts for longer than a jump takes, always leaves the     *)
(* phase that is watched alone, and is opened by a panic (phase.rs:77-148,     *)
(* isr_logic.rs:36-57, emergency.rs:13-19, panic.rs:15-27).                  *)
BridgeSafe == NoLastingShort /\ OnePhaseFloats /\ OpenAfterPanic

=============================================================================
