-------------------------------- MODULE Esc --------------------------------
(***************************************************************************)
(* The control core of RM32: the main loop, the four interrupt handlers     *)
(* that touch the motor, and the atomics of SharedState through which they  *)
(* talk.                                                                    *)
(*                                                                         *)
(* The handlers share one NVIC priority, so each handler is one action.     *)
(* The main loop can be interrupted anywhere, so each of its actions makes  *)
(* at most one shared store; what it read before and uses later sits in a   *)
(* local variable (raw, zcRead).                                            *)
(*                                                                         *)
(* Time passes in TIM6 ticks.  Thresholds that count something are          *)
(* constants, so that TLC can check small ones and the proofs cover the     *)
(* values of rm32/src/constants.rs.  The configuration modelled is the      *)
(* unidirectional one (bi_direction = 0) without sine start.                *)
(***************************************************************************)
EXTENDS MotorMode, Naturals

CONSTANTS
  Throttles,            \* throttle values the transmitter sends
  Dshot,                \* DShot transmitter (else servo PWM)
  LinkMayDrop,          \* the radio link may go silent for good
  RotorTurns,           \* the rotor is free: zero-crosses can occur
  RotorMaySeize,        \* a free rotor may seize for good
  StuckRotorProtection, \* config.stuck_rotor_protection # 0
  LowVoltageCutOff,     \* config.low_voltage_cut_off = 1
  BrakeOnStop,          \* config.brake_on_stop = 1 and config.comp_pwm # 0
  ArmingTicks,          \* ARMING_TIMEOUT_TICKS
  SignalTimeoutDisarm,  \* SIGNAL_TIMEOUT_DISARM
  SignalTimeoutMax,     \* u16::MAX
  StallThreshold,       \* BEMF_STALL_TIMER_THRESHOLD, in ticks
  IntervalMax,          \* bound: the interval timer stops counting here
  ZcForAdvance,         \* MIN_ZC_FOR_ADVANCE
  ZcExit,               \* OLD_ROUTINE_EXIT_ZC
  ZcStartup,            \* STARTUP_ZC_BASE
  ZcTurning,            \* zero-crosses of a turning motor (100)
  ZcReliable,           \* zero-crosses of a reliably running motor (1000)
  ZcCap,                \* ZERO_CROSS_CAP
  TimeoutStrict,        \* BEMF_TIMEOUT_STRICT
  TimeoutLenient,       \* BEMF_TIMEOUT_LENIENT
  Latched,              \* BEMF_FAULT_LATCHED
  LvcThreshold,         \* LVC_NORMAL_THRESHOLD
  LvcModulus            \* 2^16: low_voltage_count is a u16

ASSUME FlagsAssumption ==
  /\ Dshot \in BOOLEAN
  /\ LinkMayDrop \in BOOLEAN
  /\ RotorTurns \in BOOLEAN
  /\ RotorMaySeize \in BOOLEAN
  /\ StuckRotorProtection \in BOOLEAN
  /\ LowVoltageCutOff \in BOOLEAN
  /\ BrakeOnStop \in BOOLEAN

ASSUME ThrottleAssumption == Throttles \subseteq Nat

ASSUME TimeAssumption ==
  /\ ArmingTicks \in Nat
  /\ SignalTimeoutDisarm \in Nat
  /\ SignalTimeoutMax \in Nat
  /\ SignalTimeoutDisarm < SignalTimeoutMax
  /\ StallThreshold \in Nat
  /\ IntervalMax \in Nat
  /\ StallThreshold < IntervalMax

ASSUME ZeroCrossAssumption ==
  /\ ZcForAdvance \in Nat
  /\ ZcExit \in Nat
  /\ ZcStartup \in Nat
  /\ ZcTurning \in Nat
  /\ ZcReliable \in Nat
  /\ ZcCap \in Nat

(* BEMF_FAULT_LATCHED lies beyond every count that stalls alone can reach. *)
ASSUME LatchAssumption ==
  /\ TimeoutStrict \in Nat
  /\ TimeoutLenient \in Nat
  /\ Latched \in Nat
  /\ TimeoutStrict <= TimeoutLenient
  /\ TimeoutLenient + 1 < Latched

ASSUME LvcAssumption ==
  /\ LvcThreshold \in Nat
  /\ LvcModulus \in Nat \ {0}

THROTTLE_MIN_SIGNAL   == 47
BEMF_LENIENT_THROTTLE == 150
LowThrottle           == 200   \* main_state.rs: raw_input < 200

VARIABLES
  \* SharedState
  mode,          \* motor_mode
  inputSet,      \* input_set
  newinput,      \* newinput
  adjusted,      \* adjusted_input
  signalTimeout, \* signal_timeout
  zc,            \* zero_crosses
  fast,          \* commutation_interval <= OLD_ROUTINE_EXIT_INTERVAL
  published,     \* interval_timer_count
  propBrake,     \* prop_brake_active
  \* state of the interrupt handlers and of the hardware they own
  armedTimeout,  \* armed_timeout_count
  zcFound,       \* bemf.zc_found
  edtOn,         \* cmd.extended_telemetry
  edtArmed,      \* edt_armed
  interval,      \* the 2 MHz interval timer
  compIrq,       \* the comparator interrupt is unmasked
  comTimer,      \* the commutation timer runs
  output,        \* what TIM1 drives: "off", "drive" or "brake"
  \* state of the main loop
  pc,            \* its next step
  raw,           \* newinput, as process_input or tick read it
  zcRead,        \* zero_crosses, as tick read it
  happened,      \* protection.bemf_timeout_happened
  timeout,       \* protection.bemf_timeout
  lvCount,       \* protection.low_voltage_count
  lvCutoff,      \* protection.low_voltage_cutoff
  cells,         \* cell_count > 0
  lastArmed,     \* last_armed
  brake,         \* input_state.prop_brake_active
  \* the environment
  link,          \* the transmitter still sends
  free           \* the rotor can turn

rotor  == <<zc, fast, published>>
lvc    == <<lvCount, lvCutoff, cells, lastArmed>>
shared == <<mode, inputSet, newinput, adjusted, signalTimeout, zc, fast,
            published, propBrake>>
isr    == <<armedTimeout, zcFound, edtOn, edtArmed, interval, compIrq,
            comTimer, output>>
main   == <<pc, raw, zcRead, happened, timeout, lvCount, lvCutoff,
            cells, lastArmed, brake>>
env    == <<link, free>>
vars   == <<shared, isr, main, env>>

Steps == {"read_input", "publish", "latch", "publish_brake", "observe",
          "clear", "stall", "stall_running", "stall_fallback", "stall_stop",
          "stall_slow", "stall_zero", "signal", "signal_armed", "disarm",
          "forget_input", "lvc", "lvc_disarm", "count_cells"}

Inputs == Throttles \cup {0}

TypeOK ==
  /\ mode \in Modes
  /\ inputSet \in BOOLEAN
  /\ newinput \in Inputs
  /\ adjusted \in Inputs
  /\ signalTimeout \in 0 .. SignalTimeoutMax
  /\ zc \in 0 .. ZcCap
  /\ fast \in BOOLEAN
  /\ published \in 0 .. IntervalMax
  /\ propBrake \in BOOLEAN
  /\ armedTimeout \in 0 .. ArmingTicks
  /\ zcFound \in BOOLEAN
  /\ edtOn \in BOOLEAN
  /\ edtArmed \in BOOLEAN
  /\ interval \in 0 .. IntervalMax
  /\ compIrq \in BOOLEAN
  /\ comTimer \in BOOLEAN
  /\ output \in {"off", "drive", "brake"}
  /\ pc \in Steps
  /\ raw \in Inputs
  /\ zcRead \in 0 .. ZcCap
  /\ happened \in 0 .. Latched
  /\ timeout \in {TimeoutStrict, TimeoutLenient}
  /\ lvCount \in 0 .. LvcModulus - 1
  /\ lvCutoff \in BOOLEAN
  /\ cells \in BOOLEAN
  /\ lastArmed \in BOOLEAN
  /\ brake \in BOOLEAN
  /\ link \in BOOLEAN
  /\ free \in BOOLEAN

Init ==
  /\ mode = "Disarmed"
  /\ inputSet = FALSE
  /\ newinput = 0
  /\ adjusted = 0
  /\ signalTimeout = 0
  /\ zc = 0
  /\ fast = FALSE
  /\ published = 0
  /\ propBrake = FALSE
  /\ armedTimeout = 0
  /\ zcFound = FALSE
  /\ edtOn = FALSE
  /\ edtArmed = FALSE
  /\ interval = 0
  /\ compIrq = FALSE
  /\ comTimer = FALSE
  /\ output = "off"
  /\ pc = "read_input"
  /\ raw = 0
  /\ zcRead = 0
  /\ happened = 0
  /\ timeout = TimeoutStrict
  /\ lvCount = 0
  /\ lvCutoff = FALSE
  /\ cells = FALSE
  /\ lastArmed = FALSE
  /\ brake = FALSE
  /\ link = TRUE
  /\ free = RotorTurns

(* Mutants: a counter without its cap, and one that wraps at it. *)
SaturatingUncapped(n, cap) == n + 1
SaturatingWraps(n, cap)    == (n + 1) % (cap + 1)

(* fetch_update with a cap: the value stays once it reaches it. *)
Saturating(n, cap) == IF n < cap THEN n + 1 ELSE n

-----------------------------------------------------------------------------
(***************************************************************************)
(* The main loop: process_input, then MainState::tick.                      *)
(***************************************************************************)

Goto(here, there) == pc = here /\ pc' = there

(* let newinput = shared.newinput() *)
ReadInput ==
  /\ Goto("read_input", "publish")
  /\ raw' = newinput
  /\ UNCHANGED <<shared, isr, zcRead, happened, timeout, lvc, brake, env>>

(* InputMode::Unidirectional publishes the stick position as it is. *)
PublishInput ==
  /\ Goto("publish", "latch")
  /\ adjusted' = raw
  /\ raw' = 0
  /\ UNCHANGED <<mode, inputSet, newinput, signalTimeout, rotor, propBrake,
                 isr, zcRead, happened, timeout, lvc, brake, env>>

(* Mutant: a fault already latched is not latched again. *)
StuckRotorOnce ==
  StuckRotorProtection /\ happened > timeout /\ happened # Latched

StuckRotor == StuckRotorProtection /\ happened > timeout

(* The latch of a stuck rotor zeroes the input and releases the brake. *)
LatchFault ==
  /\ StuckRotor
  /\ Goto("latch", "publish_brake")
  /\ adjusted' = 0
  /\ happened' = Latched
  /\ brake' = FALSE
  /\ UNCHANGED <<mode, inputSet, newinput, signalTimeout, rotor, propBrake,
                 isr, raw, zcRead, timeout, lvc, env>>

(* Without a fault the brake follows the input: on below the throttle of an *)
(* armed motor, off above it.                                               *)
SetBrake ==
  /\ ~StuckRotor
  /\ Goto("latch", "publish_brake")
  /\ brake' = IF BrakeOnStop /\ IsArmed(mode) /\ ~IsStepperSine(mode)
                 /\ adjusted < THROTTLE_MIN_SIGNAL
              THEN TRUE
              ELSE brake /\ adjusted < THROTTLE_MIN_SIGNAL
  /\ UNCHANGED <<shared, isr, raw, zcRead, happened, timeout, lvc, env>>

PublishBrake ==
  /\ Goto("publish_brake", "observe")
  /\ propBrake' = brake
  /\ UNCHANGED <<mode, inputSet, newinput, adjusted, signalTimeout, rotor,
                 isr, raw, zcRead, happened, timeout, lvc, brake, env>>

Observe ==
  /\ Goto("observe", "clear")
  /\ zcRead' = zc
  /\ UNCHANGED <<shared, isr, raw, happened, timeout, lvc, brake, env>>

(* A reliably running motor, or a released stick, clears the stall count. *)
Clears(input) ==
  \/ zcRead > ZcReliable
  \/ input = 0
  \/ zcRead > ZcTurning /\ input < LowThrottle

ClearStalls ==
  /\ Goto("clear", "stall")
  /\ raw' = newinput
  /\ happened' = IF Clears(newinput) THEN 0 ELSE happened
  /\ zcRead' = 0
  /\ UNCHANGED <<shared, isr, timeout, lvc, brake, env>>

(* The limit that the latch compares with, from the stick read before. *)
TimeoutFor(input) ==
  IF input < BEMF_LENIENT_THROTTLE THEN TimeoutLenient ELSE TimeoutStrict

(* Mutant: only an interrupt-driven motor can stall. *)
StallsWhenLocked == mode = "Running"

(* A stall is a long interval and a running motor, read in this order. *)
LongInterval == published > StallThreshold
Stalls       == IsRunning(mode)

SuspectStall ==
  /\ LongInterval
  /\ Goto("stall", "stall_running")
  /\ UNCHANGED <<shared, isr, raw, zcRead, happened, timeout, lvc, brake, env>>

(* No stall: on to the signal timeout. *)
NoStall ==
  /\ \/ Goto("stall", "signal") /\ ~LongInterval
     \/ Goto("stall_running", "signal") /\ ~Stalls
  /\ timeout' = TimeoutFor(raw)
  /\ raw' = 0
  /\ UNCHANGED <<shared, isr, zcRead, happened, lvc, brake, env>>

CountStall ==
  /\ Stalls
  /\ Goto("stall_running", "stall_fallback")
  /\ happened' = Saturating(happened, Latched)
  /\ UNCHANGED <<shared, isr, raw, zcRead, timeout, lvc, brake, env>>

StallFallback ==
  /\ Goto("stall_fallback", "stall_stop")
  /\ mode' = SetOldRoutine(mode)
  /\ UNCHANGED <<inputSet, newinput, adjusted, signalTimeout, rotor,
                 propBrake, isr, raw, zcRead, happened, timeout, lvc, brake,
                 env>>

(* A stalled motor without throttle stops for good ... *)
StallStop ==
  /\ adjusted < THROTTLE_MIN_SIGNAL
  /\ Goto("stall_stop", "stall_slow")
  /\ mode' = Transition(mode, "StopMotor")
  /\ UNCHANGED <<inputSet, newinput, adjusted, signalTimeout, rotor,
                 propBrake, isr, raw, zcRead, happened, timeout, lvc, brake,
                 env>>

(* ... and with throttle it keeps trying. *)
StallRetry ==
  /\ adjusted >= THROTTLE_MIN_SIGNAL
  /\ Goto("stall_stop", "stall_zero")
  /\ UNCHANGED <<shared, isr, raw, zcRead, happened, timeout, lvc, brake,
                 env>>

(* commutation_interval := DESYNC_RESET_INTERVAL *)
StallSlow ==
  /\ Goto("stall_slow", "stall_zero")
  /\ fast' = FALSE
  /\ UNCHANGED <<mode, inputSet, newinput, adjusted, signalTimeout, zc,
                 published, propBrake, isr, raw, zcRead, happened, timeout,
                 lvc, brake, env>>

StallZero ==
  /\ Goto("stall_zero", "signal")
  /\ zc' = 0
  /\ timeout' = TimeoutFor(raw)
  /\ raw' = 0
  /\ UNCHANGED <<mode, inputSet, newinput, adjusted, signalTimeout, fast,
                 published, propBrake, isr, zcRead, happened, lvc, brake,
                 env>>

(* The signal timeout and then armed: two reads again. *)
CheckSignal ==
  /\ pc = "signal"
  /\ pc' = IF signalTimeout > SignalTimeoutDisarm THEN "signal_armed"
                                                 ELSE "lvc"
  /\ UNCHANGED <<shared, isr, raw, zcRead, happened, timeout, lvc, brake, env>>

CheckArmed ==
  /\ pc = "signal_armed"
  /\ pc' = IF IsArmed(mode) THEN "disarm" ELSE "lvc"
  /\ UNCHANGED <<shared, isr, raw, zcRead, happened, timeout, lvc, brake, env>>

SignalDisarm ==
  /\ Goto("disarm", "forget_input")
  /\ mode' = Transition(mode, "Disarm")
  /\ UNCHANGED <<inputSet, newinput, adjusted, signalTimeout, rotor, propBrake,
                 isr, raw, zcRead, happened, timeout, lvc, brake, env>>

ForgetInput ==
  /\ Goto("forget_input", "lvc")
  /\ inputSet' = FALSE
  /\ UNCHANGED <<mode, newinput, adjusted, signalTimeout, rotor, propBrake,
                 isr, raw, zcRead, happened, timeout, lvc, brake, env>>

(* low_voltage_count += 1 wraps in the release build, which has no overflow *)
(* checks.  A measured voltage is only compared once the cells are known.   *)
LvCountAfter(low) ==
  IF low           THEN (lvCount + 1) % LvcModulus
  ELSE IF lvCutoff THEN lvCount
  ELSE 0

CheckVoltage(low) ==
  /\ LowVoltageCutOff
  /\ pc = "lvc"
  /\ low => cells
  /\ lvCount' = LvCountAfter(low)
  /\ IF lvCount' > LvcThreshold
     THEN lvCutoff' = TRUE /\ pc' = "lvc_disarm"
     ELSE lvCutoff' = lvCutoff /\ pc' = "count_cells"
  /\ UNCHANGED <<shared, isr, raw, zcRead, happened, timeout, cells, lastArmed,
                 brake, env>>

LvcDisarm ==
  /\ Goto("lvc_disarm", "count_cells")
  /\ mode' = Transition(mode, "Disarm")
  /\ UNCHANGED <<inputSet, newinput, adjusted, signalTimeout, rotor, propBrake,
                 isr, raw, zcRead, happened, timeout, lvc, brake, env>>

(* Cells are counted when the main loop first sees the motor armed; a       *)
(* voltage below that of one cell finds none.                               *)
CountCells(found) ==
  /\ LowVoltageCutOff
  /\ Goto("count_cells", "read_input")
  /\ found => IsArmed(mode) /\ ~lastArmed
  /\ cells' = (cells \/ found)
  /\ lastArmed' = IsArmed(mode)
  /\ UNCHANGED <<shared, isr, raw, zcRead, happened, timeout, lvCount, lvCutoff,
                 brake, env>>

SkipVoltage ==
  /\ ~LowVoltageCutOff
  /\ Goto("lvc", "read_input")
  /\ UNCHANGED <<shared, isr, raw, zcRead, happened, timeout, lvc, brake, env>>

MainLoop ==
  \/ ReadInput
  \/ PublishInput
  \/ LatchFault
  \/ SetBrake
  \/ PublishBrake
  \/ Observe
  \/ ClearStalls
  \/ SuspectStall
  \/ NoStall
  \/ CountStall
  \/ StallFallback
  \/ StallStop
  \/ StallRetry
  \/ StallSlow
  \/ StallZero
  \/ CheckSignal
  \/ CheckArmed
  \/ SignalDisarm
  \/ ForgetInput
  \/ \E low \in BOOLEAN : CheckVoltage(low)
  \/ LvcDisarm
  \/ \E found \in BOOLEAN : CountCells(found)
  \/ SkipVoltage

-----------------------------------------------------------------------------
(***************************************************************************)
(* The interrupt handlers.                                                  *)
(***************************************************************************)

(* TIM6, the control tick.  Throttle starts an armed motor; zero throttle   *)
(* counts towards arming; a polled zero-cross commutates at once or starts  *)
(* the commutation timer.  Whether the polled samples add up to a           *)
(* zero-cross is the rotor's choice (detected).                             *)
Starts == IsArmed(mode) /\ ~IsStepperSine(mode) /\ ~IsRunning(mode)
            /\ adjusted >= THROTTLE_MIN_SIGNAL

(* Mutant: only ticks with a fresh frame count towards arming. *)
ArmCountFresh ==
  IF inputSet /\ adjusted = 0 /\ signalTimeout = 0 THEN armedTimeout + 1 ELSE 0

ArmCount == IF inputSet /\ adjusted = 0 THEN armedTimeout + 1 ELSE 0

Arms == ~IsArmed(mode) /\ ArmCount > ArmingTicks

ModeAfterTick ==
  IF Starts    THEN Transition(mode, "StartMotor")
  ELSE IF Arms THEN Transition(mode, "Arm")
  ELSE mode

(* Mutant: polling goes on after the motor has locked. *)
PollsLocked == IsRunning(ModeAfterTick)

Polls == IsOldRoutine(ModeAfterTick)

(* Mutant: the duty reaches the bridge of any armed motor. *)
OutputForArmed(m) ==
  IF IsArmed(m)     THEN "drive"
  ELSE IF propBrake THEN "brake"
  ELSE "off"

OutputFor(m) ==
  IF IsArmed(m) /\ IsRunning(m) THEN "drive"
  ELSE IF propBrake             THEN "brake"
  ELSE "off"

Tick(detected) ==
  LET crossing == Polls /\ detected /\ ~zcFound
      atOnce   == crossing /\ zc < ZcForAdvance
  IN
  /\ detected => free
  /\ mode' = ModeAfterTick
  /\ armedTimeout' = IF IsArmed(mode) THEN armedTimeout
                     ELSE IF Arms     THEN 0
                     ELSE ArmCount
  /\ signalTimeout' = Saturating(signalTimeout, SignalTimeoutMax)
  /\ compIrq' = (compIrq /\ ~Polls)
  /\ interval' = IF crossing THEN 0 ELSE Saturating(interval, IntervalMax)
  /\ published' = interval'
  /\ IF crossing THEN fast' \in BOOLEAN ELSE fast' = fast
  /\ zc' = IF atOnce THEN Saturating(zc, ZcCap) ELSE zc
  /\ zcFound' = ((zcFound \/ crossing) /\ ~atOnce)
  /\ comTimer' = (comTimer \/ (crossing /\ ~atOnce))
  /\ output' = OutputFor(mode')
  /\ UNCHANGED <<inputSet, newinput, adjusted, propBrake, edtOn, edtArmed,
                 main, env>>

(* The commutation timer expires: the step is taken, and enough of them     *)
(* at speed lock the motor.                                                 *)
Locks == IsOldRoutine(mode) /\ zc' >= ZcExit /\ fast'

TimerExpired ==
  /\ comTimer
  /\ comTimer' = FALSE
  /\ IF IsOldRoutine(mode) THEN fast' = fast ELSE fast' \in BOOLEAN
  /\ compIrq' = TRUE
  /\ zcFound' = FALSE
  /\ zc' = Saturating(zc, ZcCap)
  /\ mode' = IF Locks THEN Transition(mode, "BemfLocked") ELSE mode
  /\ UNCHANGED <<inputSet, newinput, adjusted, signalTimeout, published,
                 propBrake, armedTimeout, edtOn, edtArmed, interval, output,
                 main, env>>

(* The comparator sees a zero-cross that survives the filter.  A rejected   *)
(* one changes nothing.                                                     *)
ZeroCross ==
  /\ free
  /\ compIrq
  /\ compIrq' = FALSE
  /\ interval' = 0
  /\ comTimer' = TRUE
  /\ UNCHANGED <<shared, armedTimeout, zcFound, edtOn, edtArmed, output, main,
                 env>>

(* The first frames only identify the protocol. *)
InputDetected ==
  /\ link
  /\ ~inputSet
  /\ inputSet' = TRUE
  /\ UNCHANGED <<mode, newinput, adjusted, signalTimeout, rotor, propBrake, isr,
                 main, env>>

(* A DShot throttle frame: ignored unless zero, until EDT arms the gate. *)
AcceptsThrottle(value) == edtArmed \/ value = 0

DshotThrottle(value) ==
  /\ link /\ Dshot /\ inputSet
  /\ newinput' = IF AcceptsThrottle(value) THEN value ELSE newinput
  /\ signalTimeout' = 0
  /\ UNCHANGED <<mode, inputSet, adjusted, rotor, propBrake, isr, main, env>>

(* A DShot command: only the sixth repetition has an effect, and only on an *)
(* armed motor at rest.  EDT_ENABLE arms the gate when telemetry was on.    *)
DshotCommand(effect) ==
  /\ link /\ Dshot /\ inputSet
  /\ effect # "none" => IsArmed(mode) /\ ~IsRunning(mode)
  /\ newinput' = 0
  /\ signalTimeout' = 0
  /\ edtArmed' = (edtArmed \/ (effect = "EDT_ENABLE" /\ edtOn))
  /\ edtOn' = CASE effect = "EDT_ENABLE"  -> TRUE
                [] effect = "EDT_DISABLE" -> FALSE
                [] OTHER                  -> edtOn
  /\ UNCHANGED <<mode, inputSet, adjusted, rotor, propBrake, armedTimeout,
                 zcFound, interval, compIrq, comTimer, output, main, env>>

ServoThrottle(value) ==
  /\ link /\ ~Dshot /\ inputSet
  /\ newinput' = value
  /\ signalTimeout' = 0
  /\ UNCHANGED <<mode, inputSet, adjusted, rotor, propBrake, isr, main, env>>

(* A servo pulse that the decoder spends on the calibration of its range.   *)
(* Which pulses these are is the decoder's own state; here any may be one.  *)
ServoCalibrating ==
  /\ link /\ ~Dshot /\ inputSet
  /\ signalTimeout' = 0
  /\ UNCHANGED <<mode, inputSet, newinput, adjusted, rotor, propBrake, isr,
                 main, env>>

Frame ==
  \/ InputDetected
  \/ \E value \in Throttles : DshotThrottle(value)
  \/ \E effect \in {"none", "EDT_ENABLE", "EDT_DISABLE"} : DshotCommand(effect)
  \/ \E value \in Throttles : ServoThrottle(value)
  \/ ServoCalibrating

(* The environment: the transmitter falls silent, the rotor seizes. *)
LinkDrops ==
  /\ LinkMayDrop
  /\ link
  /\ link' = FALSE
  /\ UNCHANGED <<shared, isr, main, free>>

RotorSeizes ==
  /\ RotorMaySeize
  /\ free
  /\ free' = FALSE
  /\ UNCHANGED <<shared, isr, main, link>>

Next ==
  \/ MainLoop
  \/ \E detected \in BOOLEAN : Tick(detected)
  \/ TimerExpired
  \/ ZeroCross
  \/ Frame
  \/ LinkDrops
  \/ RotorSeizes

(* The main loop runs whenever no handler does (every handler returns), and *)
(* the timers' interrupts always come.  The comparator and the transmitter  *)
(* owe nothing.                                                             *)
Fairness ==
  /\ WF_vars(MainLoop)
  /\ WF_vars(\E detected \in BOOLEAN : Tick(detected))
  /\ WF_vars(TimerExpired)

Spec == Init /\ [][Next]_vars /\ Fairness

-----------------------------------------------------------------------------
(***************************************************************************)
(* Properties.                                                              *)
(***************************************************************************)

(* A motor in interrupt-driven mode always has its next commutation under   *)
(* way: the comparator may interrupt or the commutation timer runs.  And a  *)
(* zero-cross that polling has consumed has the timer running, or polling   *)
(* would wait for ever.  (TIM6, TIM14 and COMP hand each other the step.)   *)
CommutationUnderWay ==
  /\ mode = "Running" => compIrq \/ comTimer
  /\ zcFound => comTimer

(* A latched stuck-rotor fault keeps the input at zero, whatever the stick  *)
(* does, from one pass of process_input to the next: except between its     *)
(* first store, of the stick position, and its second, of the zero.         *)
LatchHoldsInput ==
  StuckRotorProtection /\ happened = Latched /\ pc # "latch" => adjusted = 0

(* A transmitter that falls silent finds the motor disarmed for good.       *)
SilenceDisarms == ~link ~> [](mode = "Disarmed")

(* A seized rotor whose stick is released comes to rest: stall detection    *)
(* stops it, from whatever mode and commutation state it was in.            *)
SeizedRotorStops ==
  <>[](~free /\ newinput = 0) => <>[]~IsRunning(mode)

(* The latch of a seized rotor stops the motor while the stick is held.     *)
LatchStops == happened = Latched ~> (~IsRunning(mode) \/ happened # Latched)

(* The controller keeps the contract of MotorLifecycle.                     *)
Lifecycle == INSTANCE MotorLifecycle
               WITH phase <- mode, driven <- (output = "drive")

KeepsLifecycle == Lifecycle!Spec

-----------------------------------------------------------------------------
(***************************************************************************)
(* Statements of the repository that the code does not keep.                *)
(***************************************************************************)

(* rm32/src/control/input.rs:157: the latched fault "stops motor".  Yet a   *)
(* stopped motor can start while the fault is latched.                      *)
LatchedMotorStaysStopped ==
  [][happened = Latched /\ ~IsRunning(mode) => ~IsRunning(mode')]_vars

(* rm32/src/constants.rs:87: a start is a "startup phase", with its limits  *)
(* on the duty, until enough zero-crosses are counted.                      *)
StartsInStartupPhase ==
  [][~IsRunning(mode) /\ IsRunning(mode') => zc < ZcStartup]_vars

(* tests/blackbox/vectors/low_voltage_cutoff.txt:2: "sustained low voltage  *)
(* disarms".  Once cut off, every check of the voltage disarms.             *)
CutoffDisarms ==
  [][lvCutoff /\ pc = "lvc" /\ pc' # "lvc" => pc' = "lvc_disarm"]_vars

=============================================================================
