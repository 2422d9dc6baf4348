# RM32: a verification project

RM32 is firmware for brushless motor controllers (ESCs): a Rust core crate
(`rm32/`) and a crate for four STM32 chips (`rm32_stm32/`).  This directory
models the path from the captured signal to the power stage: what decides
whether, when, how hard and which way the motor is driven, the settings behind
it, and the interrupts through which all of it meets.  TLC checks the models on
small instances; TLAPS proves their safety properties for every value of
the constants.

Paths below are relative to `src/`.

## 1. The system

### Components

| Component | Source | State | Operations |
|---|---|---|---|
| Motor mode automaton | `rm32/src/motor_mode.rs` | one byte: Disarmed, Armed, StepperSine, OldRoutine, Running | `transition(event)` |
| Shared atomics | `rm32/src/shared_state.rs` | the mode byte, `input_set`, `newinput`, `adjusted_input`, `forward`, `signal_timeout`, `zero_crosses`, `commutation_interval`, `interval_timer_count`, `prop_brake_active`, flags, measurements | load, store, compare-and-swap per field; nothing joins two fields |
| Control tick (TIM6) | `rm32/src/control/isr_logic.rs` `ten_khz_tick` | arming count, duty, BEMF sample counters | start, arm, poll the comparator, ramp, drive or brake the bridge |
| Commutation timer (TIM14/16) | same, `commutation_timer_expired` | wait time, step | commutate, count, lock to interrupt-driven mode |
| Comparator (COMP) | same, `bemf_zero_cross` | interval timer | start the commutation timer |
| Duty and BEMF state | `rm32/src/control/state.rs` | last duty, limits; sample counters, interval, advance | setpoint, ramp, ceilings; sample, detect, measure, wait |
| Controllers | `rm32/src/pid.rs`, `PidState` in `state.rs` | integral, last error, boost, ceiling | calculate, for stall protection and current limit |
| Frame handler (EXTI) | `rm32_stm32/src/isr_handlers.rs` | decoder, commands, EDT gate, `IsrState.forward` | detect, throttle, command, servo pulse |
| Capture channel (DMA) | `capture_generic.rs`, `dma_buf.rs`, `mcu_*/input_capture.rs`, `mcu_*/interrupts.rs` | DMA and timer registers, direction of the channel, two buffers inside the driver | capture, transmit a reply, raise the frame interrupt |
| Comparator registers | `comparator.rs`, `comp_init.rs`, `mcu_*/comparator.rs` | input, selected edges, mask and pending bits of EXTI | `change_input`, mask, enable, read the level |
| Board bring-up | `mcu_*/init.rs`, `system.rs`, `adc.rs`, `telemetry_uart.rs`, `regs.rs`, `adc_generic.rs` | clock gates, pin modes, DMA channels, NVIC | `init::init` of each chip, then `main` |
| Frame transfer, calibration | `rm32/src/transfer.rs`, `servo.rs`, `signal.rs` | frame window, `zero_input_count`, calibration counts and ends | average the window, enter and finish calibration, throttle |
| Frame codec | `rm32/src/dshot.rs` | none | decode a frame, encode a reply |
| Reply scheduler | `rm32/src/edt.rs` | counter, pending announcements | choose what a reply carries |
| DShot commands | `rm32/src/dshot_commands.rs` | repetition count, last command | count, edit settings, raise requests |
| Input processing | `rm32/src/control/input.rs`, `input_mapping.rs`, `system.rs` | brake, return-to-centre grant, mode | map the stick, flip the direction, latch a fault, brake |
| Main state | `rm32/src/main_state.rs` | protection counters, cell count, controllers, filters | stall detection, signal timeout, low-voltage cutoff, limits, telemetry |
| Main loop | `rm32_stm32/src/bin/main.rs` | configuration | boot, `tick_input`, `tick_main`, sounds, LED, settings save |
| Settings | `rm32/src/config.rs`, `rm32_stm32/src/flash.rs` | a page of flash, `main_state.config`, the interrupt side's copy | load, validate, derive limits, erase, program |
| Hand-over of the ISR state | `rm32_stm32/src/isr.rs` | `ISR_STATE` | `with_isr_state` before the first interrupt, `take_isr_state` at it |
| Power stage | `phase.rs`, `commutation.rs`, `emergency.rs`, `panic.rs`, `sounds.rs` | modes and levels of six pins, step | write a step, float, turn everything off |
| Interrupt priorities | `mcu_*/chip.rs` | NVIC priorities | set once; on L431 changed by the main loop |
| Telemetry packets, sine, LED, CRSF, other builds, filters, harness | the rest | | see section 8 |

`PROJECT.json` lists every component with its status.

### Interaction

There is one thread (the main loop) and a set of interrupt handlers that
interrupt it anywhere.  On G071, F051 and G431 all handlers have the same NVIC
priority, so none interrupts another; on L431 the main loop exchanges two levels
that the chip takes for one (`Priorities`).  They share only `SharedState`, a struct
of independent atomics.  Every decision that needs two of them (armed *and* the
timeout; throttle *and* direction; interval *and* running) is made from reads at
different moments, and every reaction that changes two of them is visible half
done.  The handlers also share hardware: the tick masks the comparator
interrupt, the timer unmasks it, the comparator starts the timer; one DMA channel
receives frames and transmits replies, and interrupts at the end of both.

The settings exist three times: in flash, in `main_state.config`, and in the
interrupt side's state, which DShot commands edit.

### What is hard

- Every pair of accesses of the main loop can have any number of handlers
  between them.  The tests and the harness run main loop and tick in turn, in
  one thread, so they never see these orders.
- Commutation is a relay of one-shot hardware (masks, a one-shot timer) run by
  three handlers.  A dropped baton leaves a powered motor standing.
- Counters that grow for as long as a condition lasts: signal timeout, low
  voltage, stalls, zero-crosses.  Some are capped, one is not.
- What a disarmed motor leaves behind: counts, intervals, a brake, a grant.
- `forward` has three writers and the flip is a load and a store.
- Power may be lost at any unit of a save, and a boot looks at one byte of the
  page.
- Calibration, frame window and repetition counts are protocols over many
  frames; each can be left half way and resumed from what it left behind.
- 16-bit and 8-bit words that go round: intervals, waits, sample counters,
  calibration counts.
- The bridge is switched by single register writes: between two of them both
  transistors of a phase may be on.
- Each chip brings up the same peripherals with code of its own: a clock that is
  missing on one chip, a pin taken twice, a wait that never ends shows on that
  board only.
- The DMA channel is armed by a driver that is moved afterwards, and re-armed by
  two interrupts while the motor arms and disarms in between.
- Which edge the comparator waits for depends on step, direction of rotation and
  the polarity of the chip's comparator.

### What makes each component correct

- Mode automaton and bridge drive: the phases follow the diagram of
  `motor_mode.rs` and the bridge drives only from a start on (`KeepsLifecycle`).
- Commutation relay: in interrupt-driven mode the next step is always under way
  (`CommutationUnderWay`); polling takes a crossing only after enough consistent
  samples (`CrossingsConfirmed`); a step is taken for a crossing, and where polling
  may overtake the comparator's timer, a crossing is stepped for twice only during
  the first crossings after a fallback, a bounded number of times
  (`StepsForCrossing`; both are `CrossingsCounted`).
- Interval and wait: no 16-bit difference goes round (`DelayNeverWraps`) and the
  interval follows the rotor (`IntervalFollowsPace`).
- Signal timeout, arming: silence disarms for good (`SilenceDisarms`); zero
  throttle arms (`ZeroThrottleAlwaysArms`).
- Stall detection: a seized rotor stops when the stick is released
  (`SeizedRotorStops`), or by the latch when protection is on
  (`LatchHoldsInput`, `LatchStops`).
- Direction: the throttle is for the direction the motor has, never beside the
  brake (`StickObeyed`), and a held stick gets its direction (`StickDecides`).
- Duty: a start is soft whatever the last run left (`SoftStart`), no panic of
  `clamp` at a start (`StartsWithoutPanic`), the duty comes to rest where
  throttle, boost and ceiling put it (`DutySettles`).
- Controllers: what they took they give back (`LimitsSettle`), in 32 bits
  (`PidFitsWidth`, proved).
- Settings: handlers find their state (`HandlersFindState`), a start uses what
  was loaded, also after a torn save (`StartsFromFlash`), saves are served
  (`SaveServed`) and survive power loss as far as the format allows
  (`KeepsStore`).
- Calibration: never of an armed motor, the ends the right way round
  (`CalibrationSafe`), a held stick calibrates in the end
  (`HeldStickCalibrates`).
- Frames: a window that admits its transmitter (`WindowAdmitsSteady`), pulses and
  not pauses (`ServoAligns`), every word decoded and every reply readable
  (`CodesRoundTrip`).
- Replies: a frame is processed once, or twice where it is answered, and
  extended telemetry follows the commands (`RepliesFollowFrames`) and sends every
  kind (`EveryKindSent`).
- Capture channel: what a running channel does fits its buffer, its timer and its
  direction (`TransfersFit`); it goes on listening (`ReceiverListens`).
- Comparator: unmasked, it watches the phase that floats, at the edge that phase
  makes (`WatchesFloatingPhase`), and a crossing it saw is taken
  (`CrossingTaken`).
- Board: nothing is used before it has its clock, its pin and its channel
  (`BoardReady`), and the bring-up ends (`BoardComesUp`).
- Handlers exclude each other, on the L431 too (`OneHandlerAtATime`).
- Power stage: no lasting short, one phase floats, a panic opens it
  (`BridgeSafe`).

## 2. Modules

| Module | Kind | What it is |
|---|---|---|
| `MotorMode` | operators | the transition table and `set_old_routine` |
| `MotorLifecycle` | abstract specification | phases of the motor and when the bridge drives it |
| `Esc` | component | main loop, TIM6, TIM14, COMP, EXTI in unidirectional mode |
| `EscBenches` | composition | `Esc` under more than one set of constants |
| `EscProofs` | proofs | theorems about `Esc` |
| `InputMapping` | operators | the four bidirectional mappings |
| `Direction` | component | `process_input` in bidirectional modes against the other writers of `forward` |
| `DirectionProofs` | proofs | theorems about `InputMapping` and `Direction` |
| `Config`, `Commands` | operators | the settings record and what is derived from it; the command processor |
| `SettingsStore` | abstract specification | what the firmware makes of its settings |
| `Settings` | component | boot, hand-over, commands, save, power loss |
| `SettingsProofs` | proofs | theorems about `Settings`, with its refinement of `SettingsStore` |
| `Numbers` | operators | clamps, truncating division, interpolation |
| `Servo`, `Transfer` | operators | calibration of the ends, servo throttle; frame window and entry into calibration |
| `Link` | component | stick, frame handler, main loop and arming around them |
| `Capture` | component | which edges are taken for a servo pulse |
| `Edt`, `Replies` | operators, component | what a reply carries; the turn of the DMA channel |
| `Duty`, `Power` | operators, component | setpoint, ramp, ceilings; the tick and what changes between two ticks |
| `Bemf` | operators | samples, intervals, waits |
| `ZeroCross` | component | who takes a step for which crossing |
| `Timing` | component | interval and wait, in 16 bits |
| `Pid`, `Limits` | operators, component | the stall and the current controller |
| `Codec` | component | frame and reply codec, for every word |
| `CodecProofs` | proofs | theorems about `Codec` |
| `Priorities` | component | the priorities of the L431 |
| `SignalProofs` | proofs | theorems about `Link`, `Replies` and `Priorities` |
| `Bridge` | component | register writes of the power stage |
| `BridgeProofs` | proofs | theorems about `Bridge` |
| `BoardSteps`; `ChipF051`, `ChipG071`, `ChipL431`, `ChipG431` | operators | the kinds of bring-up steps; what each chip's directory contains |
| `Board` | component | the bring-up of one of the four boards |
| `Receiver` | component | registers and interrupts of the capture channel |
| `Comparators` | component | registers and interrupts of the comparator, beside the steps of `Bridge` |
| `Drive` | composition | `Direction`, `Power`, `ZeroCross`, `Timing`, `Limits` |
| `DriveProofs` | proofs | theorems about `ZeroCross`, `Timing`, `Power` and `Limits`, and what is proved of all parts under the composition |
| `Device` | composition | `Link`, `Capture`, `Replies`, `Codec`, `Priorities`, `Board`, `Receiver`, `Bridge`, `Comparators` |
| `DeviceProofs` | proofs | theorems about `Receiver`, `Comparators`, `Capture` and `Board`, and what is proved of all parts under `Device` |

The configurations give the constants their values; all constants are numbers,
sets of numbers, strings or Booleans, so the modules are checked directly.
`Drive.cfg` and `Device.cfg` name the benches to run: taking all but one away
checks that part alone.

### Esc

One action of `MainLoop` per access of the main loop to a shared atomic that a
handler also touches, chained by `pc` in the order of the code.  What was read
and is used later is a variable (`raw`, `zcRead`); it is reset where the code
drops it, so that states do not differ in dead values.  Several loads may share
an action with one store when they cannot be told apart from loads at one
moment: `ClearStalls` reads `newinput` and changes only private state.

One action per handler: `Tick`, `TimerExpired`, `ZeroCross`, and `Frame`, whose
disjuncts are the branches of the `match` in `handle_exti_frame`.

Correspondence of state: `mode` is the mode byte; `fast` says that
`commutation_interval` is at most `OLD_ROUTINE_EXIT_INTERVAL`; `interval` is the
hardware interval timer in ticks and `published` its copy in `SharedState`;
`compIrq` is the comparator's mask; `comTimer` the one-shot timer; `output` what
TIM1 drives.  `happened`, `timeout`, `lvCount`, `lvCutoff` are the protection
counters; `cells` says the cells were counted.  `link` and `free` belong to the
environment.

Abstractions: comparator samples and interval arithmetic are choices (a polled
zero-cross may be found at any tick when the rotor is free; a new interval may
be fast or slow); a duty is only "drive"; a DShot command has one of three
effects or none, which stands for the six repetitions.  Measurements, duty
ceilings and the PWM period are left out: no guard of the model reads them.

Configuration modelled: `bi_direction = 0`, `use_sine_start = 0`,
`brake_on_stop` 0 or 1, speed control off (the firmware never calls `set_use_speed_control`), stuck-rotor
protection and low-voltage cutoff on or off by constant.

### Direction

The same style, for `process_input` in its four bidirectional modes.  What
`Esc` models in detail (stall, disarm, commutation) is here a choice of the
outcome (`FinishPass`, `Tick(arms)`, `TimerExpired(locks)`), so `Direction`
allows every order `Esc` does and more.  `slow` and `lowDuty` stand for the two
comparisons of the speed gate.  `config` is chosen at `Init`: speed-gated or
RC-car, `dir_reversed`, kind of transmitter, commands or none.  The mapping is
exact: `InputMapping` computes the published throttle.  `braked` is a history
variable for one property.  The EDT gate is left out: it only withholds
throttles, and a transmitter may do the same.

### MotorLifecycle

States what the controller promises about power in two variables, `phase` and
`driven`.  `Esc` implements it with `phase <- mode` and
`driven <- (output = "drive")`: `KeepsLifecycle` checks it with its liveness (a
bridge that drives a motor at rest is refreshed), `LifecycleKept` proves its
safety part.

### Settings, Config, Commands, SettingsStore

The main loop's accesses are chained by `pc` from power-up on: start
the timers, place the interrupt state, load the page, give the settings
(`with_isr_state`), enable interrupts, then the loop with its telemetry request and its save
(clear the flag, copy back, erase, program unit by unit).  Handlers are single
actions between any two of them, as soon as interrupts are enabled; `masked` is
PRIMASK, and `entryMasked` says how the firmware was entered.  `slot` is
`ISR_STATE`.  `DshotCommand` runs the command processor of `Commands` on the
interrupt side's settings.  `PowerLoss` may come at any step and keeps only the
page and the number of its units that are programmed.  `owed`, `missed`,
`directed` and `saved` are history variables.  A configuration has the four bytes
that the properties tell apart: version, one field that later versions added,
and the two that commands edit.

`SettingsStore` says the same without loop, handlers and flash units: a store
that is whole, blank or torn, and a live configuration that only a power-up
changes.  `Settings` implements it (`KeepsStore`, `ImplementsStore`).

### Link, Servo, Transfer

`HearFrame` is the frame handler on one frame of the protocol in force: frame
window, calibration, throttle.  `PublishThrottle` is the main loop, at most `Lag`
frames behind; `ArmingTick` counts zero throttle; `LoseSignal` disarms.  The pilot
moves the stick at most `MaxMoves` times.  `strayed` and `disturbed` are history:
the stick left the high end during its calibration, a frame was measured wrong.

### Capture, Replies, Edt

`Capture` follows the line edge by edge: `edges_left` is the DMA counter, and
`EdgesWanted` what `receive_dshot_dma` asks for; `resyncs` tells the chips apart
that ask for three edges on a high line.  `Replies` follows the channel from
frame to frame: `out_put` is its direction, `irq` the interrupt that is pending,
`buffered` the frame in the buffer.  Arming in between is `ReplyArms`.

### Power, Duty

`PowerTick` is the duty part of `ten_khz_tick` in its order: setpoint, start, ramp,
ceilings.  The other actions are what the main loop and the handlers change
between two ticks.  `motor = "halted"` is the panic of `clamp`.  The limits come
from the settings through `Config`, as `derive_motor_config` computes them.

### ZeroCross, Timing, Bemf

`ZeroCross` has the four parties of the relay (`Poll`, `CompFires`,
`TimerExpires`, `FallBack`) on the sample counters.  A fallback is two stores of the
main loop with the handlers in between, in one order at a stall and in the other
at a flip of the stick; `to_store` holds the one that is due.  Four variables are
there for the properties only: `fresh` (a crossing was found that no step was
taken for), `tally` and `found_with` (the exact numbers of samples for and against
a crossing), `doubled` (steps of the timer for no crossing).  `Timing` has the
same handlers on the interval: each measures the rotor's pace, and averages.
`Esc` has the same relay with the samples as choices, together with the mode
and the main loop; here the motor runs all the time.

### Limits, Pid

`StallTick` and `CurrentTick` are the two controllers of a pass of
`MainState::tick`, each with its own read of whether the motor runs; the tick
may start or stop it in between (`MotorChanges`).  `Power` takes boost and ceiling
as choices, so it holds for whatever `Limits` produces.

### Codec, Priorities, Bridge

`Codec` steps through all words: `CodesRoundTrip` sends each as a transmitter
would (both polarities, several bit times), decodes it with `DecodeFrame`, and
reads back the reply that `GcrBits` encodes.  The transmitter is external.
`Priorities` models the NVIC (`Raise`, `Enter`, `Leave`) under the three stores of
`adjust_irq_priorities`.  `Bridge` keeps the register writes still to be made in
`todo`, one action per write; what the pins drive is computed from their modes
and bits (`Switches`, `Sources`, `Sinks`).

### Board, BoardSteps, the chips

A bring-up is a sequence of steps, in the order of the code: clock gates, writes
to a block, pin modes, DMA channels, interrupt masks, waits.  Each chip's module
says what its `init.rs`, `system.rs`, `adc.rs`, `telemetry_uart.rs`,
`comparator.rs` and `input_capture.rs` contribute, and `Board` puts them together
as `init::init` and `main` call them.  A wait with a count may fail (`GiveUp`):
the rest of that part is skipped, the `Result` is dropped, and the firmware goes
on.  Values written to a configuration register are left out; which block, pin
and channel is written is kept.

### Receiver

The DMA channel's control, address and count registers, the timer's use, and the
driver's `out_put`.  `place` is where the driver lies, because its buffers are
fields of it: `Address` records the place of the moment in which the address
register was written.  The interrupt wrappers differ per chip (`Handlers` of the
chip modules): what they clear, how many edges they ask for.  `Replies` has the
same turn of the channel with what the replies carry; `Receiver` has the
registers.

### Comparators

The step, the edge selection, mask and pending bits, and the comparator's output.
The four handlers that touch them are actions; `OutputChanges` is the phase, free
to cross and bounce at any time.  `OtherChanges` is the second comparator of the
G431.  The phases of a step are those of `Bridge`, so that what is watched is
compared with what `phase.rs` leaves floating.

### Drive, Device, EscBenches

The parts of `Drive` share no variable, and of `Device` only the chip and the
step table.  They stand on benches: a behaviour runs the part that `bench` names
and leaves the others at rest in an initial state, so that one run checks the
sum and not the product of their state spaces.  A property of one part is the
same statement under the composition as alone.  `EscBenches` runs `Esc` on the
bench "own" under the constants of the configuration (a rotor that may seize in
`EscRotor.cfg`; stuck-rotor protection and low-voltage cut-off with a rotor that
does not turn in `EscBenches.cfg`) and on the bench "arming" under another set
(DShot with the EDT gate, brake on stop, a link that may drop).

## 3. Runs

| Run | Question | Result |
|---|---|---|
| `EscRotor` | servo ESC, a rotor that turns and may seize: `TypeOK`, `CommutationUnderWay`, `SeizedRotorStops`, `KeepsLifecycle` | hold |
| `EscBenches` | a seized rotor with three throttles on both sides of the lenient limit: `LatchHoldsInput`, `LatchStops`; a link that may drop: `SilenceDisarms`, `ZeroThrottleAlwaysArms` | hold |
| `Settings` | every entry, pages of this and of an earlier version, power loss at any step: `TypeOK`, `HandlersFindState`, `StartsFromFlash`, `RequestKept`, `SaveServed`, `KeepsStore` | hold |
| `Drive` | the control path from the direction to the limits: 10 properties, below | hold |
| `Device` | signal line, hardware set-up, bridge, comparator: 16 properties, below | hold |
| `EscLatchRestart` | `LatchedMotorStaysStopped` | violated |
| `EscStaleStart` | `StartsInStartupPhase` | violated |
| `EscLowVoltage` | `CutoffDisarms` | violated |
| `DirectionCommand` | `DirectionGated` | violated |
| `DirectionHandshake` | `BrakesBeforeReversing` | violated |
| `SettingsSave` | `SaveCopiesCommanded` | violated |
| `FrameBuffer` | `FramesReachHandler` | violated |

Deadlock is checked in every run.

By bench:

| Run | Bench | Properties |
|---|---|---|
| `Drive` | all | `DriveTypeOK` |
| | direction | `StickObeyed` (`DrivesTowardsStick`, `BrakeCutsThrottle`), `StickDecides` |
| | power | `StartsWithoutPanic`, `SoftStart`, `DutySettles` |
| | crossings | `CrossingsCounted` (`CrossingsConfirmed`, `StepsForCrossing`) |
| | timing | `DelayNeverWraps`, `IntervalFollowsPace` |
| | limits | `LimitsSettle` |
| `Device` | all | `DeviceTypeOK` |
| | link | `CalibrationSafe` (`CalibratesOnlyUnarmed`, `SpanInOrder`), `WindowAdmitsSteady`, `HeldStickCalibrates` |
| | capture | `ServoAligns` |
| | replies | `RepliesFollowFrames` (`FrameUses`, `EdtFollowsCommands`), `EveryKindSent` |
| | codec | `CodesRoundTrip` |
| | priorities | `OneHandlerAtATime` |
| | board | `BoardReady`, `BoardComesUp` |
| | receiver | `TransfersFit`, `ReceiverListens` |
| | bridge | `BridgeSafe` |
| | comparators | `WatchesFloatingPhase`, `CrossingTaken` |

Some of them say where the code's promise ends, because TLC found the end:
`StartsWithoutPanic` allows the panic of boards with startup boost and settings
beyond its room; `DutySettles` says that a boost above a ramp step runs to the
ceiling; `CrossingsConfirmed` tolerates one contrary sample more, for the count
that goes round; `StepsForCrossing` allows the timer a second step for a crossing
that polling has stepped for, in the polling routine, and bounds how often it
happens per fallback ((`MIN_ZC_FOR_ADVANCE` + 2) / 2, that is 3 times in the code);
`ServoAligns` holds on chips that ask for three edges on a high line;
`BridgeSafe` allows shorts of a few register writes in the startup tune and with
`brake_on_stop = 2`, and a step written between `emergency_off` and the masking
of interrupts; `LimitsSettle` excludes a band about the target (`CurrentSlack`) within which the
proportional part is divided away; `BoardReady` names the blocks that are left
without a clock (`LeftToReset`) and the pin that is taken twice (`Retaken`);
`BoardComesUp` allows the waits without a bound; `WatchesFloatingPhase` and
`CrossingTaken` name the chips whose comparator driver selects the wrong edge or
reads the wrong output.

### Disagreements found

Each violated property states what a comment, a doc or a test vector says; the
counterexample shows what the code does.  `PROJECT.json` quotes the lines.

1. `LatchedMotorStaysStopped`: `process_input` publishes the raw stick and then,
   for a latched fault, zero.  A control tick between the two starts the motor.
2. `StartsInStartupPhase`: Disarm leaves `zero_crosses`; the next start skips the
   startup limits on the duty.
3. `CutoffDisarms`: `low_voltage_count` wraps in the release build.
4. `DirectionGated`, of the speed-gated modes: every DShot command frame, also one
   without an effect and to a motor above the threshold, stores the interrupt
   side's direction over the shared one.  In the counterexample the two differ
   from boot on: `dir_reversed` is given to the interrupt side only.
5. `BrakesBeforeReversing`: the RC-car grant of a reversal is not withdrawn when
   the motor is driven on in the same direction.
6. `SaveCopiesCommanded`: a save writes the settings as loaded at boot.
   `with_isr_state` reaches nothing once a handler has taken the state, so what
   commands edited is not copied back.
7. `FramesReachHandler`: `dma_buf.rs:3-5` demands that a buffer does not move
   after the DMA is configured.  The driver is armed by `main` and moved twice
   after that, into the hand-over slot and into the handlers' cell: frames are
   stored where the driver was.  The frame interrupt restarts the channel
   without its address; only the end of a reply writes it again.

### Bounds and why they are enough

The thresholds of `constants.rs` are constants, and the runs use the smallest
values that keep their order and let each side of each comparison occur.

- `ArmingTicks`, `SignalTimeoutDisarm`, `StallThreshold`: 0 or 1.  The guards
  only compare with them; both sides occur, and any number of main-loop steps
  and frames can fall between ticks anyway.
- `SignalTimeoutMax` (u16::MAX) and `IntervalMax` are one above their threshold:
  a saturated counter stays beyond it, as in the code.  `IntervalMax` is a bound
  of the model (the hardware timer is 16 or 32 bits wide and is compared before
  it can wrap).
- Zero-cross thresholds: `ZcForAdvance = 1`, `ZcExit = 2`, and where the run
  needs them the clearing thresholds above; the cap is above them all.
- `TimeoutStrict`, `TimeoutLenient`, `Latched`: the assumption
  `TimeoutLenient + 1 < Latched` holds for 10, 100, 102 and for the small values.
- `LvcModulus` is 2^16 in the code; small, so that the wrap happens.
- Throttles: 0 and one high value; three where the lenient limit matters.  Sticks
  in `Direction`: the centre and one point on each side of both decodings.

- `Settings`: three commands and two repetitions are enough for every branch of
  the processor's count; blank pages, and whole ones of an earlier version;
  `UnitSize` 8 cuts the configuration as the 64-bit flashes do.
- `Link`: `CounterSize = 5` with `HighCount = LowCount = 2` lets the u8 counters go
  round past their targets; pulses below and around the high end; `FrameTimes`
  has one that fits and one that disturbs; `MaxMoves`, `Lag`.
- `Capture`: `FirstEdges = 32` is the code's.
- `Replies`: three repetitions, so that an answered frame counts for two of
  them; the cycle of 200 replies becomes one of 12 with the kinds at distinct
  places; `MaxArmings` below the repetitions; `UsesCap` above what
  `FrameUses` allows.
- `Power`: crossings and thresholds scaled to 2, ramps to 100, 200 and 300 of the
  full 2000, boosts below and above them; `MaxDisturbances` changes between
  ticks, after which the duty must settle; `CrossingsCap`.
- `ZeroCross`: `SampleSize = 5` for counts that go round; 2 and 3 for
  `min_bemf_counts`, those of a bidirectional ESC; `StepAtOnce = 2` and `RoutineExit = 3` for 5 and 20, with
  which a fallback can double two steps, the most that `StepsForCrossing` allows;
  `ZeroCrossingsCap` above the lock.
- `Timing`: intervals scaled by 50 to 100 (125, 50, 40 for 12500, 5000, 2000);
  the extremes of the advance; `MaxUpsets`.
- `Codec`: all 4096 words, three bit times within the window.
- `Board`: all four chips; `PulseOutput = TRUE`, which adds steps and removes none.
  `Receiver`: `FrameWords = 32` and `ReplyWords = 31` are the code's.
  `Comparators`: no bound.
- `Priorities`: `KeptSteps = 16` is the chip's, which keeps the upper four bits.
- `Bridge`: no bound; both kinds of board.
- `Limits`: a unit of 2 for 10000, ranges of a few units, with and without
  integral gain; `MaxChanges` of the motor.

The proofs do not use these values: they hold for every value that meets the
named assumptions, those of the firmware included.

## 4. Fairness

`Esc`: weak fairness of the main loop (every handler returns and the load of the
handlers leaves time, else nothing would work; `wfi` wakes at every tick), of
the tick and of the commutation timer (hardware timers).  The comparator, the
rotor and the transmitter owe nothing.  `EscBenches`: the same on each bench.  `Direction`: weak fairness of the main
loop only, and `StickDecides` *assumes* that the motor becomes and stays slow.
`MotorLifecycle`: weak fairness of `Refresh`, implemented by the tick.

`Settings`: weak fairness of the main loop; commands, requests and power owe
nothing, and `SaveServed` is excused by power loss.  `Link`: frames keep coming
and the main loop keeps publishing.  `Capture`: the line keeps changing and the
handler takes what was captured.  `Replies`: the transmitter keeps sending, the
channel ends what it began, interrupts are served.  `Power`: the tick.
`Timing`: weak fairness of the comparator and of the timer that runs; *strong*
fairness of `PolledCrossing`, because the tick masks the comparator and polls
while the main loop may take the motor out of polling and back: a rotor that
turns is polled in every tick of the polling routine, and its crossings are
found then.  `Limits`: the main loop.  `Board`:
weak fairness of the writes and of giving up, which a counted wait does in the
end; a flag of the hardware owes nothing.  `Receiver`: the boot code goes on, the
channel ends what it began, both interrupts are served; the motor arms as it
likes.  `Comparators`: weak fairness of the comparator's interrupt alone.  `ZeroCross` states fairness of the timer
and needs none for its properties.

Liveness is asked of behaviours that come to rest: the disturbances, moves and
changes from outside are bounded, or the property assumes that they end.

## 5. What is proved

The eight `*Proofs` modules are checked by TLAPS down to the last leaf.  The
assumptions are the named `ASSUME`s of the modules, no others; TLC evaluates
them in every run.

| Theorem | States | Argument |
|---|---|---|
| `EscProofs!TypeCorrect` | `Spec => []TypeOK` | inductive; the saturating counters stay below their caps (`SaturatingType`) |
| `EscProofs!CommutationCorrect` | `Spec => []CommutationUnderWay` | inductive with the types: only the timer locks, and it unmasks the comparator; polling masks it only in OldRoutine; a consumed zero-cross starts the timer |
| `EscProofs!LatchCorrect` | `Spec => []LatchHoldsInput` | `LatchInv`: between its passes the stall count is at most one above the lenient limit (`StallsBounded`) and at "latch" a latched count is above the limit in force, so stalls alone never reach the latch value and a latched count is always latched again |
| `EscProofs!SineUnreachable` | no `StepperSine` | no action fires EnterSine |
| `EscProofs!LifecycleKept` | `Spec => Lifecycle!Safety` | each action is mapped to one of `MotorLifecycle` or a stutter; the control tick is the only one that switches the bridge (`OnlyTickSwitches`) |
| `DirectionProofs!TypeCorrect` | `Spec => []TypeOK` | the interpolation stays between its output bounds (`InterpolateUp`, `InterpolateDown`), hence each mapping in 0..2047 |
| `DirectionProofs!BrakeCutsThrottleAlways` | `Spec => []BrakeCutsThrottle` | `BrakeInv`: brake and grant exclude each other, so a held brake maps every stick to zero |
| `DirectionProofs!StickAlwaysObeyed` | `Spec => []StickObeyed` | the two theorems around it |
| `DirectionProofs!DrivesTowardsStickAlways` | `Spec => []DrivesTowardsStick` | `DriveInv`: without commands only the pass writes `forward`, so its reads stay true, and off the centre the motor has the stick's direction exactly when no flip is due |
| `SettingsProofs!TypeCorrect` | `Spec => []TypeOK` | inductive; a repetition count is reset before it reaches the threshold |
| `SettingsProofs!NeverPanics` | `Spec => []HandlersFindState` | `HandOver`: entered masked, interrupts are enabled only after the state is in its slot |
| `SettingsProofs!HandOverComplete` | `Spec => []StartsFromLoaded` | `HandOver`: the state in the slot has the loaded settings from "give" on |
| `SettingsProofs!CommandedDirection` | `Spec => []DirectionFollowsCommands` | `Commanding`: both writers of `forward` outside bidirectional modes store the interrupt side's direction |
| `SettingsProofs!RequestsKept` | `Spec => []RequestKept` | `Requested`: between packet and clearing what is owed is already missed |
| `SettingsProofs!SavesKeepLoaded` | `Spec => SaveKeepsLoaded` | `Commanding`: a save is asked for only by a handler, which has taken the state out of its slot |
| `SettingsProofs!TornPagesBoot` | `Spec => []TornPageBootsErased` | an invariant over page, units programmed and the values that the last save was given |
| `SettingsProofs!StartsRight` | `Spec => []StartsFromFlash` | `HandOverComplete` and `TornPagesBoot` |
| `SettingsProofs!ImplementsStore` | `Spec => KeepsStore` | each step maps to a step of the store or a stutter: the unit that completes a page ends a save, every power loss before it tears it |
| `DriveProofs!TimingTypeCorrect`, `DelaysNeverWrap` | `TimingSpec => []TimingTypeOK`, `[]DelayNeverWraps` | averages of 16-bit words are 16-bit words; an advance of at most 32/64 is at most half an interval (`AdvanceBound`) |
| `SignalProofs!HandlersExclude` | `PrioritiesSpec => []OneHandlerAtATime` | `LevelsWritten`: only 0 and 1 are ever written, which the chip takes for one level (`LevelsAlike`) |
| `DriveProofs!PowerTypeCorrect` | `PowerSpec => []PowerTypeOK` | inductive; the interpolation stays in its range for limits within full scale |
| `DriveProofs!OnlyBoostedStartsPanic` | `PowerSpec => []StartsWithoutPanic` | `PowerInv` keeps the limits those of the settings, and without boost these are in order |
| `DriveProofs!StartsSoftly` | `PowerSpec => SoftStart` | the tick that starts sets the last duty to the startup duty before it ramps |
| `DriveProofs!ZeroTypeCorrect` | `ZeroSpec => []ZeroTypeOK` | inductive |
| `DriveProofs!CrossingsAlwaysConfirmed` | `ZeroSpec => []CrossingsConfirmed` | `CountInv`: the exact tally has at least as many agreeing samples as the u8 count; while contrary samples are tolerated, those among the counted ones are at most one more than their u8 count; once they are not, there are none |
| `DriveProofs!StepsAlwaysForCrossing` | `ZeroSpec => []StepsForCrossing` | `RelayInv`: every doubled step needs one of polling that overtakes the timer, and both are counted, so that twice the doubled steps are at most the counted ones, and one more once the timer has stepped |
| `DriveProofs!CrossingsAlwaysCounted` | `ZeroSpec => []CrossingsCounted` | the two theorems above |
| `DriveProofs!LimitsTypeCorrect` | `LimitsSpec => []LimitsTypeOK` | inductive; both results are clamped |
| `DriveProofs!PidFitsWidth` | no sum of `Pid::calculate` leaves an i32 | products bounded by the bounds of their factors, for byte gains (or twice a byte) and 16-bit measurements |
| `DriveProofs!DriveTypeCorrect` | `DriveSpec => []DriveTypeOK` | a step of `Drive` is a step of one part and a stutter of the others (`PartsRun`) |
| `DriveProofs!PartsKeepTheirPromises` | `StickObeyed`, `StartsWithoutPanic`, `SoftStart`, `CrossingsCounted`, `DelayNeverWraps` under `DriveSpec` | `PartsRun` and the invariants of the parts |
| `SignalProofs!RepliesTypeCorrect` | `RepliesSpec => []RepliesTypeOK` | inductive |
| `SignalProofs!RepliesAlwaysFollow` | `RepliesSpec => []RepliesFollowFrames` | `UsesCounted`: the direction of the channel bounds how often its frame was processed, while nothing arms or disarms; `AnnouncesCommands`: an announcement that is pending is that of the last command that took effect, and repetitions of the other are counted only at the expense of an arming each |
| `SignalProofs!LinkTypeCorrect` | `LinkSpec => []LinkTypeOK` | the thresholds stay words through averages and the margin of 25 (`WordsBounded`) |
| `SignalProofs!CalibrationAlwaysSafe` | `LinkSpec => []CalibrationSafe` | `LinkInv`: a calibrating link is unarmed with a throttle above zero that no pulse takes away (`ThrottleFollowed`); a stick that stays high while the high end is measured leaves that end at 1475 or above and the low one at 1285 or below, margins included (`EndsApart`) |
| `SignalProofs!WindowAlwaysAdmits` | `LinkSpec => []WindowAdmitsSteady`, if `SteadyTime >= 16` | `AveragedSteady`: eight undisturbed frames of one length average to it, and a sixteenth of it either way is then at least a tick |
| `SignalProofs!StickStaysInOrder` | `LinkSpec => []MoreStickMoreThrottle` | from `EndsApart`: the mapping of the calibrated span is monotone in the stick |
| `DeviceProofs!DeviceTypeCorrect` | `DeviceSpec => []DeviceTypeOK` | every plan ends with a step that starts the capture and a part that may give up does not, so that a next part always exists (`GoesOn`, `LeastNumber`); the invariants of the other parts |
| `DeviceProofs!SignalKeepsItsPromises`, `WindowKeepsAdmitting` | `CalibrationSafe`, `RepliesFollowFrames`, `OneHandlerAtATime`, `WindowAdmitsSteady` under `DeviceSpec` | the theorems about the parts, carried over |
| `DeviceProofs!TransfersAlwaysFit` | `DeviceSpec => []TransfersFit`, if `FrameWords <= 37` | `ChannelInv`: direction, timer, buffer and count of the channel belong together, whether it is on or off |
| `DeviceProofs!AlwaysWatchesFloatingPhase` | `DeviceSpec => []WatchesFloatingPhase`; the edge is not claimed for G431 | `WatchInv`: the edges of an unmasked comparator were selected by the last step; which edge the floating phase makes is the parity of the step (`RisesByParity`) |
| `DeviceProofs!AlignmentLasts` | a capture that is aligned stays so | `CaptureInv`: in a capture begun on a low line, the line is high exactly while an odd number of edges is left |
| `BridgeProofs!BridgeAlwaysSafe` | `BridgeSpec => []BridgeSafe` | `BridgeInv` says what the pins will be after any number of the writes still to be made; a write only moves that nearer by one, so no place in a script needs a case of its own |
| `CodecProofs!EveryBitTimeDecodes` | every word comes back at every admitted bit time, and is refused at all of them in the other polarity or with one pulse of the wrong kind | `WidthsApart`: half an average bit lies between the two pulse widths at every admitted time; a changed pulse changes either one bit of the computed checksum or one of the sent one (`CrcFlips`) |
| `CodecProofs!WordsAlwaysRoundTrip` | `CodecInit /\ [][NextWord]_word => [](FramesDecode /\ RepliesDecode)` | `LineIs`: the recursive function that gives the levels of the line exists, built up bit by bit, so the changes of the line are the bits of the code; no two codes in a row hold three zeros (`NeverThreeZeros`); the shift halves a period as often as makes its mantissa nine bits (`ShiftIs`, `MantissaKeeps`) |
| `DeviceProofs!BoardAlwaysReady` | `DeviceSpec => []BoardReady`, which excepts `LeftToReset` (L431, G431) and `Retaken` (PA2 of F051) | plans are read as programs: a triple `Sound` says of a piece of a plan which clocks it needs and which it leaves on, triples compose (`InTurn`), and each chip's plan has one (`SoundF051` and so on).  A part turns its clocks on before it waits, so what is skipped when it gives up has none to turn on.  `BoardInv`: the clocks of all steps so far are on, skipped ones included; claims and channels are those of the plan; the clocks of the handlers are on when one is unmasked |
| `DeviceProofs!DriverKeepsBridgeSafe`, `CodesAlwaysRoundTrip` | `BridgeSafe`, `CodesRoundTrip` under `DeviceSpec` | `BridgeAlwaysSafe` and `WordsAlwaysRoundTrip`, carried over |

The theorems about a part of `Drive` or `Device` are proved of that part's own
specification (`Spec`, `PowerSpec`, `LinkSpec`, ...).  `DriveProofs` and
`DeviceProofs` carry the properties the runs check over to `DriveSpec` and
`DeviceSpec`, which the runs use.  `LatchInv`, `BrakeInv` and `DriveInv` also hold in
TLC under the constants of `EscBenches.cfg` and `Drive.cfg`.

Two theorems have a hypothesis beyond the named assumptions.  `SteadyTime >= 16`:
the admitted window is a sixteenth of the average either way, and empty below 16
ticks; the first window admits frames of 400 to 600.  `FrameWords <= 37`: the frame interrupt may ask for
the next frame while the buffer is still the reply's, of 37 words; the code's
`buffer_size` is 32.  `CodecAssumption` asks for `FrameTimeLow >= 256`: below it a bit is
too short to tell the widths apart after the integer divisions; the code's window
begins at 400.

Why strengthening is needed: `LatchHoldsInput` speaks of the moment after the
latch, but whether the next pass latches again depends on the count *and* the
limit as they were before; `BrakeCutsThrottle` depends on a grant that the mapping
reads a pass later; `DrivesTowardsStick` on what the pass has read and not yet
used; `CrossingsConfirmed` on what the two counters say of each other before a
crossing is found; `StepsForCrossing` on how many crossings were counted for each
doubled step; `TransfersFit` on what an interrupt will find in the registers of
a channel that is off; `WatchesFloatingPhase` on edges selected while the line was
masked; `BridgeSafe` on writes that are still to be made, by
handlers that interrupt each other; `BoardReady` on the clocks that a part given up
left unwritten; `CalibrationSafe` on the
throttle that the pulses before the calibration left behind; `StartsWithoutPanic` on
where the limits came from.

`DirectionFollowsCommands`, `SaveKeepsLoaded`, `MoreStickMoreThrottle` and `AlignmentLasts`
are proved and not among the runs.  `AlignmentLasts` is the safety half of
`ServoAligns`, whose other half, that a capture gets aligned, is liveness.

## 6. Only model-checked

The liveness properties (`SilenceDisarms`, `ZeroThrottleAlwaysArms`,
`SeizedRotorStops`, `LatchStops`, `StickDecides`, `SaveServed`, `BoardComesUp`,
`ReceiverListens`, `CrossingTaken`,
`HeldStickCalibrates`, `ServoAligns`, `EveryKindSent`, `DutySettles`,
`IntervalFollowsPace`, `LimitsSettle`, and the fairness part of
`KeepsLifecycle`): TLAPS does not handle liveness under fairness or ENABLED.

Every safety property of a passing run is stated by a theorem: the invariants, the
action properties and the safety half of `KeepsLifecycle` (`LifecycleKept`).  Two
of these theorems have the hypotheses above.

## 7. Plan

Done: `Esc` with `MotorLifecycle`; `Direction`; `Settings` with `SettingsStore`;
`Power`, `ZeroCross`, `Timing` and `Limits`, composed with `Direction` in `Drive`;
`Link`, `Capture`, `Replies`, `Codec`, `Priorities`, `Bridge`, `Board`, `Receiver`
and `Comparators`, composed in `Device`; the proofs above.

Left, in this order: the variable PWM frequency with the compare values; the
bidirectional servo span; `Direction` composed with the mode contract; the
beacons; the registers of the flash.

## 8. Not modelled, and why

- **Sinusoidal startup**: no firmware code fires EnterSine (`SineUnreachable`);
  only the harness can.
- **Desync detection** (`main_state.rs:318`): `desync_check` is set by the
  harness only; in the firmware the branch is dead.
- **CRSF**: `handle_crsf_byte` has no caller.
- **Speed controller**: `set_use_speed_control` has no caller.
- **Programming commands** (`process_programming`) and `full_brake`, `all_pwm`,
  `proportional_brake` of the phase driver: no caller.
- **Filters, units, temperature and current conversion, telemetry packets, LED**:
  numeric or formatting code without state that a modelled guard reads.
- **Brushed and fixed-speed modes**: other builds, without the handlers modelled
  here.
- **Values of configuration registers**: `Board` keeps which block, pin and channel
  is written, not the prescalers, sampling times and baud rates written to it.
- **`detect_input`**: the protocol is a choice.
- **Bidirectional servo span, variable PWM, beacons**: not yet.
- **Differences of the harness**: it sets the EDT gate with the throttle,
  copies the desync flag, and runs main loop and tick in turn.  The firmware is
  the reference of these models.

### Observations

Met while modelling, and not claimed by a run because no comment, doc or test
says otherwise, or because the code does not reach them:

- **Arming without a zero-throttle frame**: the EDT gate drops a held throttle,
  `newinput` stays zero, and the ESC arms (`constants.rs:25` speaks of
  *receiving* zero throttle).
- **Throttle before direction**: a flipped direction is stored after its
  throttle, so one tick may act on the new throttle in the old direction.
- **Replies are latent**: the firmware never sets `dshot_telemetry`, so no frame
  is answered; `Replies` checks what would happen.  `set_temp_advance` and
  `set_max_ramp` never reach the interrupt side's state either.
- **Stall boost**: it is added after the ramp, whose next step goes on from the
  sum; above a ramp step it runs up to the ceiling (`DutySettles`).  The boost of
  a motor that stays slow grows past a ramp step within milliseconds.  Boost and
  the sums of the controllers are kept while the motor rests, and the next start
  begins with them.
- **Current limit**: without integral gain an error below 10000 / kp moves nothing.
- **Abandoned calibration**: its first pulse is kept and compared with until the
  u8 count wraps.  The result `CalibrationDone` is dropped (`transfer.rs:138`).
- **Widths**: `e_com_time` is cut to 16 bits for slow rotors
  (`isr_handlers.rs:122`); the EDT current wraps above 12.75 A while the voltage
  saturates (`edt.rs:96`, `edt.rs:100`); the u8 count of contrary samples goes
  round and tolerates one more.
- **F051 pins**: PA2 is made the capture input, and analog by the ADC after it;
  the input is `mcu_f051/input_capture.rs:1`'s.
- **Clocks**: L431 and G431 never turn on SYSCFG, G431 never DMAMUX.
- **Comparators**: G431's `set_rising_edge` enables the falling trigger and the
  other way round; `mcu_g431/comparator.rs:117-119` gives COMP2 to phase A, the
  code COMP1.  F051 reads the output of COMP2, which is off, while COMP1 watches.
  The interrupt wrappers leave the flag set, so the handler is entered again
  until the output is past the crossing.
- **Samples**: `G431Adc` reads temperature, voltage, current in its sequence, while
  the shared driver takes current first.  On G071 the channel of the ADC is
  circular and the ADC asks once.  `chip.rs` of F051 names channels 6 and 3, its
  `adc.rs` 2 and 6.
- **Bring-up**: a port that timed out is used as if it were ready.  The registers
  of the watchdog are waited for without a bound, before it runs.  A comment in
  `mcu_g071/telemetry_uart.rs:96-97` speaks of a handler that does not exist.
- **Flash**: a busy wait that ends without the flag goes on with the next unit;
  the end-of-operation flag is bit 5 on every chip.
- **Transfer errors**: L431 and G431 enable the interrupt, no handler clears it.
- **Cut-off**: low voltage disarms and keeps `input_set`, so a motor on a live zero
  stick arms again and is cut off again.
- **Disarm in a reply**: the channel goes on transmitting, and the frame of before
  is processed again at its end.
- **Capture**: F051, L431 and G431 always ask for two edges; a capture that began
  on a high line then measures pauses and never gives a pulse.
- **Panic**: `emergency_off` writes only output bits, so the high pin of the
  switched phase stays under the timer's control; with all low sides off no
  current flows.  Interrupts are masked after it: a commutation in between would
  leave a step on the halted bridge until the watchdog.
- **Bridge**: the startup tune and `brake_on_stop = 2` jump between steps that do
  not follow each other, with a short for a few register writes; the duty of
  that brake is overwritten in the same tick.  On boards with an enable pin
  `phase_pwm` writes nothing to it, so that a phase that was floated is not
  enabled when it is switched.  `comp_pwm` of the settings does not reach the
  driver.
- **L431 priorities**: 0 and 1 are one level after the chip has dropped the lower
  bits, so exchanging them has no effect.
- **Boards**: none sets `startup_boost`, so the panic of `StartsWithoutPanic` is
  one of future boards.
- **Beeps**: those for an armed motor go through `with_isr_state` and never play.
