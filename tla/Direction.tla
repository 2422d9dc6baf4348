----------------------------- MODULE Direction ------------------------------
(***************************************************************************)
(* Who decides which way the motor turns.  SharedState.forward has three    *)
(* writers: process_input flips it (a load and a store), the control tick   *)
(* stores it back, and every DShot command overwrites it with the direction *)
(* that the interrupt side remembers.  The throttle (adjusted_input) is     *)
(* published before the flip that belongs to it.                            *)
(*                                                                         *)
(* Each main-loop action makes at most one shared access; each handler is   *)
(* one action, as in module Esc, which models what is left out here: the    *)
(* timers that arm, stop and disarm the motor are choices.  Stuck-rotor     *)
(* protection, sine start and brake_on_stop are off.                        *)
(***************************************************************************)
EXTENDS MotorMode, InputMapping

CONSTANTS
  DshotSticks,  \* DShot throttles sent: 0 and 48 .. 2047
  ServoSticks,  \* servo throttles decoded: 0 .. 2000
  DeadBand      \* config.servo_dead_band

ASSUME StickAssumption ==
  /\ DshotSticks \subseteq {0} \cup 48 .. DSHOT_MAX_THROTTLE
  /\ ServoSticks \subseteq 0 .. 2000
  /\ DeadBand \in 0 .. 255

VARIABLES
  \* fixed at boot
  config,         \* main_state.config and the kind of transmitter
  \* SharedState
  mode,           \* motor_mode
  dshot,          \* dshot: the protocol is known to be DShot
  inputSet,       \* input_set
  newinput,       \* newinput
  adjusted,       \* adjusted_input
  forward,        \* forward
  slow,           \* commutation_interval > reverse_speed_threshold
  lowDuty,        \* duty_cycle < 200
  propBrake,      \* prop_brake_active
  \* interrupt handlers
  isrForward,     \* IsrState.forward: the direction commands have set
  stepForward,    \* commutation.forward: the direction of the next step
  \* process_input
  pc,             \* its next step
  asDshot,        \* input_state.mode is a BidirDshot mode
  raw,            \* newinput, as read
  seenForward,    \* forward, as read
  seenSlow,       \* commutation_interval, as read
  result,         \* the mapping's BidirResult
  brake,          \* input_state.prop_brake_active
  returnToCenter, \* input_state.return_to_center
  braked          \* history: the brake was on since the motor last drove

shared == <<mode, dshot, inputSet, newinput, adjusted, forward, slow, lowDuty,
            propBrake>>
isr    == <<isrForward, stepForward>>
main   == <<pc, asDshot, raw, seenForward, seenSlow, result, brake,
            returnToCenter, braked>>
vars   == <<config, shared, isr, main>>

Configs == [rcCar : BOOLEAN, dirReversed : BOOLEAN,
            dshotLink : BOOLEAN, commands : BOOLEAN]

Sticks == {0} \cup DshotSticks \cup ServoSticks

Results == [adjusted : 0 .. DSHOT_MAX_THROTTLE, reverse : BOOLEAN,
            brake : BOOLEAN]

Steps == {"read_mode", "read_input", "read_forward", "read_interval", "map",
          "publish", "flip_read", "flip", "restart", "brake", "rest"}

TypeOK ==
  /\ config \in Configs
  /\ mode \in Modes
  /\ dshot \in BOOLEAN
  /\ inputSet \in BOOLEAN
  /\ newinput \in Sticks
  /\ adjusted \in 0 .. DSHOT_MAX_THROTTLE
  /\ forward \in BOOLEAN
  /\ slow \in BOOLEAN
  /\ lowDuty \in BOOLEAN
  /\ propBrake \in BOOLEAN
  /\ isrForward \in BOOLEAN
  /\ stepForward \in BOOLEAN
  /\ pc \in Steps
  /\ asDshot \in BOOLEAN
  /\ raw \in Sticks
  /\ seenForward \in BOOLEAN
  /\ seenSlow \in BOOLEAN
  /\ result \in Results
  /\ brake \in BOOLEAN
  /\ returnToCenter \in BOOLEAN
  /\ braked \in BOOLEAN

(* Interrupts are enabled with the motor forward, whatever dir_reversed     *)
(* says: only the commands' direction is taken from it (main.rs).           *)
Init ==
  /\ config \in {c \in Configs : c.commands => c.dshotLink}
  /\ mode = "Disarmed"
  /\ dshot = FALSE
  /\ inputSet = FALSE
  /\ newinput = 0
  /\ adjusted = 0
  /\ forward = TRUE
  /\ slow = TRUE
  /\ lowDuty = TRUE
  /\ propBrake = FALSE
  /\ isrForward = ~config.dirReversed
  /\ stepForward = TRUE
  /\ pc = "read_mode"
  /\ asDshot = FALSE
  /\ raw = 0
  /\ seenForward = TRUE
  /\ seenSlow = TRUE
  /\ result = Nothing
  /\ brake = FALSE
  /\ returnToCenter = FALSE
  /\ braked = FALSE

-----------------------------------------------------------------------------
(* process_input, one shared access at a time.  Locals are forgotten when   *)
(* they have been used.                                                     *)

Goto(here, there) == pc = here /\ pc' = there

(* InputMode::from_config *)
ReadMode ==
  /\ Goto("read_mode", "read_input")
  /\ asDshot' = dshot
  /\ UNCHANGED <<config, shared, isr, raw, seenForward, seenSlow, result, brake,
                 returnToCenter, braked>>

ReadInput ==
  /\ Goto("read_input", "read_forward")
  /\ raw' = newinput
  /\ UNCHANGED <<config, shared, isr, asDshot, seenForward, seenSlow, result,
                 brake, returnToCenter, braked>>

ReadForward ==
  /\ Goto("read_forward", IF config.rcCar THEN "map" ELSE "read_interval")
  /\ seenForward' = forward
  /\ UNCHANGED <<config, shared, isr, asDshot, raw, seenSlow, result, brake,
                 returnToCenter, braked>>

ReadInterval ==
  /\ Goto("read_interval", "map")
  /\ seenSlow' = slow
  /\ UNCHANGED <<config, shared, isr, asDshot, raw, seenForward, result, brake,
                 returnToCenter, braked>>

StickHalf ==
  IF asDshot THEN DshotHalf(raw) ELSE ServoHalf(raw, DeadBand)

StickAmount ==
  IF asDshot THEN DshotAmount(raw) ELSE ServoAmount(raw, DeadBand)

(* Reads the duty cycle and maps the stick. *)
MapInput ==
  /\ Goto("map", "publish")
  /\ result' =
       IF config.rcCar
       THEN RcCar(StickHalf, StickAmount, seenForward, config.dirReversed,
                  brake, returnToCenter)
       ELSE SpeedGated(StickHalf, StickAmount, seenForward, config.dirReversed,
                       seenSlow /\ lowDuty)
  /\ seenForward' = TRUE
  /\ seenSlow' = TRUE
  /\ UNCHANGED <<config, shared, isr, asDshot, raw, brake, returnToCenter,
                 braked>>

PublishInput ==
  /\ Goto("publish", IF result.reverse THEN "flip_read" ELSE "brake")
  /\ adjusted' = result.adjusted
  /\ UNCHANGED <<config, mode, dshot, inputSet, newinput, forward, slow,
                 lowDuty, propBrake, isr, asDshot, raw, seenForward, seenSlow,
                 result, brake, returnToCenter, braked>>

(* shared.set_forward(!shared.forward()) is a load and a store. *)
FlipRead ==
  /\ Goto("flip_read", "flip")
  /\ seenForward' = forward
  /\ UNCHANGED <<config, shared, isr, asDshot, raw, seenSlow, result, brake,
                 returnToCenter, braked>>

Flip ==
  /\ Goto("flip", IF config.rcCar THEN "brake" ELSE "restart")
  /\ forward' = ~seenForward
  /\ seenForward' = TRUE
  /\ UNCHANGED <<config, mode, dshot, inputSet, newinput, adjusted, slow,
                 lowDuty, propBrake, isr, asDshot, raw, seenSlow, result, brake,
                 returnToCenter, braked>>

(* A speed-gated flip returns to polling. *)
Restart ==
  /\ Goto("restart", "brake")
  /\ mode' = SetOldRoutine(mode)
  /\ UNCHANGED <<config, dshot, inputSet, newinput, adjusted, forward, slow,
                 lowDuty, propBrake, isr, asDshot, raw, seenForward, seenSlow,
                 result, brake, returnToCenter, braked>>

(* apply_rc_car_result: a flip spends the grant, a braked stick back in the *)
(* centre releases the brake and grants the next flip.  Then the brake is   *)
(* published.  Speed-gated modes keep the brake off.                        *)
BrakeHeld == brake \/ result.brake

Released == BrakeHeld /\ StickHalf = "centre"

PublishBrake ==
  /\ Goto("brake", "rest")
  /\ brake' = (config.rcCar /\ BrakeHeld /\ ~Released)
  /\ propBrake' = brake'
  /\ returnToCenter' = (config.rcCar
       /\ (Released \/ (returnToCenter /\ ~result.reverse)))
  /\ braked' = ((braked \/ brake') /\ adjusted < THROTTLE_MIN_SIGNAL)
  /\ result' = Nothing
  /\ UNCHANGED <<config, mode, dshot, inputSet, newinput, adjusted, forward,
                 slow, lowDuty, isr, asDshot, raw, seenForward, seenSlow>>

(* What the rest of the main loop may do to the motor: nothing, fall back   *)
(* after a stall, stop a stalled motor without throttle, disarm.            *)
FinishPass(outcome) ==
  /\ Goto("rest", "read_mode")
  /\ outcome = "stop" => adjusted < THROTTLE_MIN_SIGNAL /\ IsRunning(mode)
  /\ mode' = CASE outcome = "fallback" -> SetOldRoutine(mode)
               [] outcome = "stop"     -> Transition(mode, "StopMotor")
               [] outcome = "disarm"   -> Transition(mode, "Disarm")
               [] OTHER                -> mode
  /\ slow' = (slow \/ outcome = "stop")
  /\ inputSet' \in IF outcome = "disarm" THEN {inputSet, FALSE} ELSE {inputSet}
  /\ raw' = 0
  /\ asDshot' = FALSE
  /\ UNCHANGED <<config, dshot, newinput, adjusted, forward, lowDuty, propBrake,
                 isr, seenForward, seenSlow, result, brake, returnToCenter,
                 braked>>

MainLoop ==
  \/ ReadMode
  \/ ReadInput
  \/ ReadForward
  \/ ReadInterval
  \/ MapInput
  \/ PublishInput
  \/ FlipRead
  \/ Flip
  \/ Restart
  \/ PublishBrake
  \/ \E outcome \in {"none", "fallback", "stop", "disarm"} : FinishPass(outcome)

-----------------------------------------------------------------------------
(* The control tick takes the direction over, starts or arms the motor, and *)
(* stores the direction back.  Polling may change the commutation interval, *)
(* the ramp the duty.                                                       *)
Tick(arms) ==
  /\ arms => mode = "Disarmed" /\ inputSet /\ adjusted = 0
  /\ stepForward' = forward
  /\ mode' = IF arms THEN Transition(mode, "Arm")
             ELSE IF adjusted >= THROTTLE_MIN_SIGNAL /\ mode = "Armed"
             THEN Transition(mode, "StartMotor")
             ELSE mode
  /\ slow' \in IF IsOldRoutine(mode') THEN BOOLEAN ELSE {slow}
  /\ lowDuty' \in IF IsArmed(mode) /\ adjusted < THROTTLE_MIN_SIGNAL
                  THEN {lowDuty, TRUE} ELSE BOOLEAN
  /\ forward' = stepForward'
  /\ UNCHANGED <<config, dshot, inputSet, newinput, adjusted, propBrake,
                 isrForward, main>>

(* The commutation timer: outside polling it also updates the interval.     *)
(* Whether it runs is a matter of module Esc; here it may always expire.    *)
TimerExpired(locks) ==
  /\ slow' \in IF IsOldRoutine(mode) THEN {slow} ELSE BOOLEAN
  /\ mode' = IF locks THEN Transition(mode, "BemfLocked") ELSE mode
  /\ UNCHANGED <<config, dshot, inputSet, newinput, adjusted, forward, lowDuty,
                 propBrake, isr, main>>

InputDetected ==
  /\ ~inputSet
  /\ inputSet' = TRUE
  /\ dshot' = (dshot \/ config.dshotLink)
  /\ UNCHANGED <<config, mode, newinput, adjusted, forward, slow, lowDuty,
                 propBrake, isr, main>>

Throttle(stick) ==
  /\ inputSet
  /\ stick \in IF config.dshotLink THEN {0} \cup DshotSticks ELSE ServoSticks
  /\ newinput' = stick
  /\ UNCHANGED <<config, mode, dshot, inputSet, adjusted, forward, slow,
                 lowDuty, propBrake, isr, main>>

(* A DShot command: the direction commands have their effect on a motor at  *)
(* rest only, but every command stores the remembered direction.            *)
DshotCommand(direction) ==
  /\ config.commands
  /\ inputSet
  /\ direction # isrForward => IsArmed(mode) /\ ~IsRunning(mode)
  /\ newinput' = 0
  /\ isrForward' = direction
  /\ forward' = direction
  /\ UNCHANGED <<config, mode, dshot, inputSet, adjusted, slow, lowDuty,
                 propBrake, stepForward, main>>

Next ==
  \/ MainLoop
  \/ \E arms \in BOOLEAN : Tick(arms)
  \/ \E locks \in BOOLEAN : TimerExpired(locks)
  \/ InputDetected
  \/ \E stick \in Sticks : Throttle(stick)
  \/ \E direction \in BOOLEAN : DshotCommand(direction)

(* As in Esc: handlers return, so the main loop runs.  Here nothing depends *)
(* on the ticks.                                                            *)
Spec == Init /\ [][Next]_vars /\ WF_vars(MainLoop)

-----------------------------------------------------------------------------
(***************************************************************************)
(* Properties.                                                              *)
(***************************************************************************)

(* Without commands, the throttle that process_input leaves published is    *)
(* one in the direction the motor now has: the mapping, made from reads at  *)
(* different moments, and the flip agree on the direction, for both         *)
(* mappings and both settings of dir_reversed.                              *)
DrivesTowardsStick ==
  ~config.commands /\ pc = "rest" /\ adjusted > 0
    => StickHalf # "centre" /\ forward = Wanted(StickHalf, config.dirReversed)

(* Throttle is never published while the brake is: whatever the order of    *)
(* stick movements, detections and commands, the handshake of               *)
(* apply_rc_car_result has released the brake before the throttle returns.  *)
BrakeCutsThrottle == propBrake => adjusted = 0

(* Throttle is published in the direction of the stick, and never with the brake.  *)
StickObeyed == DrivesTowardsStick /\ BrakeCutsThrottle

(* A stick held on one side gets its direction, once the motor is slow, or  *)
(* in an RC-car mode the brake: no write to forward is lost for good.       *)
NewinputHalf ==
  IF dshot THEN DshotHalf(newinput) ELSE ServoHalf(newinput, DeadBand)

StickSettles ==
  \A half \in {"forward", "reverse"} :
    <>[](NewinputHalf = half /\ slow /\ lowDuty)
      => <>[]( \/ forward = Wanted(half, config.dirReversed)
               \/ config.rcCar /\ propBrake)

-----------------------------------------------------------------------------
(***************************************************************************)
(* Statements of the repository that the code does not keep.                *)
(***************************************************************************)

(* rm32/src/input_mapping.rs:14, of the speed-gated modes: "direction flip   *)
(* only when motor is slow enough".  So in these modes what flips the        *)
(* direction of a motor that runs above the threshold can only be a flip     *)
(* that the gated mapping decided on before it got there.                   *)
DirectionGated ==
  [][~config.rcCar /\ IsRunning(mode) /\ ~slow /\ forward' # forward
      => pc = "flip"]_vars

(* rm32/src/input_mapping.rs:16: RC-car is "brake-and-reverse with          *)
(* return-to-center handshake".  A reversal is preceded by the brake since  *)
(* the motor was last driven.                                               *)
BrakesBeforeReversing ==
  [][config.rcCar /\ ~config.commands /\ Flip => braked]_vars

=============================================================================
