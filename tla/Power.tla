-------------------------------- MODULE Power --------------------------------
(***************************************************************************)
(* The duty cycle of the motor: the 20 kHz tick (ten_khz_tick) that maps the *)
(* throttle, starts the motor, ramps and limits the duty, and what the main   *)
(* loop and the other interrupts change between two ticks: the ceilings, the  *)
(* boost of the stall protection, the count of crossings, the motor's mode.   *)
(*                                                                         *)
(* Each disturbance is one of at most MaxDisturbances, so that every         *)
(* behaviour ends undisturbed.                                              *)
(***************************************************************************)
EXTENDS Duty, Config

CONSTANTS
  Inputs,            \* published throttles
  DutyCeilings,      \* the lower of duty_maximum and current_limit_adjust
  Boosts,            \* stall_protection_adjust, 0 .. 150 in the code
  StallProtections,  \* stall_protection of the settings
  StartupPowers,     \* startup_power of the settings
  PwmFrequencies,    \* pwm_frequency of the settings, in kHz
  BoardBoosts,       \* startup_boost of the board
  BrakeStrengths,    \* driving_brake_strength of the settings
  BoardDeadTime,     \* dead_time of the board
  CrossingsCap,      \* bound on the count of crossings
  MaxDisturbances    \* bound on the changes between ticks

(* The duty limits that the settings give, with the dead-time override that    *)
(* is added to each of them.                                                *)
LimitsOf(c, boost) ==
  LET dead_time == DeadTimeOverride(c, BoardDeadTime)
  IN  [minimum     |-> MinimumDuty(c, boost) + dead_time,
       min_startup |-> MinStartupDuty(c, boost) + dead_time,
       startup_max |-> StartupMaxDuty(c) + dead_time]

DutySettings ==
  [minimum_duty_cycle : {5}, startup_power : StartupPowers,
   pwm_frequency : PwmFrequencies, driving_brake_strength : BrakeStrengths]

ASSUME PowerAssumption ==
  /\ Inputs \subseteq 0 .. ThrottleMax
  /\ DutyCeilings \subseteq 1 .. DutyScale
  /\ Boosts \subseteq Nat /\ 0 \in Boosts
  /\ StallProtections \subseteq Nat
  /\ StartupPowers \subseteq Byte /\ PwmFrequencies \subseteq Byte
  /\ BoardBoosts \subseteq BOOLEAN
  /\ BrakeStrengths \subseteq Byte /\ BoardDeadTime \in Byte
  /\ CrossingsCap \in Nat /\ MaxDisturbances \in Nat
  /\ \A c \in DutySettings, b \in BoardBoosts :
       LimitsOf(c, b).minimum <= DutyScale

VARIABLES
  settings,         \* the settings ...
  board_boost,      \* ... and startup_boost of the board ...
  limits,           \* ... that DutyState's limits came from
  stall_protection, \* of the settings
  input,            \* shared: adjusted_input
  motor,            \* shared mode: "disarmed", "armed", "running"; "halted"
  crossings,        \* shared: zero_crosses
  low_rpm,          \* shared: the average interval is a slow motor's
  setpoint,         \* shared: duty_cycle_setpoint
  last,             \* DutyState: the duty of the last tick
  stall_boost,      \* shared: stall_protection_adjust
  ceiling,          \* shared: duty_maximum and current_limit_adjust
  disturbances      \* changes so far

powerVars == <<settings, board_boost, limits, stall_protection, input,
               motor, crossings, low_rpm, setpoint, last, stall_boost, ceiling,
               disturbances>>
configured == <<settings, board_boost, limits, stall_protection>>

PowerTypeOK ==
  /\ settings \in DutySettings
  /\ board_boost \in BoardBoosts
  /\ limits \in [minimum : Nat, min_startup : Nat, startup_max : Nat]
  /\ stall_protection \in StallProtections
  /\ input \in Inputs \cup {0}
  /\ motor \in {"disarmed", "armed", "running", "halted"}
  /\ crossings \in 0 .. CrossingsCap
  /\ low_rpm \in BOOLEAN
  /\ setpoint \in Nat
  /\ last \in 0 .. DutyScale
  /\ stall_boost \in Boosts
  /\ ceiling \in DutyCeilings \cup {DutyScale}
  /\ disturbances \in 0 .. MaxDisturbances

PowerInit ==
  /\ settings \in DutySettings
  /\ board_boost \in BoardBoosts
  /\ limits = LimitsOf(settings, board_boost)
  /\ stall_protection \in StallProtections
  /\ input = 0
  /\ motor = "disarmed"
  /\ crossings = 0
  /\ low_rpm = FALSE
  /\ setpoint = 0
  /\ last = 0
  /\ stall_boost = 0
  /\ ceiling = DutyScale
  /\ disturbances = 0

-----------------------------------------------------------------------------
WantsPower == motor \in {"armed", "running"} /\ input >= ThrottleMin

Starts == motor = "armed" /\ input >= ThrottleMin

Panics ==
  WantsPower /\ StartupHeld(crossings, stall_protection) /\ ~LimitsInOrder(limits)

NewSetpoint ==
  IF WantsPower
  THEN ComputeSetpoint(input, limits, crossings, stall_protection)
  ELSE IF motor = "disarmed" THEN setpoint ELSE 0

(* Mutant: a start goes on from the duty that the ramp left. *)
RampsFromLast == last

(* A start ramps from the startup duty, whatever the last tick left. *)
RampsFrom == IF Starts THEN limits.min_startup ELSE last

(* The boost is for a motor that runs. *)
Boost == IF motor = "running" \/ Starts THEN stall_boost ELSE 0

NewDuty ==
  LET target == NewSetpoint
      from   == RampsFrom
      change == MaxChange(from, crossings, low_rpm)
      ramped == RampLimited(target, from, change)
  IN  Ceilings(ramped, Boost, ceiling)

(* ten_khz_tick, with throttle mapping, start, ramp, ceilings and output.    *)
PowerTick ==
  /\ motor # "halted"
  /\ ~Panics
  /\ setpoint' = NewSetpoint
  /\ motor' = IF Starts THEN "running" ELSE motor
  /\ last' = NewDuty
  /\ UNCHANGED <<configured, input, crossings, low_rpm, stall_boost, ceiling,
                 disturbances>>

(* The panic handler turns the bridge off and halts. *)
Panic ==
  /\ motor # "halted"
  /\ Panics
  /\ motor' = "halted"
  /\ UNCHANGED <<configured, input, crossings, low_rpm, setpoint, last,
                 stall_boost, ceiling, disturbances>>

(* The watchdog resets a halted chip. *)
WatchdogReset ==
  /\ motor = "halted"
  /\ motor' = "disarmed"
  /\ input' = 0 /\ crossings' = 0 /\ low_rpm' = FALSE /\ setpoint' = 0
  /\ last' = 0 /\ stall_boost' = 0 /\ ceiling' = DutyScale
  /\ UNCHANGED <<configured, disturbances>>

Disturbs ==
  /\ motor # "halted"
  /\ disturbances < MaxDisturbances
  /\ disturbances' = disturbances + 1

(* The pilot moves the stick. *)
MoveThrottle ==
  /\ Disturbs
  /\ input' \in Inputs \ {input}
  /\ UNCHANGED <<configured, motor, crossings, low_rpm, setpoint, last,
                 stall_boost, ceiling>>

(* The tick arms at zero throttle; arming is counted elsewhere. *)
ArmMotor ==
  /\ Disturbs
  /\ motor = "disarmed" /\ input = 0
  /\ motor' = "armed"
  /\ UNCHANGED <<configured, input, crossings, low_rpm, setpoint, last,
                 stall_boost, ceiling>>

(* The main loop stops a stalled or desynchronised motor, or disarms. *)
StopMotor ==
  /\ Disturbs
  /\ \/ motor = "running" /\ motor' = "armed"
     \/ motor \in {"armed", "running"} /\ motor' = "disarmed"
  /\ crossings' \in {0, crossings}
  /\ UNCHANGED <<configured, input, low_rpm, setpoint, last, stall_boost, ceiling>>

(* The motor turns: crossings are counted, and it gets faster. *)
CrossZero ==
  /\ motor = "running"
  /\ crossings < CrossingsCap
  /\ crossings' = crossings + 1
  /\ UNCHANGED <<configured, input, motor, low_rpm, setpoint, last, stall_boost,
                 ceiling, disturbances>>

(* The main loop takes the count back: a stall, a desync, a reversal. *)
LoseCrossings ==
  /\ Disturbs
  /\ motor = "running" /\ crossings > 0
  /\ crossings' = 0
  /\ low_rpm' \in BOOLEAN
  /\ UNCHANGED <<configured, input, motor, setpoint, last, stall_boost, ceiling>>

(* The stall protection of the main loop, of a motor that runs. *)
AdjustBoost ==
  /\ Disturbs
  /\ motor = "running" /\ stall_protection # 0
  /\ stall_boost' \in Boosts \ {stall_boost}
  /\ UNCHANGED <<configured, input, motor, crossings, low_rpm, setpoint, last, ceiling>>

(* The current limit and the limits of speed and temperature. *)
AdjustCeiling ==
  /\ Disturbs
  /\ ceiling' \in DutyCeilings \ {ceiling}
  /\ UNCHANGED <<configured, input, motor, crossings, low_rpm, setpoint, last,
                 stall_boost>>

PowerNext ==
  \/ PowerTick \/ Panic \/ WatchdogReset
  \/ MoveThrottle \/ ArmMotor \/ StopMotor
  \/ CrossZero \/ LoseCrossings \/ AdjustBoost \/ AdjustCeiling

(* The tick is a timer's. *)
PowerFairness == WF_powerVars(PowerTick)

PowerSpec == PowerInit /\ [][PowerNext]_powerVars /\ PowerFairness

-----------------------------------------------------------------------------
(* A start is soft whatever duty an earlier run, or an unarmed ramp towards   *)
(* a stale setpoint, left behind: its first duty is above the startup duty by *)
(* no more than one ramp step and the boost (isr_logic.rs:36-38, state.rs:138).*)
SoftStart ==
  [][motor = "armed" /\ motor' = "running"
       => last' <= limits.min_startup + RampHighRpm + stall_boost]_powerVars

(* A boost smaller than a ramp step leaves the duty where the throttle wants  *)
(* it, raised by the boost.  The boost comes after the ramp and the ramp goes  *)
(* on from its result, so that one larger than a ramp step raises the duty     *)
(* tick by tick, to the ceiling, whatever the throttle wants                  *)
(* (state.rs:113-118, 132, 166-169).                                         *)
RestingDuty ==
  IF stall_boost < RampStartup THEN Least(setpoint + stall_boost, ceiling)
  ELSE ceiling

DutySettles ==
  <>[](motor = "running" /\ stall_boost \notin RampStartup .. RampHighRpm)
    => <>[](last = RestingDuty)

(* No start panics on limits in the wrong order, except with the startup      *)
(* boost of the board and settings for which power and frequency exceed its   *)
(* room (config.rs:264-275, state.rs:72).                                   *)
StartsWithoutPanic ==
  motor = "halted" =>
    /\ board_boost
    /\ settings.startup_power + (settings.pwm_frequency * 100) \div 24 > 200

=============================================================================
