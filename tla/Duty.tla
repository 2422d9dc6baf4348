-------------------------------- MODULE Duty --------------------------------
(***************************************************************************)
(* The duty cycle from the throttle: DutyState of                            *)
(* rm32/src/control/state.rs, as pure operators.  max_change is recomputed by *)
(* every ramp and is not kept; the dividers and ramp rates are the defaults, *)
(* which nothing changes.                                                   *)
(***************************************************************************)
EXTENDS Numbers

CONSTANTS
  DutyScale,       \* DUTY_SCALE_MAX, 2000 in the code
  ThrottleMax,     \* DSHOT_MAX_THROTTLE, 2047
  ThrottleMin,     \* THROTTLE_MIN_SIGNAL, 47
  StartupCrossings,\* STARTUP_ZC_BASE, 30
  RampThreshold,   \* RAMP_STARTUP_THRESHOLD, 150, of crossings and of duty
  RampStartup,     \* max_ramp_startup, 2
  RampLowRpm,      \* max_ramp_low_rpm, 6
  RampHighRpm      \* max_ramp_high_rpm, 16

ASSUME DutyAssumption ==
  /\ DutyScale \in Nat \ {0} /\ StartupCrossings \in Nat
  /\ RampThreshold \in Nat
  /\ ThrottleMin \in Nat \ {0} /\ ThrottleMax \in Nat
  /\ ThrottleMin < ThrottleMax
  /\ RampStartup \in Nat /\ RampLowRpm \in Nat /\ RampHighRpm \in Nat
  /\ RampStartup <= RampLowRpm /\ RampLowRpm <= RampHighRpm

(* The throttle as a duty, between the idle duty and full scale. *)
MappedThrottle(input, minimum) ==
  MapRange(input, ThrottleMin, ThrottleMax, minimum, DutyScale)

(* The crossings until which a start is held in its limits; stall protection *)
(* halves them up to five times.                                            *)
StartupWindow(stallProtection) ==
  StartupCrossings \div (2 ^ Least(stallProtection, 5))

(* core's clamp panics when its limits are the wrong way round. *)
StartupHeld(crossings, stallProtection) ==
  crossings < StartupWindow(stallProtection)

LimitsInOrder(limits) == limits.min_startup <= limits.startup_max

ComputeSetpoint(input, limits, crossings, stallProtection) ==
  LET mapped == MappedThrottle(input, limits.minimum)
  IN  IF StartupHeld(crossings, stallProtection)
      THEN Clamp(mapped, limits.min_startup, limits.startup_max)
      ELSE mapped

(* The rate that the ramp allows; slow is an average interval above          *)
(* RAMP_LOW_RPM_INTERVAL.                                                   *)
MaxChange(last, crossings, slow) ==
  IF crossings < RampThreshold \/ last < RampThreshold THEN RampStartup
  ELSE IF slow THEN RampLowRpm ELSE RampHighRpm

(* Mutant: the way down has no limit while it is longer than two steps. *)
RampLimitedUpOnly(setpoint, last, change) ==
  IF setpoint > last + change THEN last + change
  ELSE IF last > setpoint + 2 * change THEN setpoint
  ELSE IF last > setpoint THEN last - change
  ELSE setpoint

(* ramp_limit, with a divider of zero: every tick moves the duty. *)
RampLimited(setpoint, last, change) ==
  IF setpoint > last + change THEN last + change
  ELSE IF last > setpoint + change THEN last - change
  ELSE setpoint

(* Mutant: the ceilings are applied before the boost. *)
CeilingsEarly(duty, boost, ceiling) == Least(duty, ceiling) + boost

(* clamp_ceilings: the boost comes after the ramp, and the ceilings last. *)
Ceilings(duty, boost, ceiling) == Least(duty + boost, ceiling)

=============================================================================
