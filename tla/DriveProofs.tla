----------------------------- MODULE DriveProofs -----------------------------
(***************************************************************************)
(* What the parts of the control path promise, each alone and where they are    *)
(* put together.  For every throttle, every setting, every ramp rate and         *)
(* ceiling and any number of disturbances, the duty stays in its range and       *)
(* starts softly.  For all gains and measurements the controllers stay in their   *)
(* ranges, and for every setting and every 16-bit measurement their arithmetic    *)
(* stays in 32 bits, so that the i32 of the code never overflows.  A crossing     *)
(* is confirmed and stepped for once, for every size of the sample counters and    *)
(* every threshold; and no wait goes round its 16 bits, for every pace, every      *)
(* interval at power-up and after a reset, and every advance up to half an        *)
(* interval.  A step of Drive is a step of one part and a stutter of the others.   *)
(***************************************************************************)
EXTENDS Drive, DirectionProofs, TLAPS

(***************************************************************************)
(* The arithmetic of the duty.                                              *)
(***************************************************************************)
LEMMA LeastMost ==
  ASSUME NEW a \in Int, NEW b \in Int
  PROVE  /\ Least(a, b) \in {a, b} /\ Least(a, b) <= a /\ Least(a, b) <= b
         /\ Most(a, b) \in {a, b} /\ Most(a, b) >= a /\ Most(a, b) >= b
BY SMT DEF Least, Most

LEMMA QuotientUpwards ==
  ASSUME NEW a \in Nat, NEW b \in Nat, b # 0
  PROVE  Quotient(a, b) \in Nat
<1>1. Most(a, -a) = a /\ Most(b, -b) = b
  BY SMT DEF Most
<1>2. a \div b \in Nat
  BY SMT
<1> QED  BY <1>1, <1>2, SMT DEF Quotient

(* The throttle never maps below the idle duty. *)
LEMMA MappedBound ==
  ASSUME NEW throttle \in Int, NEW minimum \in Nat, minimum <= DutyScale
  PROVE  MappedThrottle(throttle, minimum) \in Nat
<1> DEFINE c == Clamp(throttle, Least(ThrottleMin, ThrottleMax),
                             Most(ThrottleMin, ThrottleMax))
           up == c - ThrottleMin
           span == DutyScale - minimum
           range == ThrottleMax - ThrottleMin
<1>1. Least(ThrottleMin, ThrottleMax) = ThrottleMin
      /\ Most(ThrottleMin, ThrottleMax) = ThrottleMax
  BY DutyAssumption, SMT DEF Least, Most
<1>2. up \in Nat
  BY <1>1, DutyAssumption, SMT DEF Clamp, Least, Most
<1>3. span \in Nat /\ range \in Nat /\ range # 0
  BY DutyAssumption, SMT
<1>4. MappedThrottle(throttle, minimum) = minimum + Quotient(up * span, range)
  BY DutyAssumption, SMT DEF MappedThrottle, MapRange
<1> HIDE DEF up, span, range
<1>5. up * span \in Nat
  BY <1>2, <1>3, SMT
<1>6. Quotient(up * span, range) \in Nat
  BY <1>3, <1>5, QuotientUpwards
<1> QED  BY <1>4, <1>6, SMT

(* One ramp step goes up by no more than the change it is allowed, and never *)
(* below zero.                                                              *)
LEMMA RampStep ==
  ASSUME NEW target \in Nat, NEW from \in Nat, NEW change \in Nat
  PROVE  /\ RampLimited(target, from, change) \in Nat
         /\ RampLimited(target, from, change) <= from + change
BY SMT DEF RampLimited

LEMMA ChangeBound ==
  ASSUME NEW from \in Nat, NEW count \in Nat, NEW s \in BOOLEAN
  PROVE  MaxChange(from, count, s) \in Nat /\ MaxChange(from, count, s) <= RampHighRpm
BY DutyAssumption, SMT DEF MaxChange

LEMMA CeilingBound ==
  ASSUME NEW duty \in Nat, NEW boost \in Nat, NEW limit \in 0 .. DutyScale
  PROVE  /\ Ceilings(duty, boost, limit) \in 0 .. DutyScale
         /\ Ceilings(duty, boost, limit) <= duty + boost
BY DutyAssumption, SMT DEF Ceilings, Least

(***************************************************************************)
(* The limits that the settings give.                                        *)
(***************************************************************************)
LEMMA SettingBytes ==
  ASSUME NEW c \in DutySettings
  PROVE  /\ c.minimum_duty_cycle = 5 /\ c.startup_power \in Nat
         /\ c.pwm_frequency \in Nat /\ c.driving_brake_strength \in Nat
<1>1. /\ c.minimum_duty_cycle \in {5} /\ c.startup_power \in StartupPowers
      /\ c.pwm_frequency \in PwmFrequencies
      /\ c.driving_brake_strength \in BrakeStrengths
  BY DEF DutySettings
<1>2. \A x \in Byte : x \in Nat
  BY SMT DEF Byte
<1> QED  BY <1>1, <1>2, PowerAssumption

LEMMA DeadTimeNat ==
  ASSUME NEW c \in DutySettings
  PROVE  DeadTimeOverride(c, BoardDeadTime) \in Nat
<1>1. BoardDeadTime \in Nat
  BY PowerAssumption, SMT DEF Byte
<1>2. c.driving_brake_strength \in Nat
  BY SettingBytes
<1> QED  BY <1>1, <1>2, SMT DEF DeadTimeOverride

LEMMA LimitsTyped ==
  ASSUME NEW c \in DutySettings, NEW boost \in BOOLEAN
  PROVE  LimitsOf(c, boost) \in [minimum : Nat, min_startup : Nat, startup_max : Nat]
<1>1. /\ MinimumDutyBase(c) \in Nat /\ MinStartupBase(c) \in Nat
  BY SettingBytes, SMT DEF MinimumDutyBase, MinStartupBase
<1>2. (c.pwm_frequency * 100) \div 24 \in Nat /\ (c.pwm_frequency * 50) \div 24 \in Nat
  BY SettingBytes, SMT
<1>3. /\ MinimumDuty(c, boost) \in Nat /\ MinStartupDuty(c, boost) \in Nat
      /\ StartupMaxDuty(c) \in Nat
  BY <1>1, <1>2, SMT DEF MinimumDuty, MinStartupDuty, StartupMaxDuty
<1> QED  BY <1>3, DeadTimeNat DEF LimitsOf

(* Without the startup boost of the board, or with settings that leave it    *)
(* room, the limits of a start are the right way round.                      *)
LEMMA LimitsOrdered ==
  ASSUME NEW c \in DutySettings, NEW boost \in BOOLEAN,
         ~boost \/ c.startup_power + (c.pwm_frequency * 100) \div 24 <= 200
  PROVE  LimitsInOrder(LimitsOf(c, boost))
<1> DEFINE faster == (c.pwm_frequency * 100) \div 24
           base == MinimumDutyBase(c)
           dead_time == DeadTimeOverride(c, BoardDeadTime)
<1>1. /\ c.startup_power \in Nat /\ faster \in Nat
      /\ base \in Nat /\ dead_time \in Nat
  BY SettingBytes, DeadTimeNat, SMT DEF MinimumDutyBase
<1>2. LimitsOf(c, boost).min_startup = MinStartupDuty(c, boost) + dead_time
      /\ LimitsOf(c, boost).startup_max = StartupMaxDuty(c) + dead_time
  BY DEF LimitsOf
<1>3. MinStartupDuty(c, boost) = MinStartupBase(c) + (IF boost THEN 200 + faster ELSE 0)
  BY DEF MinStartupDuty
<1>4. MinStartupBase(c) = base + (IF c.startup_power \in 50 .. 150 THEN c.startup_power ELSE 0)
  BY DEF MinStartupBase
<1>5. StartupMaxDuty(c) = base + 400
  BY DEF StartupMaxDuty
<1>6. ~boost \/ c.startup_power + faster <= 200
  OBVIOUS
<1> HIDE DEF faster, base, dead_time
<1>7. MinStartupBase(c) \in Nat /\ MinStartupBase(c) <= base + 150
      /\ MinStartupBase(c) <= base + c.startup_power
  BY <1>1, <1>4, SMT
<1>8. MinStartupDuty(c, boost) \in Nat /\ MinStartupDuty(c, boost) <= base + 400
  <2>1. CASE boost
    BY <1>1, <1>3, <1>6, <1>7, <2>1, SMT
  <2>2. CASE ~boost
    BY <1>1, <1>3, <1>7, <2>2, SMT
  <2> QED  BY <2>1, <2>2
<1> QED  BY <1>1, <1>2, <1>5, <1>8, SMT DEF LimitsInOrder

(***************************************************************************)
(* The invariant: the limits are those of the settings, so that a halted     *)
(* chip tells of the settings.                                              *)
(***************************************************************************)
PowerInv ==
  /\ PowerTypeOK
  /\ limits = LimitsOf(settings, board_boost)
  /\ StartsWithoutPanic

LEMMA ThrottleTyped ==
  ASSUME PowerTypeOK
  PROVE  /\ input \in Nat /\ crossings \in Nat /\ low_rpm \in BOOLEAN
         /\ setpoint \in Nat /\ last \in Nat /\ stall_boost \in Nat
         /\ ceiling \in 0 .. DutyScale
         /\ limits.minimum \in Nat /\ limits.min_startup \in Nat
         /\ limits.startup_max \in Nat
<1>1. input \in Inputs \cup {0} /\ Inputs \subseteq 0 .. ThrottleMax
  BY PowerAssumption DEF PowerTypeOK
<1>2. input \in Nat
  BY <1>1, DutyAssumption, SMT
<1>3. crossings \in Nat
  BY PowerAssumption, SMT DEF PowerTypeOK
<1>4. stall_boost \in Nat
  BY PowerAssumption DEF PowerTypeOK
<1>5. ceiling \in 0 .. DutyScale
  <2>1. ceiling \in DutyCeilings \cup {DutyScale} /\ DutyCeilings \subseteq 1 .. DutyScale
    BY PowerAssumption DEF PowerTypeOK
  <2> QED  BY <2>1, DutyAssumption, SMT
<1>6. last \in Nat
  BY DutyAssumption, SMT DEF PowerTypeOK
<1> QED  BY <1>2, <1>3, <1>4, <1>5, <1>6 DEF PowerTypeOK

(* A tick that does not panic computes a setpoint that is not negative.     *)
LEMMA SetpointTyped ==
  ASSUME PowerInv, ~Panics
  PROVE  NewSetpoint \in Nat
<1> USE ThrottleTyped
<1>0. PowerTypeOK
  BY DEF PowerInv
<1>1. limits.minimum <= DutyScale
  BY <1>0, PowerAssumption DEF PowerInv, PowerTypeOK
<1>2. MappedThrottle(input, limits.minimum) \in Nat
  BY <1>0, <1>1, MappedBound
<1>3. CASE WantsPower
  <2> DEFINE mapped == MappedThrottle(input, limits.minimum)
  <2>1. ComputeSetpoint(input, limits, crossings, stall_protection)
          \in {mapped, Clamp(mapped, limits.min_startup, limits.startup_max)}
    BY DEF ComputeSetpoint
  <2>2. mapped \in Nat
    BY <1>2
  <2> HIDE DEF mapped
  <2>3. Clamp(mapped, limits.min_startup, limits.startup_max) \in Nat
    BY <1>0, <2>2, SMT DEF Clamp, Most, Least
  <2> QED  BY <1>3, <2>1, <2>2, <2>3 DEF NewSetpoint
<1>4. CASE ~WantsPower
  BY <1>0, <1>4 DEF NewSetpoint
<1> QED  BY <1>3, <1>4

(* The duty of a tick, from where the ramp starts.                           *)
LEMMA DutyOfTick ==
  ASSUME PowerInv, ~Panics
  PROVE  /\ NewDuty \in 0 .. DutyScale
         /\ NewDuty <= RampsFrom + RampHighRpm + stall_boost
<1> USE ThrottleTyped
<1>0. PowerTypeOK
  BY DEF PowerInv
<1> DEFINE change == MaxChange(RampsFrom, crossings, low_rpm)
           ramped == RampLimited(NewSetpoint, RampsFrom, change)
<1>1. NewSetpoint \in Nat /\ RampsFrom \in Nat
  BY <1>0, SetpointTyped DEF RampsFrom
<1>2. change \in Nat /\ change <= RampHighRpm
  BY <1>0, <1>1, ChangeBound
<1>3. Boost \in Nat /\ Boost <= stall_boost
  BY <1>0, SMT DEF Boost
<1>4. NewDuty = Ceilings(ramped, Boost, ceiling)
  BY DEF NewDuty
<1> HIDE DEF change
<1>5. ramped \in Nat /\ ramped <= RampsFrom + change
  BY <1>1, <1>2, RampStep
<1> HIDE DEF ramped
<1>6. NewDuty \in 0 .. DutyScale /\ NewDuty <= ramped + Boost
  BY <1>0, <1>3, <1>4, <1>5, CeilingBound
<1>7. NewDuty \in Nat
  BY <1>6, DutyAssumption, SMT
<1> QED
  BY <1>0, <1>1, <1>2, <1>3, <1>5, <1>6, <1>7, DutyAssumption, SMT

LEMMA PowerInitial ==
  PowerInit => PowerInv
<1> SUFFICES ASSUME PowerInit PROVE PowerInv
  OBVIOUS
<1>1. limits \in [minimum : Nat, min_startup : Nat, startup_max : Nat]
  BY LimitsTyped, PowerAssumption DEF PowerInit
<1>2. crossings \in 0 .. CrossingsCap /\ disturbances \in 0 .. MaxDisturbances
  BY PowerAssumption, SMT DEF PowerInit
<1>3. last \in 0 .. DutyScale
  BY DutyAssumption, SMT DEF PowerInit
<1>4. low_rpm \in BOOLEAN
  BY DEF PowerInit
<1> QED
  BY <1>1, <1>2, <1>3, <1>4, PowerAssumption
     DEF PowerInit, PowerInv, PowerTypeOK, StartsWithoutPanic

(* Every action keeps the invariant.                                        *)
LEMMA PowerStep ==
  PowerInv /\ [PowerNext]_powerVars => PowerInv'
<1> SUFFICES ASSUME PowerInv, [PowerNext]_powerVars PROVE PowerInv'
  OBVIOUS
<1>0. PowerTypeOK
  BY DEF PowerInv
<1>d. Disturbs => disturbances' \in 0 .. MaxDisturbances
  BY PowerAssumption, SMT DEF Disturbs, PowerInv, PowerTypeOK
<1> USE DEF PowerInv, PowerTypeOK, StartsWithoutPanic, configured
<1>1. CASE PowerTick
  <2>1. setpoint' \in Nat
    BY <1>1, SetpointTyped DEF PowerTick
  <2>2. last' \in 0 .. DutyScale
    BY <1>1, DutyOfTick DEF PowerTick
  <2> QED  BY <1>1, <2>1, <2>2 DEF PowerTick
<1>2. CASE Panic
  <2>1. ~LimitsInOrder(LimitsOf(settings, board_boost))
    BY <1>2 DEF Panic, Panics
  <2>2. settings \in DutySettings /\ board_boost \in BOOLEAN
    BY PowerAssumption
  <2>3. board_boost /\ ~(settings.startup_power
                          + (settings.pwm_frequency * 100) \div 24 <= 200)
    BY <2>1, <2>2, LimitsOrdered
  <2>4. settings.startup_power + (settings.pwm_frequency * 100) \div 24 > 200
    <3>1. settings.startup_power \in Nat /\ settings.pwm_frequency \in Nat
      BY <2>2, SettingBytes
    <3>2. (settings.pwm_frequency * 100) \div 24 \in Nat
      BY <3>1, SMT
    <3> QED  BY <2>3, <3>1, <3>2, SMT
  <2> QED  BY <1>2, <2>3, <2>4 DEF Panic
<1>3. CASE WatchdogReset
  <2>1. crossings' \in 0 .. CrossingsCap
    BY <1>3, PowerAssumption, SMT DEF WatchdogReset
  <2>2. last' \in 0 .. DutyScale
    BY <1>3, DutyAssumption, SMT DEF WatchdogReset
  <2>3. low_rpm' \in BOOLEAN
    BY <1>3 DEF WatchdogReset
  <2> QED  BY <1>3, <2>1, <2>2, <2>3, PowerAssumption DEF WatchdogReset
<1>4. CASE MoveThrottle
  BY <1>d, <1>4 DEF MoveThrottle, Disturbs
<1>5. CASE ArmMotor
  BY <1>d, <1>5 DEF ArmMotor, Disturbs
<1>6. CASE StopMotor
  <2>1. crossings' \in 0 .. CrossingsCap
    BY <1>6, PowerAssumption, SMT DEF StopMotor
  <2>2. motor' \in {"disarmed", "armed", "running", "halted"} /\ motor' # "halted"
    BY <1>6 DEF StopMotor
  <2> QED  BY <1>d, <1>6, <2>1, <2>2 DEF StopMotor, Disturbs
<1>7. CASE CrossZero
  <2>1. crossings' \in 0 .. CrossingsCap
    BY <1>7, PowerAssumption, SMT DEF CrossZero
  <2> QED  BY <1>7, <2>1 DEF CrossZero
<1>8. CASE LoseCrossings
  <2>1. crossings' \in 0 .. CrossingsCap
    BY <1>8, PowerAssumption, SMT DEF LoseCrossings
  <2> QED  BY <1>d, <1>8, <2>1 DEF LoseCrossings, Disturbs
<1>9. CASE AdjustBoost
  BY <1>d, <1>9 DEF AdjustBoost, Disturbs
<1>10. CASE AdjustCeiling
  BY <1>d, <1>10 DEF AdjustCeiling, Disturbs
<1>11. CASE UNCHANGED powerVars
  BY <1>11 DEF powerVars
<1> QED
  BY <1>1, <1>2, <1>3, <1>4, <1>5, <1>6, <1>7, <1>8, <1>9, <1>10, <1>11
     DEF PowerNext

(* What follows from the first state and the steps, whatever is fair. *)
LEMMA PowerHolds ==
  PowerInit /\ [][PowerNext]_powerVars => []PowerInv
BY PowerInitial, PowerStep, PTL

(* The duty stays between nothing and full scale, and no limit, ceiling or    *)
(* setpoint goes below zero (state.rs:57-135).                               *)
THEOREM PowerTypeCorrect ==
  PowerSpec => []PowerTypeOK
<1>1. PowerInv => PowerTypeOK
  BY DEF PowerInv
<1> QED  BY <1>1, PowerHolds, PTL DEF PowerSpec

(* No start panics on limits in the wrong order, for all settings and dead    *)
(* times, except with the board's startup boost and settings that exceed its  *)
(* room (config.rs:264-275, state.rs:72).                                   *)
THEOREM OnlyBoostedStartsPanic ==
  PowerSpec => []StartsWithoutPanic
<1>1. PowerInv => StartsWithoutPanic
  BY DEF PowerInv
<1> QED  BY <1>1, PowerHolds, PTL DEF PowerSpec

(* A start ramps from the startup duty. *)
LEMMA SoftlyHolds ==
  PowerInit /\ [][PowerNext]_powerVars => SoftStart
<1> DEFINE Soft == motor = "armed" /\ motor' = "running"
                     => last' <= limits.min_startup + RampHighRpm + stall_boost
<1>1. ASSUME PowerInv, [PowerNext]_powerVars PROVE [Soft]_powerVars
  <2> SUFFICES ASSUME motor = "armed", motor' = "running"
               PROVE  last' <= limits.min_startup + RampHighRpm + stall_boost
    OBVIOUS
  <2>1. PowerTick
    <3>1. PowerNext
      BY <1>1 DEF powerVars
    <3> QED
      BY <3>1 DEF PowerNext, Panic, WatchdogReset, MoveThrottle, ArmMotor, StopMotor,
                  CrossZero, LoseCrossings, AdjustBoost, AdjustCeiling
  <2>2. Starts /\ ~Panics
    BY <2>1 DEF PowerTick
  <2>3. last' <= RampsFrom + RampHighRpm + stall_boost
    BY <1>1, <2>1, <2>2, DutyOfTick DEF PowerTick
  <2> QED  BY <2>2, <2>3 DEF RampsFrom
<1>2. [PowerNext]_powerVars /\ PowerInv => [Soft]_powerVars
  BY <1>1
<1> QED  BY <1>2, PowerHolds, PTL DEF SoftStart

(* Every start is soft: its first duty is above the startup duty by no more   *)
(* than the steepest ramp step and the boost, whatever was left behind        *)
(* (isr_logic.rs:36-38, state.rs:138).                                      *)
THEOREM StartsSoftly ==
  PowerSpec => SoftStart
BY SoftlyHolds, PTL DEF PowerSpec

-----------------------------------------------------------------------------
(***************************************************************************)
(* The controllers that boost and limit the duty.                           *)
(***************************************************************************)
LEMMA WithinBounds ==
  ASSUME NEW x \in Int, NEW limit \in Nat
  PROVE  Within(x, limit) \in -limit .. limit
BY DEF Within

LEMMA ClampBounds ==
  ASSUME NEW x \in Int, NEW lo \in Int, NEW hi \in Int, lo <= hi
  PROVE  Clamp(x, lo, hi) \in lo .. hi
BY DEF Clamp, Least, Most

LEMMA QuotientInt ==
  ASSUME NEW a \in Int, NEW b \in Nat \ {0}
  PROVE  Quotient(a, b) \in Int
<1>1. Most(a, -a) \in Int /\ Most(b, -b) = b
  BY DEF Most
<1>2. Most(a, -a) \div Most(b, -b) \in Int
  BY <1>1, SMT
<1> QED  BY <1>2 DEF Quotient

-----------------------------------------------------------------------------
Gains == [kp : Nat, ki : Nat, kd : Nat, integral_limit : Nat, output_limit : Nat]

Pids(limit) == [integral : Integrals(limit), last_error : Int]

(* A call leaves the integral within its limit, and so is the result.         *)
LEMMA CallTyped ==
  ASSUME NEW gains \in Gains, NEW p \in Pids(gains.integral_limit),
         NEW actual \in Int, NEW target \in Int
  PROVE  /\ Output(p, gains, actual, target) \in -gains.output_limit .. gains.output_limit
         /\ After(p, gains, actual, target) \in Pids(gains.integral_limit)
<1> DEFINE e == Error(actual, target)
<1>1. e \in Int
  BY DEF Error
<1>2. /\ gains.kp \in Nat /\ gains.ki \in Nat /\ gains.kd \in Nat
      /\ gains.integral_limit \in Nat /\ gains.output_limit \in Nat
      /\ p.integral \in Int /\ p.last_error \in Int
  BY DEF Gains, Pids, Integrals
<1> HIDE DEF e
<1>3. e * gains.ki \in Int /\ e * gains.kp \in Int
      /\ gains.kd * (e - p.last_error) \in Int
  BY <1>1, <1>2, SMT
<1>4. Accumulated(p, gains, actual, target) \in Int
  BY <1>2, <1>3 DEF Accumulated, e
<1>5. Integral(p, gains, actual, target) \in -gains.integral_limit .. gains.integral_limit
  BY <1>2, <1>4, WithinBounds DEF Integral
<1>6. Summed(p, gains, actual, target) \in Int
  BY <1>2, <1>3, <1>5 DEF Summed, Derivative, e
<1>7. Output(p, gains, actual, target) \in -gains.output_limit .. gains.output_limit
  BY <1>2, <1>6, WithinBounds DEF Output
<1>8. After(p, gains, actual, target) \in Pids(gains.integral_limit)
  BY <1>1, <1>5 DEF After, Pids, Integrals, e
<1> QED  BY <1>7, <1>8

LEMMA GainsTyped ==
  LimitsTypeOK => /\ StallGains \in Gains /\ CurrentGains \in Gains
                  /\ stall_pid \in Pids(StallGains.integral_limit)
                  /\ current_pid \in Pids(CurrentGains.integral_limit)
BY LimitsAssumption DEF LimitsTypeOK, StallGains, CurrentGains, Gains, Pids

LEMMA BoostRange ==
  /\ BoostMax * PidUnit \in Nat
  /\ 0 \in 0 .. BoostMax * PidUnit
<1>1. BoostMax \in Nat /\ PidUnit \in Nat
  BY LimitsAssumption
<1> QED  BY <1>1, SMT

LEMMA LimitsInitial ==
  LimitsInit => LimitsTypeOK
<1>1. /\ NewPid \in Pids(StallIntegral) /\ NewPid \in Pids(CurrentIntegral)
      /\ FullCeiling \in FloorCeiling .. FullCeiling
      /\ 0 \in 0 .. MaxChanges
  BY LimitsAssumption DEF NewPid, Pids, Integrals
<1> QED  BY <1>1, BoostRange DEF LimitsInit, LimitsTypeOK, Pids

LEMMA LimitsStep ==
  LimitsTypeOK /\ [LimitsNext]_limitsVars => LimitsTypeOK'
<1> SUFFICES ASSUME LimitsTypeOK, [LimitsNext]_limitsVars
             PROVE  LimitsTypeOK'
  OBVIOUS
<1>0. rotor_interval \in Int /\ load \in Int /\ StallTarget \in Int /\ CurrentTarget \in Int
  BY LimitsAssumption DEF LimitsTypeOK
<1>1. CASE StallTick
  <2> DEFINE out  == Output(stall_pid, StallGains, rotor_interval, StallTarget)
             next == After(stall_pid, StallGains, rotor_interval, StallTarget)
  <2>1. /\ out \in -StallGains.output_limit .. StallGains.output_limit
        /\ next \in Pids(StallGains.integral_limit)
    BY <1>0, GainsTyped, CallTyped
  <2>2. out \in Int /\ next \in Pids(StallIntegral)
    BY <2>1, LimitsAssumption DEF StallGains
  <2>3. /\ stall_pid' = IF protects /\ turning THEN next ELSE stall_pid
        /\ stall_adjust' = IF protects /\ turning
                           THEN Clamp(stall_adjust + out, 0, BoostMax * PidUnit)
                           ELSE stall_adjust
        /\ at_limit' = TRUE
        /\ UNCHANGED <<limitsSettings, measured, current_pid, current_adjust>>
    BY <1>1, Zenon DEF StallTick
  <2> HIDE DEF out, next
  <2> DEFINE top == BoostMax * PidUnit
  <2>a. top \in Nat /\ stall_adjust \in 0 .. top
    BY BoostRange DEF LimitsTypeOK
  <2>b. stall_adjust' = IF protects /\ turning
                        THEN Clamp(stall_adjust + out, 0, top) ELSE stall_adjust
    BY <2>3
  <2> HIDE DEF top
  <2>c. stall_adjust + out \in Int
    BY <2>2, <2>a
  <2>f. 0 \in Int /\ top \in Int /\ 0 <= top
    BY <2>a
  <2>d. Clamp(stall_adjust + out, 0, top) \in 0 .. top
    BY Zenon, <2>c, <2>f, ClampBounds
  <2>e. stall_adjust' \in 0 .. top
    BY <2>a, <2>b, <2>d
  <2>4. stall_adjust' \in 0 .. BoostMax * PidUnit
    BY <2>e DEF top
  <2>5. stall_pid' \in Pids(StallIntegral)
    BY <2>2, <2>3 DEF LimitsTypeOK, Pids
  <2> QED  BY <2>3, <2>4, <2>5 DEF LimitsTypeOK, Pids, limitsSettings, measured
<1>2. CASE CurrentTick
  <2> DEFINE out  == Output(current_pid, CurrentGains, load, CurrentTarget)
             next == After(current_pid, CurrentGains, load, CurrentTarget)
             adj  == Quotient(out, PidUnit)
  <2>1. /\ out \in -CurrentGains.output_limit .. CurrentGains.output_limit
        /\ next \in Pids(CurrentGains.integral_limit)
    BY <1>0, GainsTyped, CallTyped
  <2>2. out \in Int /\ next \in Pids(CurrentIntegral)
    BY <2>1, LimitsAssumption DEF CurrentGains
  <2> HIDE DEF out, next
  <2>3. adj \in Int
    BY <2>2, QuotientInt, LimitsAssumption
  <2>4. /\ current_adjust' = IF LimitsNow
                             THEN Clamp(current_adjust - adj, FloorCeiling, FullCeiling)
                             ELSE FullCeiling
        /\ current_pid' = IF LimitsNow THEN next ELSE current_pid
        /\ at_limit' = FALSE
        /\ UNCHANGED <<limitsSettings, measured, stall_pid, stall_adjust>>
    BY <1>2 DEF CurrentTick, Ceiling, out, next
  <2> HIDE DEF adj
  <2>5. current_adjust' \in FloorCeiling .. FullCeiling
    BY <2>3, <2>4, ClampBounds, LimitsAssumption DEF LimitsTypeOK
  <2>6. current_pid' \in Pids(CurrentIntegral)
    BY <2>2, <2>4 DEF LimitsTypeOK, Pids
  <2> QED  BY <2>4, <2>5, <2>6 DEF LimitsTypeOK, Pids, limitsSettings, measured
<1>3. CASE MotorChanges
  <2>1. changes' \in 0 .. MaxChanges
    BY <1>3, LimitsAssumption DEF MotorChanges, LimitsTypeOK
  <2>2. turning' \in BOOLEAN
    BY <1>3, Zenon DEF MotorChanges, LimitsTypeOK
  <2>3. rotor_interval' \in Intervals /\ load' \in Loads
    BY <1>3 DEF MotorChanges, LimitsTypeOK
  <2>4. UNCHANGED <<protects, limits_current, current_ki, at_limit, stall_pid,
                    stall_adjust, current_pid, current_adjust>>
    BY <1>3, Zenon DEF MotorChanges, limitsSettings
  <2> QED  BY <2>1, <2>2, <2>3, <2>4 DEF LimitsTypeOK
<1>4. CASE UNCHANGED limitsVars
  BY <1>4 DEF limitsVars, LimitsTypeOK
<1> QED  BY <1>1, <1>2, <1>3, <1>4 DEF LimitsNext

LEMMA LimitsHolds ==
  LimitsInit /\ [][LimitsNext]_limitsVars => []LimitsTypeOK
BY LimitsInitial, LimitsStep, PTL

(* The boost stays between nothing and its maximum, and the ceiling between    *)
(* the idle duty and full scale, through every sequence of measurements,       *)
(* starts and stops, for all gains (state.rs:219-247).                       *)
THEOREM LimitsTypeCorrect == LimitsSpec => []LimitsTypeOK
BY LimitsHolds, PTL DEF LimitsSpec

-----------------------------------------------------------------------------
(* Ranges as bounds: the provers enumerate ranges of literals. *)
UpTo(n) == {x \in Nat : x <= n}
Word32 == {x \in Int : -2147483648 <= x /\ x <= 2147483647}

(* A product is bounded by the bounds of its factors.                         *)
LEMMA ProductBound ==
  ASSUME NEW x \in Int, NEW g \in Nat, NEW m \in Nat, NEW n \in Nat,
         -m <= x, x <= m, g <= n
  PROVE  -(m * n) <= x * g /\ x * g <= m * n
<1>1. m * g <= m * n
  BY SMT
<1>2. x * g <= m * g
  BY SMT
<1>3. -(m * g) <= x * g
  BY SMT
<1>4. m * g \in Int /\ m * n \in Int /\ x * g \in Int
  BY SMT
<1> QED  BY <1>1, <1>2, <1>3, <1>4

(* Bytes of the settings, twice such a byte, and the integral limits in use. *)
GainByte == UpTo(255)
GainTwice == UpTo(510)
IntegralLimit == UpTo(20000)

(* Gains from the settings, as PidState has them. *)
ByteGains ==
  [kp : GainTwice, ki : GainByte, kd : GainTwice,
   integral_limit : IntegralLimit, output_limit : Nat]

Words == {x \in Int : -65535 <= x /\ x <= 65535}

(* The three sums, on the numbers alone. *)
LEMMA SumsFit ==
  ASSUME NEW e \in Words, NEW before \in Words,
         NEW kp \in GainTwice, NEW ki \in GainByte, NEW kd \in GainTwice,
         NEW lim \in IntegralLimit, NEW sum \in -lim .. lim
  PROVE  /\ sum + e * ki \in Word32
         /\ kd * (e - before) \in Word32
         /\ \A i \in -lim .. lim : e * kp + i + kd * (e - before) \in Word32
<1> DEFINE d == e - before
<1>0. e \in Int /\ -65535 <= e /\ e <= 65535
  BY SMT DEF Words
<1>1. d \in Int /\ -131070 <= d /\ d <= 131070
  BY SMT DEF Words
<1> HIDE DEF d
<1>2. e * kp \in Int /\ -(65535 * 510) <= e * kp /\ e * kp <= 65535 * 510
  BY SMT, <1>0, ProductBound DEF UpTo, GainTwice, GainByte
<1>3. e * ki \in Int /\ -(65535 * 255) <= e * ki /\ e * ki <= 65535 * 255
  BY SMT, <1>0, ProductBound DEF UpTo, GainTwice, GainByte
<1>4. kd * d = d * kd
  BY SMT, <1>1 DEF UpTo, GainTwice, GainByte
<1>5. d * kd \in Int /\ -(131070 * 510) <= d * kd /\ d * kd <= 131070 * 510
  BY SMT, <1>1, ProductBound DEF UpTo, GainTwice, GainByte
<1>6. sum + e * ki \in Word32
  BY SMT, <1>3 DEF Word32, UpTo, GainTwice, GainByte, IntegralLimit
<1>7. kd * d \in Word32
  BY SMT, <1>4, <1>5 DEF Word32
<1>8. \A i \in -lim .. lim : e * kp + i + kd * d \in Word32
  BY SMT, <1>2, <1>4, <1>5 DEF Word32, UpTo, GainTwice, GainByte, IntegralLimit
<1> QED  BY <1>6, <1>7, <1>8 DEF d

LEMMA ByteGainsTyped ==
  ASSUME NEW gains \in ByteGains
  PROVE  /\ gains.kp \in GainTwice /\ gains.ki \in GainByte /\ gains.kd \in GainTwice
         /\ gains.integral_limit \in IntegralLimit
BY SMT DEF ByteGains

(* For every setting and every 16-bit measurement and target, no intermediate  *)
(* result of Pid::calculate leaves an i32, so that its unchecked arithmetic    *)
(* never goes round (pid.rs:33-57).                                          *)
THEOREM PidFitsWidth ==
  ASSUME NEW gains \in ByteGains,
         NEW p \in [integral : Integrals(gains.integral_limit), last_error : Words],
         NEW actual \in Int, NEW target \in Int, actual - target \in Words
  PROVE  /\ Accumulated(p, gains, actual, target) \in Word32
         /\ Derivative(p, gains, actual, target) \in Word32
         /\ Summed(p, gains, actual, target) \in Word32
<1>1. Error(actual, target) \in Words
  BY DEF Error
<1>2. p.last_error \in Words /\ p.integral \in Integrals(gains.integral_limit)
  OBVIOUS
<1>3. p.integral \in -gains.integral_limit .. gains.integral_limit
  BY <1>2 DEF Integrals
<1> DEFINE e == Error(actual, target)
           lim == gains.integral_limit
           back == Derivative(p, gains, actual, target)
           sum == Accumulated(p, gains, actual, target)
<1>4. /\ sum \in Word32 /\ back \in Word32
      /\ \A i \in -lim .. lim : e * gains.kp + i + back \in Word32
  BY Zenon, <1>1, <1>2, <1>3, ByteGainsTyped, SumsFit DEF Accumulated, Derivative
<1>5. sum \in Int /\ lim \in Nat
  BY SMT, <1>4, ByteGainsTyped DEF Word32, UpTo, GainTwice, GainByte, IntegralLimit
<1>6. Integral(p, gains, actual, target) \in -lim .. lim
  <2>1. Within(sum, lim) \in -lim .. lim
    BY Zenon, <1>5, WithinBounds
  <2>2. Integral(p, gains, actual, target) = Within(sum, lim)
    BY Zenon DEF Integral
  <2> QED  BY Zenon, <2>1, <2>2
<1>7. Summed(p, gains, actual, target) \in Word32
  BY Zenon, <1>4, <1>6 DEF Summed
<1> QED  BY <1>4, <1>7

-----------------------------------------------------------------------------
(***************************************************************************)
(* Crossings and waits.  CountInv relates the counters of a step to the exact     *)
(* tally: there are at least as many agreeing samples as the count says, and       *)
(* while the contrary ones are tolerated they are at most one more than bad_count   *)
(* says, the one that took it round; once they are not tolerated, none is among     *)
(* the counted.  RelayInv adds to StepsForCrossing what a doubled step costs: the   *)
(* timer can double one step in two that are counted since the fallback, since      *)
(* polling has to overtake it with a step of its own each time.                  *)
(***************************************************************************)

CountInv ==
  /\ tally.agreeing >= samples.counter
  /\ samples.bad_count <= BadThreshold => tally.contrary <= samples.bad_count + 1
  /\ samples.bad_count > BadThreshold => tally.contrary = 0
  /\ CrossingsConfirmed

(* Polling has taken the step that the comparator armed the timer for. *)
Overtaken == com_timer = "comp" /\ ~fresh

RelayInv ==
  /\ Overtaken => 2 * doubled <= zero_crosses
  /\ ~Overtaken => 2 * doubled <= zero_crosses + 1
  /\ StepsForCrossing

(* A counter that goes round stays in its range, and is either one more or 0. *)
LEMMA CountedOn ==
  ASSUME NEW n \in 0 .. SampleSize - 1
  PROVE  /\ (n + 1) % SampleSize \in 0 .. SampleSize - 1
         /\ (n + 1) % SampleSize = IF n + 1 < SampleSize THEN n + 1 ELSE 0
<1>1. SampleSize \in Nat /\ SampleSize > 0
  BY BemfAssumption
<1>2. CASE n + 1 < SampleSize
  <2>1. (n + 1) % SampleSize = n + 1
    BY <1>1, <1>2, SMT
  <2> QED  BY <1>1, <1>2, <2>1
<1>3. CASE n + 1 = SampleSize
  <2>1. (n + 1) % SampleSize = 0
    BY <1>1, <1>3, SMT
  <2> QED  BY <1>1, <2>1
<1> QED  BY <1>1, <1>2, <1>3

(* What a sample does to the counters. *)
LEMMA SampledTyped ==
  ASSUME NEW b \in Samples, NEW agrees \in BOOLEAN
  PROVE  /\ Sampled(b, agrees) \in Samples
         /\ Sampled(b, agrees).zc_found = b.zc_found
         /\ Sampled(b, agrees).counter \in {0, b.counter, b.counter + 1}
         /\ ~agrees => Sampled(b, agrees).counter \in {0, b.counter}
         /\ agrees => Sampled(b, agrees).bad_count = b.bad_count
         /\ ~agrees => /\ Sampled(b, agrees).bad_count =
                            IF b.bad_count + 1 < SampleSize THEN b.bad_count + 1 ELSE 0
                       /\ Sampled(b, agrees).bad_count > BadThreshold
                            => Sampled(b, agrees).counter = 0
<1> DEFINE up  == (b.counter + 1) % SampleSize
           bad == (b.bad_count + 1) % SampleSize
<1>1. up \in 0 .. SampleSize - 1 /\ up \in {0, b.counter + 1}
  BY CountedOn DEF Samples
<1>2. /\ bad \in 0 .. SampleSize - 1
      /\ bad = IF b.bad_count + 1 < SampleSize THEN b.bad_count + 1 ELSE 0
  BY CountedOn DEF Samples
<1>3. Sampled(b, agrees) =
        IF agrees THEN [b EXCEPT !.counter = up]
        ELSE [b EXCEPT !.bad_count = bad,
                       !.counter = IF bad > BadThreshold THEN 0 ELSE @]
  BY DEF Sampled
<1>4. 0 \in 0 .. SampleSize - 1
  BY BemfAssumption
<1> HIDE DEF up, bad
<1> QED  BY <1>1, <1>2, <1>3, <1>4 DEF Samples

(* NewSamples is a state of the counters. *)
LEMMA NewSamplesTyped ==
  NewSamples \in Samples
BY BemfAssumption DEF NewSamples, Samples

LEMMA CountedTyped ==
  ASSUME NEW n \in 0 .. ZeroCrossingsCap
  PROVE  Counted(n) \in 0 .. ZeroCrossingsCap
BY ZeroCrossAssumption DEF Counted

(* The tally is of its type, and either starts over or grows by the sample. *)
Tallies == [agreeing : 0 .. SampleSize, contrary : 0 .. SampleSize]

LEMMA TalliedTyped ==
  ASSUME ZeroTypeOK, NEW b \in Samples, NEW agrees \in BOOLEAN
  PROVE  /\ Tallied(b, agrees) \in Tallies
         /\ b.counter = 0 => Tallied(b, agrees) = NoSamples
         /\ b.counter # 0 /\ agrees =>
              /\ Tallied(b, agrees).agreeing = Upped(tally.agreeing)
              /\ Tallied(b, agrees).contrary = tally.contrary
         /\ b.counter # 0 /\ ~agrees =>
              /\ Tallied(b, agrees).agreeing = tally.agreeing
              /\ Tallied(b, agrees).contrary = Upped(tally.contrary)
<1>1. tally \in Tallies
  BY DEF ZeroTypeOK, Tallies
<1>2. \A n \in 0 .. SampleSize : Upped(n) \in 0 .. SampleSize
  BY BemfAssumption DEF Upped
<1>3. NoSamples \in Tallies
  BY BemfAssumption DEF NoSamples, Tallies
<1> QED  BY <1>1, <1>2, <1>3 DEF Tallied, Tallies

-----------------------------------------------------------------------------
(* Every variable keeps its type: the counters of bemf_polling stay in their   *)
(* width and zero_crosses below its cap (state.rs:505-526).                  *)
LEMMA TypeStep ==
  ZeroTypeOK /\ [ZeroNext]_zeroVars => ZeroTypeOK'
<1> SUFFICES ASSUME ZeroTypeOK, [ZeroNext]_zeroVars
             PROVE  ZeroTypeOK'
  OBVIOUS
<1> DEFINE Finds == [agreeing : 0 .. SampleSize, contrary : 0 .. SampleSize,
                     needed : MinCounts \union {0}]
<1>0. /\ tally \in Tallies /\ found_with \in Finds
      /\ NoSamples \in Tallies /\ NothingFound \in Finds
  BY BemfAssumption DEF ZeroTypeOK, Tallies, NoSamples, NothingFound
<1>1. ASSUME NEW agrees \in BOOLEAN, Poll(agrees)
      PROVE  ZeroTypeOK'
  <2> DEFINE b     == Sampled(samples, agrees)
             found == Detected(b, min_counts)
             steps == found /\ zero_crosses < StepAtOnce
             among == Tallied(b, agrees)
             with  == [agreeing |-> among.agreeing, contrary |-> among.contrary,
                       needed |-> min_counts]
  <2>1. b \in Samples
    BY SampledTyped DEF ZeroTypeOK
  <2>2. among \in Tallies
    BY <2>1, TalliedTyped
  <2>3. /\ comp_irq' = FALSE
        /\ samples' = IF steps THEN NewSamples ELSE [b EXCEPT !.zc_found = @ \/ found]
        /\ com_timer' = IF found /\ ~steps THEN "poll" ELSE com_timer
        /\ zero_crosses' = IF steps THEN Counted(zero_crosses) ELSE zero_crosses
        /\ fresh' = IF steps THEN FALSE ELSE fresh \/ found
        /\ tally' = IF steps THEN NoSamples ELSE among
        /\ found_with' = IF found THEN with ELSE NothingFound
        /\ UNCHANGED <<old_routine, min_counts, to_store, doubled>>
    BY <1>1, Zenon DEF Poll
  <2>4. found \in BOOLEAN
    BY DEF Detected
  <2>5. with \in Finds
    BY <2>2 DEF ZeroTypeOK, Tallies
  <2> HIDE DEF b, found, among, with, Finds
  <2>6. samples' \in Samples
    BY <2>1, <2>3, <2>4, NewSamplesTyped DEF Samples
  <2>7. zero_crosses' \in 0 .. ZeroCrossingsCap
    BY <2>3, CountedTyped DEF ZeroTypeOK
  <2>8. fresh' \in BOOLEAN
    BY <2>3, <2>4 DEF ZeroTypeOK
  <2>9. tally' \in Tallies
    BY <1>0, <2>2, <2>3
  <2>10. found_with' \in Finds
    BY <1>0, <2>3, <2>5
  <2> QED
    BY <2>3, <2>6, <2>7, <2>8, <2>9, <2>10 DEF ZeroTypeOK, Tallies, Finds
<1>2. CASE CompFires
  BY <1>2 DEF CompFires, ZeroTypeOK
<1>3. CASE TimerExpires
  <2>1. zero_crosses' \in 0 .. ZeroCrossingsCap
    BY <1>3, CountedTyped DEF TimerExpires, ZeroTypeOK
  <2>2. tally' \in Tallies
    BY <1>0, <1>3 DEF TimerExpires
  <2> HIDE DEF Finds
  <2>3. found_with' \in Finds
    BY <1>0, <1>3 DEF TimerExpires
  <2>4. doubled' \in Nat
    BY <1>3 DEF TimerExpires, ZeroTypeOK
  <2> QED  BY <1>3, <2>1, <2>2, <2>3, <2>4, NewSamplesTyped
           DEF TimerExpires, ZeroTypeOK, Tallies, Finds
<1>4. ASSUME NEW store \in Stores, FallBack(store)
      PROVE  ZeroTypeOK'
  <2>1. zero_crosses' \in 0 .. ZeroCrossingsCap /\ doubled' \in Nat
    BY <1>4, ZeroCrossAssumption DEF FallBack, ZeroTypeOK
  <2>2. to_store' \subseteq Stores /\ old_routine' \in BOOLEAN
    BY <1>4 DEF FallBack, ZeroTypeOK
  <2> QED  BY <1>4, <2>1, <2>2 DEF FallBack, ZeroTypeOK
<1>5. CASE PublishCounts
  BY <1>5 DEF PublishCounts, ZeroTypeOK
<1>6. CASE UNCHANGED zeroVars
  BY <1>6 DEF zeroVars, ZeroTypeOK
<1> QED  BY <1>1, <1>2, <1>3, <1>4, <1>5, <1>6 DEF ZeroNext

LEMMA TypeInitial ==
  ZeroInit => ZeroTypeOK
<1>1. 0 \in 0 .. ZeroCrossingsCap
  BY ZeroCrossAssumption
<1>2. 0 \in 0 .. SampleSize
  BY BemfAssumption
<1>3. /\ NoSamples \in [agreeing : 0 .. SampleSize, contrary : 0 .. SampleSize]
      /\ NothingFound \in [agreeing : 0 .. SampleSize, contrary : 0 .. SampleSize,
                           needed : MinCounts \union {0}]
  BY <1>2 DEF NoSamples, NothingFound
<1> SUFFICES ASSUME ZeroInit PROVE ZeroTypeOK
  OBVIOUS
<1>4. tally = NoSamples /\ found_with = NothingFound
  BY DEF ZeroInit
<1>5. /\ tally \in [agreeing : 0 .. SampleSize, contrary : 0 .. SampleSize]
      /\ found_with \in [agreeing : 0 .. SampleSize, contrary : 0 .. SampleSize,
                         needed : MinCounts \union {0}]
  BY <1>3, <1>4, Zenon
<1>6. doubled \in Nat /\ to_store \subseteq Stores
  BY DEF ZeroInit
<1> QED  BY <1>1, <1>5, <1>6, NewSamplesTyped DEF ZeroInit, ZeroTypeOK

(* What follows from the first state and the steps, whatever is fair. *)
LEMMA ZeroTypesHold ==
  ZeroInit /\ [][ZeroNext]_zeroVars => []ZeroTypeOK
BY TypeInitial, TypeStep, PTL

(* Every variable of ZeroCross keeps its type, whatever width the sample       *)
(* counters of bemf_polling have (state.rs:505-526).                         *)
THEOREM ZeroTypeCorrect == ZeroSpec => []ZeroTypeOK
BY ZeroTypesHold, PTL DEF ZeroSpec

-----------------------------------------------------------------------------
(* A poll keeps the counters related to the tally: an agreeing sample is in     *)
(* both, and a contrary one is counted only while they are tolerated.          *)
LEMMA CountPoll ==
  ASSUME ZeroTypeOK, CountInv, NEW agrees \in BOOLEAN, Poll(agrees)
  PROVE  CountInv'
<1> DEFINE b     == Sampled(samples, agrees)
           found == Detected(b, min_counts)
           steps == found /\ zero_crosses < StepAtOnce
           among == Tallied(b, agrees)
<1>1. /\ samples' = IF steps THEN NewSamples ELSE [b EXCEPT !.zc_found = @ \/ found]
      /\ tally' = IF steps THEN NoSamples ELSE among
      /\ found_with' = IF found THEN [agreeing |-> among.agreeing,
                                      contrary |-> among.contrary,
                                      needed   |-> min_counts]
                       ELSE NothingFound
  BY Zenon DEF Poll
<1>2. b \in Samples
  BY SampledTyped DEF ZeroTypeOK
<1>3. /\ agrees => b.bad_count = samples.bad_count
      /\ ~agrees => /\ b.bad_count = IF samples.bad_count + 1 < SampleSize
                                     THEN samples.bad_count + 1 ELSE 0
                    /\ b.bad_count > BadThreshold => b.counter = 0
      /\ b.counter \in {0, samples.counter, samples.counter + 1}
      /\ ~agrees => b.counter \in {0, samples.counter}
  BY SampledTyped DEF ZeroTypeOK
<1>4. /\ samples.bad_count \in 0 .. SampleSize - 1
      /\ samples.counter \in 0 .. SampleSize - 1
      /\ tally.agreeing \in 0 .. SampleSize /\ tally.contrary \in 0 .. SampleSize
      /\ b.bad_count \in 0 .. SampleSize - 1 /\ b.counter \in 0 .. SampleSize - 1
      /\ SampleSize \in Nat /\ BadThreshold \in Nat /\ BadThreshold + 1 < SampleSize
  BY <1>2, BemfAssumption DEF ZeroTypeOK, Samples
<1>5. /\ among \in Tallies
      /\ b.counter = 0 => among.agreeing = 0 /\ among.contrary = 0
      /\ b.counter # 0 /\ agrees => /\ among.agreeing = Upped(tally.agreeing)
                                    /\ among.contrary = tally.contrary
      /\ b.counter # 0 /\ ~agrees => /\ among.agreeing = tally.agreeing
                                     /\ among.contrary = Upped(tally.contrary)
  BY <1>2, TalliedTyped DEF NoSamples
<1>6. found => b.counter > min_counts
  BY DEF Detected
<1> HIDE DEF b, found, among
<1>7. among.agreeing \in 0 .. SampleSize /\ among.contrary \in 0 .. SampleSize
  BY <1>5 DEF Tallies
<1>8. among.agreeing >= b.counter
  <2>1. CASE b.counter = 0
    BY <1>7, <2>1
  <2>2. CASE b.counter # 0 /\ agrees
    BY <1>3, <1>4, <1>5, <2>2 DEF CountInv, Upped
  <2>3. CASE b.counter # 0 /\ ~agrees
    BY <1>3, <1>4, <1>5, <2>3 DEF CountInv
  <2> QED  BY <2>1, <2>2, <2>3
<1>9. /\ b.bad_count <= BadThreshold => among.contrary <= b.bad_count + 1
      /\ b.bad_count > BadThreshold => among.contrary = 0
  <2>1. CASE b.counter = 0
    BY <1>4, <1>5, <2>1
  <2>2. CASE b.counter # 0 /\ agrees
    BY <1>3, <1>4, <1>5, <2>2 DEF CountInv
  <2>3. CASE b.counter # 0 /\ ~agrees /\ samples.bad_count + 1 < SampleSize
    BY <1>3, <1>4, <1>5, <2>3 DEF CountInv, Upped
  <2>4. CASE b.counter # 0 /\ ~agrees /\ samples.bad_count + 1 = SampleSize
    <3>1. b.bad_count = 0
      BY <1>3, <1>4, <2>4
    <3>2. tally.contrary = 0
      BY <1>4, <2>4 DEF CountInv
    <3> QED  BY <1>4, <1>5, <2>4, <3>1, <3>2 DEF Upped
  <2> QED  BY <1>4, <2>1, <2>2, <2>3, <2>4
<1>10. among.contrary <= BadThreshold + 1
  BY <1>4, <1>7, <1>9
<1>11. CrossingsConfirmed'
  <2>1. CASE found
    <3>1. /\ found_with'.agreeing = among.agreeing
          /\ found_with'.contrary = among.contrary
          /\ found_with'.needed = min_counts
      BY <1>1, <2>1
    <3>2. min_counts \in Nat
      BY ZeroCrossAssumption, BemfAssumption DEF ZeroTypeOK
    <3> QED  BY <1>4, <1>6, <1>7, <1>8, <1>10, <2>1, <3>1, <3>2
             DEF CrossingsConfirmed
  <2>2. CASE ~found
    BY <1>1, <2>2 DEF CountInv, CrossingsConfirmed
  <2> QED  BY <2>1, <2>2
<1>12. CASE steps
  <2>1. samples'.bad_count = 0 /\ samples'.counter = 0 /\ tally' = NoSamples
    BY <1>1, <1>12 DEF NewSamples
  <2> QED  BY <1>4, <1>11, <2>1 DEF CountInv, NoSamples
<1>13. CASE ~steps
  <2>1. /\ samples'.bad_count = b.bad_count /\ samples'.counter = b.counter
        /\ tally' = among
    BY <1>1, <1>2, <1>13 DEF Samples
  <2> QED  BY <1>8, <1>9, <1>11, <2>1 DEF CountInv
<1> QED  BY <1>12, <1>13

LEMMA CountStep ==
  ZeroTypeOK /\ CountInv /\ [ZeroNext]_zeroVars => CountInv'
<1> SUFFICES ASSUME ZeroTypeOK, CountInv, [ZeroNext]_zeroVars
             PROVE  CountInv'
  OBVIOUS
<1> USE DEF CountInv, CrossingsConfirmed
<1>1. ASSUME NEW agrees \in BOOLEAN, Poll(agrees)
      PROVE  CountInv'
  BY <1>1, CountPoll
<1>2. CASE CompFires
  BY <1>2 DEF CompFires
<1>3. CASE TimerExpires
  BY <1>3, BemfAssumption DEF TimerExpires, NewSamples, NoSamples
<1>4. ASSUME NEW store \in Stores, FallBack(store)
      PROVE  CountInv'
  BY <1>4 DEF FallBack
<1>5. CASE PublishCounts
  BY <1>5 DEF PublishCounts
<1>6. CASE UNCHANGED zeroVars
  BY <1>6 DEF zeroVars
<1> QED  BY <1>1, <1>2, <1>3, <1>4, <1>5, <1>6 DEF ZeroNext

LEMMA CountInitial ==
  ZeroInit => CountInv
BY BemfAssumption DEF ZeroInit, CountInv, CrossingsConfirmed, NewSamples,
   NoSamples

LEMMA CountHolds ==
  ZeroInit /\ [][ZeroNext]_zeroVars => []CrossingsConfirmed
<1>1. ZeroInit => ZeroTypeOK /\ CountInv
  BY TypeInitial, CountInitial
<1>2. ZeroTypeOK /\ CountInv /\ [ZeroNext]_zeroVars => (ZeroTypeOK /\ CountInv)'
  BY TypeStep, CountStep
<1>3. CountInv => CrossingsConfirmed
  BY DEF CountInv
<1> QED  BY <1>1, <1>2, <1>3, PTL

(* A crossing that polling finds has more agreeing samples than min_bemf_counts *)
(* said, and among them at most one contrary sample more than a step tolerates, *)
(* for every threshold and every width of the counters that leaves it room      *)
(* (state.rs:444-452, 505-526).                                             *)
THEOREM CrossingsAlwaysConfirmed == ZeroSpec => []CrossingsConfirmed
BY CountHolds, PTL DEF ZeroSpec

-----------------------------------------------------------------------------
(* A poll arms the timer only for a crossing that it has just found, and       *)
(* finds none while one waits; a step of its own that overtakes the            *)
(* comparator's timer is counted.                                           *)
LEMMA RelayPoll ==
  ASSUME ZeroTypeOK, RelayInv, NEW agrees \in BOOLEAN, Poll(agrees)
  PROVE  RelayInv'
<1> DEFINE b     == Sampled(samples, agrees)
           found == Detected(b, min_counts)
           steps == found /\ zero_crosses < StepAtOnce
<1>1. /\ old_routine
      /\ samples' = IF steps THEN NewSamples ELSE [b EXCEPT !.zc_found = @ \/ found]
      /\ com_timer' = IF found /\ ~steps THEN "poll" ELSE com_timer
      /\ zero_crosses' = IF steps THEN Counted(zero_crosses) ELSE zero_crosses
      /\ fresh' = IF steps THEN FALSE ELSE fresh \/ found
      /\ UNCHANGED <<old_routine, doubled>>
  BY Zenon DEF Poll
<1>2. b \in Samples /\ b.zc_found = samples.zc_found
  BY SampledTyped DEF ZeroTypeOK
<1>3. found => ~samples.zc_found
  BY <1>2 DEF Detected
<1>4. found \in BOOLEAN /\ fresh \in BOOLEAN
  BY DEF Detected, ZeroTypeOK
<1>5. /\ zero_crosses \in 0 .. ZeroCrossingsCap /\ doubled \in Nat
      /\ StepAtOnce \in Nat /\ ZeroCrossingsCap \in Nat
      /\ StepAtOnce < ZeroCrossingsCap
  BY ZeroCrossAssumption DEF ZeroTypeOK
<1> HIDE DEF b, found
<1>6. ASSUME com_timer' = "poll"
      PROVE  fresh' /\ samples'.zc_found
  <2>1. CASE found
    <3>1. ~steps
      BY <1>1, <1>3, <1>6, <2>1 DEF RelayInv, StepsForCrossing
    <3>2. samples' = [b EXCEPT !.zc_found = b.zc_found \/ found]
      BY <1>1, <3>1
    <3> QED  BY <1>1, <1>2, <2>1, <3>1, <3>2 DEF Samples
  <2>2. CASE ~found
    <3>1. com_timer = "poll"
      BY <1>1, <1>6, <2>2
    <3>2. fresh /\ samples.zc_found
      BY <3>1 DEF RelayInv, StepsForCrossing
    <3>3. samples' = [b EXCEPT !.zc_found = b.zc_found \/ found] /\ fresh' = (fresh \/ found)
      BY <1>1, <2>2
    <3> QED  BY <1>2, <3>2, <3>3 DEF Samples
  <2> QED  BY <2>1, <2>2
<1>7. CASE steps
  <2>1. zero_crosses' = zero_crosses + 1 /\ zero_crosses < StepAtOnce
    BY <1>1, <1>5, <1>7 DEF Counted
  <2>2. 2 * doubled <= zero_crosses + 1
    BY <1>5 DEF RelayInv
  <2> QED  BY <1>1, <1>5, <1>6, <2>1, <2>2 DEF RelayInv, StepsForCrossing, Overtaken
<1>8. CASE ~steps
  <2>1. zero_crosses' = zero_crosses /\ fresh' = (fresh \/ found)
    BY <1>1, <1>8
  <2>2. Overtaken' => Overtaken
    BY <1>1, <1>4, <1>8, <2>1 DEF Overtaken
  <2>3. 2 * doubled <= zero_crosses + 1
    BY <1>5 DEF RelayInv
  <2> QED  BY <1>1, <1>6, <2>1, <2>2, <2>3 DEF RelayInv, StepsForCrossing, Overtaken
<1> QED  BY <1>7, <1>8

(* A timer that was overtaken doubles a step, and counts it as well. *)
LEMMA RelayTimer ==
  ASSUME ZeroTypeOK, RelayInv, TimerExpires
  PROVE  RelayInv'
<1>1. /\ zero_crosses \in 0 .. ZeroCrossingsCap /\ doubled \in Nat
      /\ StepAtOnce \in Nat /\ ZeroCrossingsCap \in Nat
      /\ StepAtOnce < ZeroCrossingsCap
  BY ZeroCrossAssumption DEF ZeroTypeOK
<1>2. /\ com_timer \in {"poll", "comp"} /\ com_timer' = "off"
      /\ zero_crosses' = Counted(zero_crosses)
      /\ doubled' = IF fresh THEN doubled ELSE doubled + 1
  BY DEF TimerExpires, ZeroTypeOK
<1>3. CASE fresh
  <2>1. 2 * doubled <= zero_crosses + 1 /\ 2 * doubled <= StepAtOnce + 2
    BY <1>1 DEF RelayInv, StepsForCrossing
  <2>2. zero_crosses' >= zero_crosses
    BY <1>1, <1>2 DEF Counted
  <2>3. zero_crosses' \in Nat
    BY <1>1, <1>2 DEF Counted
  <2> QED  BY <1>1, <1>2, <1>3, <2>1, <2>2, <2>3 DEF RelayInv, StepsForCrossing, Overtaken
<1>4. CASE ~fresh
  <2>1. com_timer = "comp"
    BY <1>2, <1>4 DEF RelayInv, StepsForCrossing
  <2>2. 2 * doubled <= zero_crosses /\ zero_crosses <= StepAtOnce
    BY <1>4, <2>1 DEF RelayInv, StepsForCrossing, Overtaken
  <2>3. zero_crosses' = zero_crosses + 1 /\ doubled' = doubled + 1
    BY <1>1, <1>2, <1>4, <2>2 DEF Counted
  <2> QED  BY <1>1, <1>2, <2>2, <2>3 DEF RelayInv, StepsForCrossing, Overtaken
<1> QED  BY <1>3, <1>4

LEMMA RelayStep ==
  ZeroTypeOK /\ RelayInv /\ [ZeroNext]_zeroVars => RelayInv'
<1> SUFFICES ASSUME ZeroTypeOK, RelayInv, [ZeroNext]_zeroVars
             PROVE  RelayInv'
  OBVIOUS
<1> USE DEF RelayInv, StepsForCrossing, Overtaken
<1>1. ASSUME NEW agrees \in BOOLEAN, Poll(agrees)
      PROVE  RelayInv'
  BY <1>1, RelayPoll
<1>2. CASE CompFires
  <2>1. 2 * doubled <= zero_crosses + 1
    BY ZeroCrossAssumption DEF ZeroTypeOK
  <2> QED  BY <1>2, <2>1 DEF CompFires
<1>3. CASE TimerExpires
  BY <1>3, RelayTimer
<1>4. ASSUME NEW store \in Stores, FallBack(store)
      PROVE  RelayInv'
  <2>1. CASE store = "routine"
    BY <1>4, <2>1 DEF FallBack
  <2>2. CASE store = "count"
    BY <1>4, <2>2, ZeroCrossAssumption DEF FallBack
  <2> QED  BY <2>1, <2>2 DEF Stores
<1>5. CASE PublishCounts
  BY <1>5 DEF PublishCounts
<1>6. CASE UNCHANGED zeroVars
  BY <1>6 DEF zeroVars
<1> QED  BY <1>1, <1>2, <1>3, <1>4, <1>5, <1>6 DEF ZeroNext

LEMMA RelayInitial ==
  ZeroInit => RelayInv
BY ZeroCrossAssumption DEF ZeroInit, RelayInv, StepsForCrossing, Overtaken

LEMMA RelayHolds ==
  ZeroInit /\ [][ZeroNext]_zeroVars => []StepsForCrossing
<1>1. ZeroInit => ZeroTypeOK /\ RelayInv
  BY TypeInitial, RelayInitial
<1>2. ZeroTypeOK /\ RelayInv /\ [ZeroNext]_zeroVars => (ZeroTypeOK /\ RelayInv)'
  BY TypeStep, RelayStep
<1>3. RelayInv => StepsForCrossing
  BY DEF RelayInv
<1> QED  BY <1>1, <1>2, <1>3, PTL

(* A timer that polling armed always steps for its crossing.  One that the      *)
(* comparator armed does so too unless polling has overtaken it, which happens  *)
(* in the polling routine during the first crossings after a fallback only, and *)
(* doubles no more than (StepAtOnce + 2) / 2 steps per fallback               *)
(* (isr_logic.rs:133-225).                                                  *)
THEOREM StepsAlwaysForCrossing == ZeroSpec => []StepsForCrossing
BY RelayHolds, PTL DEF ZeroSpec

(* Both together: enough samples for every crossing that polling finds, and no   *)
(* step of the timer for no crossing beyond those bounded double steps           *)
(* (state.rs:444-452, 505-526, isr_logic.rs:133-225).                        *)
THEOREM CrossingsAlwaysCounted == ZeroSpec => []CrossingsCounted
BY CrossingsAlwaysConfirmed, StepsAlwaysForCrossing, PTL DEF CrossingsCounted

-----------------------------------------------------------------------------
(***************************************************************************)
(* The interval and the waits, in the timer's words.                         *)
(***************************************************************************)
(* The words' size as a fact: the provers enumerate ranges of literals.        *)
LEMMA WordSize ==
  Word \in Nat /\ Word = 65536 /\ Word \div 2 = 32768
BY SMT DEF Word

LEMMA HalfWord ==
  Word \in Nat /\ Word \div 2 \in Nat /\ 0 < Word \div 2 /\ Word \div 2 < Word
BY WordSize, SMT

(* Half an interval is no less than its advance.                            *)
LEMMA AdvanceBound ==
  ASSUME NEW level \in Nat, level <= 32, NEW ci \in Nat
  PROVE  Advance(level, ci) \in Nat /\ Advance(level, ci) <= ci \div 2
<1> DEFINE product == level * ci
<1>1. product \in Nat /\ product <= 32 * ci
  BY SMT
<1>2. 2 ^ ADVANCE_SHIFT = 64
  BY SMT DEF ADVANCE_SHIFT
<1>3. Advance(level, ci) = product \div 64
  BY <1>2 DEF Advance
<1> HIDE DEF product
<1> QED  BY <1>1, <1>3, SMT

(* The subtraction of the advance does not go round.                        *)
LEMMA WaitBound ==
  ASSUME NEW level \in Nat, level <= 32, NEW ci \in Nat, ci < Word
  PROVE  WaitTime(level, ci) \in Nat /\ WaitTime(level, ci) < Word \div 2
<1> DEFINE a == Advance(level, ci)
           half == ci \div 2
<1>1. a \in Nat /\ a <= half
  BY AdvanceBound
<1>2. half \in Nat /\ half < 32768
  BY WordSize, SMT
<1>3. WaitTime(level, ci) = ((half % Word) + Word - (a % Word)) % Word
  BY DEF WaitTime
<1> HIDE DEF a, half
<1>4. half % Word = half /\ a % Word = a
  BY <1>1, <1>2, WordSize, SMT
<1>5. (half + Word - a) % Word = half - a
  BY <1>1, <1>2, WordSize, SMT
<1>6. WaitTime(level, ci) = half - a
  BY <1>3, <1>4, <1>5
<1> QED  BY <1>1, <1>2, <1>6, WordSize, SMT

(* Neither does the delay of the timer.                                     *)
LEMMA DelayBound ==
  ASSUME NEW wait \in Nat, wait < Word \div 2
  PROVE  ComTimerDelay(wait) \in Nat /\ ComTimerDelay(wait) <= Word \div 2
<1>1. (wait + 1) % Word = wait + 1
  BY WordSize, SMT
<1> QED  BY <1>1, WordSize, SMT DEF ComTimerDelay

(* Averages of timer words are timer words.                                 *)
LEMMA AverageBound ==
  ASSUME NEW before \in Nat, before < Word, NEW this \in Nat, this < Word,
         NEW ci \in Nat, ci < Word
  PROVE  /\ PolledInterval(this, ci) \in Nat
         /\ PolledInterval(this, ci) < Word
         /\ TimedInterval(before, this, ci) \in Nat
         /\ TimedInterval(before, this, ci) < Word
<1> DEFINE polled == this + 3 * ci
           pair == before + this
           mean == pair \div 2
           timed == ci + mean
<1>1. polled \in Nat /\ polled < 4 * Word /\ pair \in Nat /\ pair < 2 * Word
  BY WordSize, SMT
<1>2. PolledInterval(this, ci) = polled \div 4
  BY DEF PolledInterval
<1>3. TimedInterval(before, this, ci) = timed \div 2
  BY DEF TimedInterval
<1> HIDE DEF polled, pair
<1>4. polled \div 4 \in Nat /\ polled \div 4 < Word
  BY <1>1, WordSize, SMT
<1>5. timed \in Nat /\ timed < 2 * Word
  BY <1>1, WordSize, SMT
<1> HIDE DEF timed
<1>6. timed \div 2 \in Nat /\ timed \div 2 < Word
  BY <1>5, WordSize, SMT
<1> QED  BY <1>2, <1>3, <1>4, <1>6

TimingInv == TimingTypeOK /\ DelayNeverWraps

LEMMA TimingInitial ==
  TimingInit => TimingInv
<1> SUFFICES ASSUME TimingInit PROVE TimingInv
  OBVIOUS
<1>1. 0 \in 0 .. Word - 1
  BY HalfWord
<1>2. zc_times \in [last : 0 .. Word - 1, this : 0 .. Word - 1]
  BY <1>1 DEF TimingInit
<1>3. interval \in 0 .. Word - 1
  BY TimingAssumption DEF TimingInit
<1>4. upsets \in 0 .. MaxUpsets
  BY TimingAssumption DEF TimingInit
<1>5. DelayNeverWraps
  BY HalfWord DEF TimingInit, DelayNeverWraps
<1> QED  BY <1>1, <1>2, <1>3, <1>4, <1>5 DEF TimingInit, TimingInv, TimingTypeOK

(* What the invariant says of the words, without their ranges.              *)
LEMMA TimingWords ==
  ASSUME TimingInv
  PROVE  /\ interval \in Nat /\ interval < Word
         /\ zc_times.last \in Nat /\ zc_times.last < Word
         /\ zc_times.this \in Nat /\ zc_times.this < Word
         /\ wait_time \in Nat /\ wait_time < Word \div 2
         /\ pace \in Nat /\ pace < Word
         /\ Measured \in [last : 0 .. Word - 1, this : 0 .. Word - 1]
<1>1. pace \in 0 .. Word - 1
  BY TimingAssumption DEF TimingInv, TimingTypeOK
<1>2. /\ zc_times.last \in 0 .. Word - 1 /\ zc_times.this \in 0 .. Word - 1
      /\ interval \in 0 .. Word - 1 /\ wait_time \in 0 .. Word - 1
      /\ wait_time < Word \div 2
  BY DEF TimingInv, TimingTypeOK, DelayNeverWraps
<1>3. Measured \in [last : 0 .. Word - 1, this : 0 .. Word - 1]
  BY <1>1, <1>2 DEF Measured
<1> QED  BY <1>1, <1>2, <1>3, HalfWord

LEMMA AdvanceLevel ==
  ASSUME TimingInv
  PROVE  advance \in Nat /\ advance <= 32
<1>1. advance \in 0 .. 32
  <2>1. advance \in AdvanceLevels \cup {0}
    BY DEF TimingInv, TimingTypeOK
  <2>2. AdvanceLevels \subseteq 0 .. 32
    BY TimingAssumption
  <2>3. 0 \in 0 .. 32
    BY SMT
  <2> QED  BY <2>1, <2>2, <2>3
<1> QED  BY <1>1, SMT

(* The invariant from what a step says of the words it changes.             *)
LEMMA WordsKept ==
  ASSUME NEW i \in Nat, i < Word, NEW w \in Nat, w < Word \div 2,
         NEW d \in Nat, d <= Word \div 2
  PROVE  /\ i \in 0 .. Word - 1 /\ w \in 0 .. Word - 1 /\ d \in 0 .. Word - 1
BY HalfWord

(* Every action keeps the words in their range. *)
LEMMA TimingStep ==
  TimingInv /\ [TimingNext]_timingVars => TimingInv'
<1> SUFFICES ASSUME TimingInv, [TimingNext]_timingVars PROVE TimingInv'
  OBVIOUS
<1> USE TimingWords, AdvanceLevel
<1>0. delay \in Nat /\ delay <= Word \div 2
  BY HalfWord DEF TimingInv, TimingTypeOK, DelayNeverWraps
<1>1. CASE PolledCrossing
  <2>1. interval' \in Nat /\ interval' < Word
    BY <1>1, AverageBound DEF PolledCrossing
  <2>2. wait_time' \in Nat /\ wait_time' < Word \div 2
    BY <1>1, <2>1, WaitBound DEF PolledCrossing
  <2>3. delay' \in Nat /\ delay' <= Word \div 2
    BY <1>0, <1>1, <2>2, DelayBound DEF PolledCrossing
  <2>4. timer_set' \in BOOLEAN
    BY <1>1 DEF PolledCrossing, TimingInv, TimingTypeOK
  <2> QED
    BY <1>1, <2>1, <2>2, <2>3, <2>4, WordsKept
       DEF PolledCrossing, TimingInv, TimingTypeOK, DelayNeverWraps
<1>2. CASE ComparedCrossing
  <2>1. delay' \in Nat /\ delay' <= Word \div 2
    BY <1>2, DelayBound DEF ComparedCrossing
  <2>2. timer_set' \in BOOLEAN
    BY <1>2 DEF ComparedCrossing
  <2> QED
    BY <1>2, <2>1, <2>2, WordsKept
       DEF ComparedCrossing, TimingInv, TimingTypeOK, DelayNeverWraps
<1>3. CASE TimedStep
  <2>1. interval' \in Nat /\ interval' < Word
    BY <1>3, AverageBound DEF TimedStep
  <2>2. wait_time' \in Nat /\ wait_time' < Word \div 2
    BY <1>3, <2>1, WaitBound DEF TimedStep
  <2>3. timer_set' \in BOOLEAN /\ polling' \in BOOLEAN
    BY <1>3 DEF TimedStep, TimingInv, TimingTypeOK
  <2> QED
    BY <1>3, <1>0, <2>1, <2>2, <2>3, WordsKept
       DEF TimedStep, TimingInv, TimingTypeOK, DelayNeverWraps
<1>4. CASE LoseLock
  <2>1. interval' \in 0 .. Word - 1 /\ polling' \in BOOLEAN
    BY <1>4, TimingAssumption DEF LoseLock, TimingInv, TimingTypeOK
  <2>2. upsets' \in 0 .. MaxUpsets
    BY <1>4, TimingAssumption, SMT DEF LoseLock, Upset, TimingInv, TimingTypeOK
  <2> QED
    BY <1>4, <2>1, <2>2 DEF LoseLock, TimingInv, TimingTypeOK, DelayNeverWraps
<1>5. CASE SyncAdvance
  <2>1. upsets' \in 0 .. MaxUpsets
    BY <1>5, TimingAssumption, SMT DEF SyncAdvance, Upset, TimingInv, TimingTypeOK
  <2> QED
    BY <1>5, <2>1 DEF SyncAdvance, TimingInv, TimingTypeOK, DelayNeverWraps
<1>6. CASE ChangePace
  <2>1. upsets' \in 0 .. MaxUpsets
    BY <1>6, TimingAssumption, SMT DEF ChangePace, Upset, TimingInv, TimingTypeOK
  <2> QED
    BY <1>6, <2>1 DEF ChangePace, TimingInv, TimingTypeOK, DelayNeverWraps
<1>7. CASE UNCHANGED timingVars
  BY <1>7 DEF timingVars, TimingInv, TimingTypeOK, DelayNeverWraps
<1> QED  BY <1>1, <1>2, <1>3, <1>4, <1>5, <1>6, <1>7 DEF TimingNext

LEMMA TimingHolds ==
  TimingInit /\ [][TimingNext]_timingVars => []TimingInv
BY TimingInitial, TimingStep, PTL

(* The state of the timing stays in its types, the widths of the timer's      *)
(* words among them (state.rs:456-488).                                      *)
THEOREM TimingTypeCorrect ==
  TimingSpec => []TimingTypeOK
<1>1. TimingInv => TimingTypeOK
  BY DEF TimingInv
<1> QED  BY <1>1, TimingHolds, PTL DEF TimingSpec

(* No wait and no delay ever goes round its 16 bits, for every pace of the    *)
(* rotor and every advance up to half an interval (state.rs:456-488).        *)
THEOREM DelaysNeverWrap ==
  TimingSpec => []DelayNeverWraps
<1>1. TimingInv => DelayNeverWraps
  BY DEF TimingInv
<1> QED  BY <1>1, TimingHolds, PTL DEF TimingSpec

-----------------------------------------------------------------------------
(***************************************************************************)
(* All of them together.                                                    *)
(***************************************************************************)

(* Every part begins as it does alone. *)
LEMMA PartsBegin ==
  DriveInit => /\ Init /\ PowerInit /\ ZeroInit /\ TimingInit /\ LimitsInit
               /\ bench \in Benches
BY DEF DriveInit

(* Every part steps as it does alone, or rests. *)
LEMMA DirectionSteps == [DriveNext]_driveVars => [Next]_vars
BY Zenon DEF DriveNext, driveVars

LEMMA PowerSteps == [DriveNext]_driveVars => [PowerNext]_powerVars
BY Zenon DEF DriveNext, driveVars

LEMMA ZeroSteps == [DriveNext]_driveVars => [ZeroNext]_zeroVars
BY Zenon DEF DriveNext, driveVars

LEMMA TimingSteps == [DriveNext]_driveVars => [TimingNext]_timingVars
BY Zenon DEF DriveNext, driveVars

LEMMA LimitsSteps == [DriveNext]_driveVars => [LimitsNext]_limitsVars
BY Zenon DEF DriveNext, driveVars

LEMMA BenchStays == [DriveNext]_driveVars => UNCHANGED bench
BY Zenon DEF DriveNext, driveVars

(* A composition of parts is each of them. *)
LEMMA PartsRun ==
  DriveSpec => /\ Init /\ [][Next]_vars
               /\ PowerInit /\ [][PowerNext]_powerVars
               /\ ZeroInit /\ [][ZeroNext]_zeroVars
               /\ TimingInit /\ [][TimingNext]_timingVars
               /\ LimitsInit /\ [][LimitsNext]_limitsVars
BY PartsBegin, DirectionSteps, PowerSteps, ZeroSteps, TimingSteps, LimitsSteps, PTL
   DEF DriveSpec

-----------------------------------------------------------------------------
(* Every variable of the control path keeps its type, on every bench and for all  *)
(* constants (input.rs:60-199, isr_logic.rs:30-225, state.rs:57-526).           *)
THEOREM DriveTypeCorrect == DriveSpec => []DriveTypeOK
<1> DEFINE Known == bench \in Benches
<1>1. DriveSpec => []Known
  <2>1. Known /\ [DriveNext]_driveVars => Known'
    BY BenchStays
  <2>2. DriveInit => Known
    BY PartsBegin
  <2> HIDE DEF Known
  <2> QED BY <2>1, <2>2, PTL DEF DriveSpec
<1>2. PowerInv => PowerTypeOK
  BY DEF PowerInv
<1>3. TimingInv => TimingTypeOK
  BY DEF TimingInv
<1>4. /\ Known /\ TypeOK /\ PowerTypeOK /\ ZeroTypeOK /\ TimingTypeOK /\ LimitsTypeOK
      => DriveTypeOK
  BY DEF DriveTypeOK
<1> HIDE DEF Known
<1> QED
  BY <1>1, <1>2, <1>3, <1>4, PartsRun, TypesHold, PowerHolds, ZeroTypesHold,
     TimingHolds, LimitsHolds, PTL

(* What each part promises of direction, start, crossing and wait is kept where  *)
(* they run together (input.rs:60-199, state.rs:57-135 and 456-526,             *)
(* isr_logic.rs:133-225).                                                   *)
THEOREM PartsKeepTheirPromises ==
  DriveSpec => /\ []StickObeyed /\ []StartsWithoutPanic /\ SoftStart
               /\ []CrossingsCounted /\ []DelayNeverWraps
<1>1. BrakeCutsThrottle /\ DrivesTowardsStick => StickObeyed
  BY DEF StickObeyed
<1>2. PowerInv => StartsWithoutPanic
  BY DEF PowerInv
<1>3. CrossingsConfirmed /\ StepsForCrossing => CrossingsCounted
  BY DEF CrossingsCounted
<1>4. TimingInv => DelayNeverWraps
  BY DEF TimingInv
<1> QED
  BY <1>1, <1>2, <1>3, <1>4, PartsRun, BrakeHolds, DriveHolds, PowerHolds,
     SoftlyHolds, CountHolds, RelayHolds, TimingHolds, PTL

=============================================================================
