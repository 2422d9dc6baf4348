------------------------------- MODULE Config -------------------------------
(***************************************************************************)
(* The settings in EEPROM: rm32/src/config.rs.  A configuration is a record *)
(* of bytes, as the packed struct is.  What the firmware derives from it is  *)
(* computed with the widths of the code.                                    *)
(***************************************************************************)
EXTENDS Naturals

Byte == 0 .. 255

EEPROM_VERSION == 3

(* Flash that was erased and not programmed reads as ones. *)
ErasedByte == 255

(* The defaults of the fields that later versions added, here max_ramp.     *)
DefaultMaxRamp == 160

(* Mutant: anything is taken for a configuration. *)
IsValidAlways(c) == TRUE

(* is_valid: a version that this firmware knows. *)
IsValid(c) == c.eeprom_version <= EEPROM_VERSION

(* apply_version_defaults. *)
ApplyVersionDefaults(c) ==
  [c EXCEPT !.eeprom_version = EEPROM_VERSION,
            !.max_ramp = IF c.eeprom_version < EEPROM_VERSION
                         THEN DefaultMaxRamp ELSE @]

IsBidirectional(c) == c.bi_direction # 0
IsDirReversed(c)   == c.dir_reversed # 0

-----------------------------------------------------------------------------
(***************************************************************************)
(* derive_motor_config, for the fields that bound the duty cycle and the     *)
(* servo pulse.                                                             *)
(***************************************************************************)
MinimumDutyBase(c) ==
  IF c.minimum_duty_cycle \in 1 .. 50 THEN c.minimum_duty_cycle * 10 ELSE 0

MinStartupBase(c) ==
  MinimumDutyBase(c)
    + (IF c.startup_power \in 50 .. 150 THEN c.startup_power ELSE 0)

(* Heavy propellers: boards with startup_boost start and idle stronger. *)
MinStartupDuty(c, boost) ==
  MinStartupBase(c)
    + (IF boost THEN 200 + (c.pwm_frequency * 100) \div 24 ELSE 0)

MinimumDuty(c, boost) ==
  MinimumDutyBase(c)
    + (IF boost THEN 50 + (c.pwm_frequency * 50) \div 24 ELSE 0)

(* Mutant: the room above the idle duty is too small for the strongest start. *)
StartupMaxDutyLow(c) == MinimumDutyBase(c) + 100

StartupMaxDuty(c) == MinimumDutyBase(c) + 400

(* Zero stands for no override; strengths of 1 to 9 lengthen the dead time. *)
DeadTimeOverride(c, deadTime) ==
  IF c.driving_brake_strength \in 1 .. 9
  THEN LET dto == deadTime + 150 - c.driving_brake_strength * 10
       IN  IF dto < 200 THEN dto ELSE 200
  ELSE 0

(* The ends of the stick, in us. *)
ServoLow(c)  == c.servo_low_threshold * 2 + 750
ServoHigh(c) == c.servo_high_threshold * 2 + 1750

=============================================================================
