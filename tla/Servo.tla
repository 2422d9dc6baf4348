-------------------------------- MODULE Servo --------------------------------
(***************************************************************************)
(* Servo pulses, and the calibration of the stick's ends: ServoState of      *)
(* rm32/src/servo.rs.  The state is a record; the operators say what a pulse *)
(* makes of it.  raw_input is recomputed by every pulse and is not kept.     *)
(***************************************************************************)
EXTENDS Numbers

CONSTANTS
  HighCount,     \* pulses averaged for the high end, 50 in the code
  LowCount,      \* pulses averaged for the low end, 75
  CounterSize    \* values of a counter, a u8 that wraps: 256

ASSUME ServoAssumption ==
  /\ HighCount \in Nat \ {0} /\ LowCount \in Nat \ {0}
  /\ CounterSize \in Nat
  /\ HighCount + 1 < CounterSize /\ LowCount + 1 < CounterSize

Thresholds == 0 .. 65535
Counter    == 0 .. CounterSize - 1

ServoStates ==
  [low_threshold : Thresholds, high_threshold : Thresholds,
   last_high_threshold : Thresholds,
   calibration_required : BOOLEAN, high_calibration_set : BOOLEAN,
   high_calibration_counts : Counter, low_calibration_counts : Counter]

(* ServoState::default with the thresholds that set_calibration gives it. *)
NewServo(low, high) ==
  [low_threshold |-> low, high_threshold |-> high, last_high_threshold |-> 0,
   calibration_required |-> FALSE, high_calibration_set |-> FALSE,
   high_calibration_counts |-> 0, low_calibration_counts |-> 0]

PulseInRange(pulse) == pulse > 800 /\ pulse < 2200

MaxDeviation == 250

(* One pulse moves the throttle by at most MaxDeviation towards its target. *)
RateLimited(target, current) ==
  IF target - current > MaxDeviation THEN current + MaxDeviation
  ELSE IF current - target > MaxDeviation THEN current - MaxDeviation
  ELSE target

(* The throttle of a pulse of a stick that goes one way. *)
RawInput(s, pulse) ==
  LET raw == MapRange(pulse, s.low_threshold, s.high_threshold, 47, 2047)
  IN  IF raw <= 48 THEN 0 ELSE raw

ServoThrottle(s, pulse, current) == RateLimited(RawInput(s, pulse), current)

(* The running average of the ends. *)
Smoothed(threshold, pulse) == (7 * threshold + pulse) \div 8

Margin == 25

(* Mutant: an attempt never forgets the first pulse of the one before. *)
LastHighKept(s, pulse) ==
  IF s.last_high_threshold = 0 THEN pulse ELSE s.last_high_threshold

(* What the high end is compared with: the first pulse of all, then the      *)
(* average so far.  An attempt that was abandoned leaves its pulse behind.   *)
LastHigh(s, pulse) ==
  IF s.high_calibration_counts = 0 THEN pulse ELSE s.last_high_threshold

Abandons(s, pulse) == AbsDif(LastHigh(s, pulse), s.high_threshold) > 50

(* Mutant: the low end is the last pulse that comes, wherever the stick is. *)
CalibrateLowAny(s, pulse) ==
  LET counts == s.low_calibration_counts + 1
  IN  [s EXCEPT !.low_threshold = pulse,
                !.low_calibration_counts = IF counts > LowCount THEN 0 ELSE counts,
                !.calibration_required = counts <= LowCount]

(* process_calibration, the high end first ... *)
CalibrateHigh(s, pulse) ==
  LET counts == (s.high_calibration_counts + 1) % CounterSize
      done   == counts > HighCount
      high   == Smoothed(s.high_threshold, pulse) - (IF done THEN Margin ELSE 0)
  IN  IF Abandons(s, pulse)
      THEN [s EXCEPT !.high_calibration_counts = counts,
                     !.last_high_threshold = LastHigh(s, pulse),
                     !.calibration_required = FALSE]
      ELSE [s EXCEPT !.high_calibration_counts = counts,
                     !.last_high_threshold = high,
                     !.high_threshold = high,
                     !.high_calibration_set = done]

(* ... and then the low end, from pulses that are low. *)
CalibrateLow(s, pulse) ==
  LET counted == pulse < 1250
      counts  == (s.low_calibration_counts + (IF counted THEN 1 ELSE 0))
                   % CounterSize
      done    == counts > LowCount
      low     == IF counted THEN Smoothed(s.low_threshold, pulse)
                 ELSE s.low_threshold
  IN  [s EXCEPT !.low_threshold = low + (IF done THEN Margin ELSE 0),
                !.low_calibration_counts = IF done THEN 0 ELSE counts,
                !.calibration_required = ~done]

Calibrate(s, pulse) ==
  IF s.high_calibration_set THEN CalibrateLow(s, pulse)
  ELSE CalibrateHigh(s, pulse)

=============================================================================
