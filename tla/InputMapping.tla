---------------------------- MODULE InputMapping ----------------------------
(***************************************************************************)
(* The bidirectional throttle mappings of rm32/src/input_mapping.rs as pure *)
(* operators.  The four functions of the code are two decodings of the      *)
(* stick (DShot, servo) times two policies (speed-gated, RC-car); here each *)
(* is written once.                                                         *)
(***************************************************************************)
EXTENDS Integers

THROTTLE_MIN_SIGNAL     == 47
DSHOT_MAX_THROTTLE      == 2047
DSHOT_BIDIR_BRAKE_LIMIT == 1047
BIDIR_MIDPOINT          == 1048
SERVO_CENTER            == 1000

(* functions::map: clamped interpolation; Rust's division truncates. *)
Interpolate(x, inMin, inMax, outMin, outMax) ==
  LET clamped == IF x < inMin THEN inMin ELSE IF x > inMax THEN inMax ELSE x
      scaled  == (clamped - inMin) * (outMax - outMin)
      span    == inMax - inMin
  IN  outMin + IF scaled >= 0 THEN scaled \div span ELSE -((-scaled) \div span)

(* Which side of its centre a stick is on, and how far: DShot packs two     *)
(* ranges above the commands, a servo leaves a dead band around the centre. *)
DshotHalf(stick) ==
  IF stick > DSHOT_BIDIR_BRAKE_LIMIT  THEN "forward"
  ELSE IF stick > THROTTLE_MIN_SIGNAL THEN "reverse"
  ELSE "centre"

(* Mutant: the upper range is not moved down onto the lower. *)
DshotAmountUnsplit(stick) ==
  (stick - (THROTTLE_MIN_SIGNAL + 1)) * 2 + THROTTLE_MIN_SIGNAL - 1

DshotAmount(stick) ==
  LET start == IF DshotHalf(stick) = "forward" THEN BIDIR_MIDPOINT
                                               ELSE THROTTLE_MIN_SIGNAL + 1
  IN  (stick - start) * 2 + THROTTLE_MIN_SIGNAL - 1

ServoHalf(stick, deadBand) ==
  IF stick > SERVO_CENTER + 2 * deadBand      THEN "forward"
  ELSE IF stick < SERVO_CENTER - 2 * deadBand THEN "reverse"
  ELSE "centre"

ServoAmount(stick, deadBand) ==
  IF ServoHalf(stick, deadBand) = "forward"
  THEN Interpolate(stick, SERVO_CENTER + 2 * deadBand, 2000,
                   THROTTLE_MIN_SIGNAL, DSHOT_MAX_THROTTLE)
  ELSE Interpolate(stick, 0, SERVO_CENTER - 2 * deadBand,
                   DSHOT_MAX_THROTTLE, THROTTLE_MIN_SIGNAL)

(* The direction a stick asks for. *)
Wanted(half, dirReversed) ==
  IF half = "forward" THEN ~dirReversed ELSE dirReversed

Result(adjusted, reverse, brake) ==
  [adjusted |-> adjusted, reverse |-> reverse, brake |-> brake]

Nothing == Result(0, FALSE, FALSE)

(* Mutants: a motor too fast to reverse keeps its throttle; the sides of    *)
(* the stick are compared as if dir_reversed were off.                      *)
SpeedGatedThrottled(half, amount, forward, dirReversed, canReverse) ==
  IF half = "centre" THEN Nothing
  ELSE Result(amount, canReverse /\ forward # Wanted(half, dirReversed), FALSE)

SpeedGatedUnreversed(half, amount, forward, dirReversed, canReverse) ==
  IF half = "centre"                    THEN Nothing
  ELSE IF forward = Wanted(half, FALSE) THEN Result(amount, FALSE, FALSE)
  ELSE IF canReverse                    THEN Result(amount, TRUE, FALSE)
  ELSE Nothing

(* Speed-gated: the direction flips only when the motor is slow enough. *)
SpeedGated(half, amount, forward, dirReversed, canReverse) ==
  IF half = "centre"                            THEN Nothing
  ELSE IF forward = Wanted(half, dirReversed)   THEN Result(amount, FALSE, FALSE)
  ELSE IF canReverse                            THEN Result(amount, TRUE, FALSE)
  ELSE Nothing

(* Mutant: the right direction has throttle at once, even while braking. *)
RcCarUnheld(half, amount, forward, dirReversed, brakeActive, returnToCenter) ==
  LET right == forward = Wanted(half, dirReversed)
  IN
  IF half = "centre"                THEN Nothing
  ELSE IF right                     THEN Result(amount, FALSE, FALSE)
  ELSE IF returnToCenter            THEN Result(amount, TRUE, FALSE)
  ELSE Result(0, FALSE, TRUE)

(* RC-car: the wrong direction brakes, until a return to the centre has     *)
(* granted the reversal.                                                    *)
RcCar(half, amount, forward, dirReversed, brakeActive, returnToCenter) ==
  LET right == forward = Wanted(half, dirReversed)
  IN
  IF half = "centre"                  THEN Nothing
  ELSE IF right /\ ~brakeActive       THEN Result(amount, FALSE, FALSE)
  ELSE IF ~right /\ returnToCenter    THEN Result(amount, TRUE, FALSE)
  ELSE Result(0, FALSE, TRUE)

=============================================================================
