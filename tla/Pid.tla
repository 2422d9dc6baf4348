---------------------------------- MODULE Pid ----------------------------------
(***************************************************************************)
(* The integer PID controller: Pid of rm32/src/pid.rs, as pure operators.     *)
(* What it keeps from one call to the next is its integral and its last       *)
(* error; the gains are a record.                                           *)
(***************************************************************************)
EXTENDS Numbers

(* The clamps of the code, one side after the other. *)
Within(x, limit) ==
  LET below == IF x > limit THEN limit ELSE x
  IN  IF below < -limit THEN -limit ELSE below

(* set_gains, reset *)
NewPid == [integral |-> 0, last_error |-> 0]

Error(actual, target) == actual - target

(* The integral and the sum before they are clamped. *)
Accumulated(p, gains, actual, target) ==
  p.integral + Error(actual, target) * gains.ki

Integral(p, gains, actual, target) ==
  Within(Accumulated(p, gains, actual, target), gains.integral_limit)

Derivative(p, gains, actual, target) ==
  gains.kd * (Error(actual, target) - p.last_error)

Summed(p, gains, actual, target) ==
  Error(actual, target) * gains.kp + Integral(p, gains, actual, target)
    + Derivative(p, gains, actual, target)

(* calculate: its result, and what it keeps. *)
Output(p, gains, actual, target) ==
  Within(Summed(p, gains, actual, target), gains.output_limit)

After(p, gains, actual, target) ==
  [integral   |-> Integral(p, gains, actual, target),
   last_error |-> Error(actual, target)]

=============================================================================
