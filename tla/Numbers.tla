------------------------------ MODULE Numbers ------------------------------
(***************************************************************************)
(* The integer helpers of rm32/src/functions.rs, and the clamps that the     *)
(* control code takes from core.                                            *)
(***************************************************************************)
EXTENDS Integers

Least(a, b) == IF a <= b THEN a ELSE b
Most(a, b)  == IF a >= b THEN a ELSE b

Clamp(x, lo, hi) == Most(lo, Least(x, hi))

(* get_abs_dif *)
AbsDif(a, b) == IF a >= b THEN a - b ELSE b - a

(* Division that truncates towards zero, by a divisor other than zero. *)
Quotient(a, b) ==
  LET size == Most(a, -a) \div Most(b, -b)
  IN  IF (a >= 0) = (b > 0) THEN size ELSE -size

(* map: linear interpolation between two ranges, the input clamped into the *)
(* first one, whichever way round it is given.                              *)
MapRange(x, inMin, inMax, outMin, outMax) ==
  IF inMin = inMax THEN outMin
  ELSE LET c == Clamp(x, Least(inMin, inMax), Most(inMin, inMax))
       IN  outMin + Quotient((c - inMin) * (outMax - outMin), inMax - inMin)

=============================================================================
