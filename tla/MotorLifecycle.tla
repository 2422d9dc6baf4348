--------------------------- MODULE MotorLifecycle ---------------------------
(***************************************************************************)
(* What the controller promises about power, whatever its loops and         *)
(* interrupts do in between: the phases a motor goes through, in the order  *)
(* rm32/src/motor_mode.rs draws them, and when the bridge drives it.        *)
(*                                                                         *)
(*   - The motor starts only when armed, and from a control tick, which     *)
(*     applies power in the same step.                                      *)
(*   - It locks only from the polling phase and may fall back to it.        *)
(*   - It may be stopped or disarmed at any moment; the bridge then follows  *)
(*     at a later control tick, and never drives a motor at rest again      *)
(*     before the next start.                                               *)
(*   - Sinusoidal startup is no phase: nothing in the firmware enters it.    *)
(***************************************************************************)
VARIABLES
  phase,  \* the motor mode
  driven  \* the bridge applies throttle

avars == <<phase, driven>>

Spins(p) == p \in {"OldRoutine", "Running"}

TypeOK ==
  /\ phase \in {"Disarmed", "Armed", "OldRoutine", "Running"}
  /\ driven \in BOOLEAN

Init == phase = "Disarmed" /\ driven = FALSE

Arm      == phase = "Disarmed"   /\ phase' = "Armed"      /\ driven' = FALSE
Start    == phase = "Armed"      /\ phase' = "OldRoutine" /\ driven' = TRUE
Lock     == phase = "OldRoutine" /\ phase' = "Running"    /\ driven' = driven
Fallback == phase = "Running"    /\ phase' = "OldRoutine" /\ driven' = driven
Stop     == Spins(phase)         /\ phase' = "Armed"      /\ driven' = driven
Disarm   == phase # "Disarmed"   /\ phase' = "Disarmed"   /\ driven' = driven

(* A control tick brings the bridge in line with the phase. *)
Refresh  == driven # Spins(phase) /\ driven' = Spins(phase) /\ phase' = phase

Next == Arm \/ Start \/ Lock \/ Fallback \/ Stop \/ Disarm \/ Refresh

Safety == Init /\ [][Next]_avars

Spec == Safety /\ WF_avars(Refresh)

=============================================================================
