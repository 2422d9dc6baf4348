----------------------------- MODULE MotorMode -----------------------------
(***************************************************************************)
(* The motor mode automaton of rm32/src/motor_mode.rs and the compare-and- *)
(* swap setters of rm32/src/shared_state.rs.  There is no variable here:    *)
(* every operator maps the current value of the one atomic byte to the      *)
(* value the compare-and-swap stores.  A module that owns the byte applies  *)
(* one of these operators in one step.                                      *)
(***************************************************************************)

Modes == {"Disarmed", "Armed", "StepperSine", "OldRoutine", "Running"}

Events == {"Arm", "Disarm", "StartMotor", "StopMotor", "EnterSine", "ExitSine",
           "BemfLocked", "DesyncFallback"}

IsArmed(mode)       == mode # "Disarmed"
IsRunning(mode)     == mode \in {"OldRoutine", "Running"}
IsOldRoutine(mode)  == mode = "OldRoutine"
IsStepperSine(mode) == mode = "StepperSine"

(* Pairs the automaton does not list leave the mode unchanged. *)
Transition(mode, event) ==
  CASE event = "Disarm"                                    -> "Disarmed"
    [] event = "Arm"            /\ mode = "Disarmed"       -> "Armed"
    [] event = "StartMotor"     /\ mode = "Armed"          -> "OldRoutine"
    [] event = "StopMotor"      /\ IsRunning(mode)         -> "Armed"
    [] event = "EnterSine"      /\ mode = "Armed"          -> "StepperSine"
    [] event = "ExitSine"       /\ mode = "StepperSine"    -> "OldRoutine"
    [] event = "BemfLocked"     /\ mode = "OldRoutine"     -> "Running"
    [] event = "DesyncFallback" /\ mode = "Running"        -> "OldRoutine"
    [] OTHER                                               -> mode

(* set_old_routine(true): back to polling, but only for a motor that runs. *)
SetOldRoutine(mode) == IF IsRunning(mode) THEN "OldRoutine" ELSE mode

=============================================================================
