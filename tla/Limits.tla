-------------------------------- MODULE Limits --------------------------------
(***************************************************************************)
(* The two controllers that the main loop runs against the motor: the stall   *)
(* protection, which raises the duty of a slow motor, and the current limit,  *)
(* which lowers the ceiling of the duty (PidState of                         *)
(* rm32/src/control/state.rs, MainState::tick).  Module Power shows what the   *)
(* tick makes of boost and ceiling.                                         *)
(*                                                                         *)
(* Each pass reads whether the motor runs twice, and the tick may start it in *)
(* between.  The speed controller is never switched on.                     *)
(***************************************************************************)
EXTENDS Pid

CONSTANTS
  PidUnit,         \* what a step of a controller's result is divided by, 10000
  BoostMax,        \* the largest boost, 150
  FullCeiling,     \* the ceiling without a limit, 2000
  FloorCeiling,    \* the lowest one, ten times minimum_duty_cycle
  StallKd,         \* of the stall controller, 50 ...
  StallIntegral,   \* ... its integral limit, 10000 ...
  StallOutput,     \* ... and output limit, 50000
  CurrentKp,       \* twice current_P of the settings
  CurrentKis,      \* current_I
  CurrentKd,       \* twice current_D
  CurrentIntegral, \* integral limit, 20000 ...
  CurrentOutput,   \* ... and output limit, 100000
  StallTarget,     \* stall_protect_interval of the board
  CurrentTarget,   \* 200 times current_limit of the settings
  Intervals,       \* commutation intervals
  Loads,           \* measured currents
  MaxChanges       \* bound on the changes of the motor

ASSUME LimitsAssumption ==
  /\ PidUnit \in Nat \ {0} /\ BoostMax \in Nat
  /\ FloorCeiling \in Nat /\ FullCeiling \in Nat /\ FloorCeiling <= FullCeiling
  /\ StallKd \in Nat /\ StallIntegral \in Nat /\ StallOutput \in Nat
  /\ CurrentKp \in Nat \ {0} /\ CurrentKis \subseteq Nat /\ CurrentKd \in Nat
  /\ CurrentIntegral \in Nat /\ CurrentOutput \in Nat
  /\ StallTarget \in Nat /\ CurrentTarget \in Nat
  /\ Intervals \subseteq Nat /\ Loads \subseteq Int
  /\ MaxChanges \in Nat

VARIABLES
  protects,       \* stall_protection of the settings is on
  limits_current, \* use_current_limit
  current_ki,     \* current_I of the settings
  at_limit,       \* the pass is between the two controllers
  turning,        \* shared: the motor runs
  rotor_interval, \* shared: commutation_interval
  load,           \* actual_current
  stall_pid,      \* PidState: the stall controller ...
  stall_adjust,   \* ... and what it added up
  current_pid,    \* PidState: the current controller ...
  current_adjust, \* ... and current_limit_adjust, as shared
  changes         \* changes of the motor so far

limitsVars ==
  <<protects, limits_current, current_ki, at_limit, turning, rotor_interval,
    load, stall_pid, stall_adjust, current_pid, current_adjust, changes>>
limitsSettings == <<protects, limits_current, current_ki>>
measured == <<turning, rotor_interval, load, changes>>

StallGains ==
  [kp |-> 1, ki |-> 0, kd |-> StallKd,
   integral_limit |-> StallIntegral, output_limit |-> StallOutput]

CurrentGains ==
  [kp |-> CurrentKp, ki |-> current_ki, kd |-> CurrentKd,
   integral_limit |-> CurrentIntegral, output_limit |-> CurrentOutput]

(* The integrals of a controller with this limit. *)
Integrals(limit) == -limit .. limit

LimitsTypeOK ==
  /\ protects \in BOOLEAN /\ limits_current \in BOOLEAN
  /\ current_ki \in CurrentKis
  /\ at_limit \in BOOLEAN /\ turning \in BOOLEAN
  /\ rotor_interval \in Intervals /\ load \in Loads
  /\ stall_pid \in [integral : Integrals(StallIntegral), last_error : Int]
  /\ stall_adjust \in 0 .. BoostMax * PidUnit
  /\ current_pid \in [integral : Integrals(CurrentIntegral), last_error : Int]
  /\ current_adjust \in FloorCeiling .. FullCeiling
  /\ changes \in 0 .. MaxChanges

LimitsInit ==
  /\ protects \in BOOLEAN /\ limits_current \in BOOLEAN
  /\ current_ki \in CurrentKis
  /\ at_limit = FALSE
  /\ turning = FALSE
  /\ rotor_interval \in Intervals /\ load \in Loads
  /\ stall_pid = NewPid
  /\ stall_adjust = 0
  /\ current_pid = NewPid
  /\ current_adjust = FullCeiling
  /\ changes = 0

-----------------------------------------------------------------------------
(* tick_stall, and the boost as published: it stays what it was when the      *)
(* motor stops.                                                             *)
StallTick ==
  /\ ~at_limit
  /\ at_limit' = TRUE
  /\ IF protects /\ turning
     THEN /\ stall_pid' = After(stall_pid, StallGains, rotor_interval, StallTarget)
          /\ stall_adjust' =
               Clamp(stall_adjust
                       + Output(stall_pid, StallGains, rotor_interval, StallTarget),
                     0, BoostMax * PidUnit)
     ELSE UNCHANGED <<stall_pid, stall_adjust>>
  /\ UNCHANGED <<limitsSettings, measured, current_pid, current_adjust>>

StallBoost == stall_adjust \div PidUnit

LimitsNow == limits_current /\ turning

(* Mutant: a motor that stops keeps its ceiling. *)
CeilingKept ==
  IF limits_current
  THEN Clamp(current_adjust
               - (IF turning
                  THEN Quotient(Output(current_pid, CurrentGains, load, CurrentTarget),
                                PidUnit)
                  ELSE 0),
             FloorCeiling, FullCeiling)
  ELSE FullCeiling

(* What tick_current_limit returns; a result below the unit moves nothing. *)
Ceiling ==
  IF LimitsNow
  THEN Clamp(current_adjust
               - Quotient(Output(current_pid, CurrentGains, load, CurrentTarget),
                          PidUnit),
             FloorCeiling, FullCeiling)
  ELSE FullCeiling

(* The controller keeps its integral and its last error while it rests. *)
CurrentTick ==
  /\ at_limit
  /\ at_limit' = FALSE
  /\ current_adjust' = Ceiling
  /\ current_pid' = IF LimitsNow
                    THEN After(current_pid, CurrentGains, load, CurrentTarget)
                    ELSE current_pid
  /\ UNCHANGED <<limitsSettings, measured, stall_pid, stall_adjust>>

(* The motor starts, stops, gets faster or slower, or draws another current. *)
MotorChanges ==
  /\ changes < MaxChanges
  /\ changes' = changes + 1
  /\ \/ turning' = ~turning /\ UNCHANGED <<rotor_interval, load>>
     \/ rotor_interval' \in Intervals \ {rotor_interval} /\ UNCHANGED <<turning, load>>
     \/ load' \in Loads \ {load} /\ UNCHANGED <<turning, rotor_interval>>
  /\ UNCHANGED <<limitsSettings, at_limit, stall_pid, stall_adjust, current_pid,
                 current_adjust>>

LimitsNext == StallTick \/ CurrentTick \/ MotorChanges

(* The main loop goes on. *)
LimitsFairness == WF_limitsVars(StallTick \/ CurrentTick)

LimitsSpec == LimitsInit /\ [][LimitsNext]_limitsVars /\ LimitsFairness

-----------------------------------------------------------------------------
(* How far a current may lie from its target without moving the ceiling: the  *)
(* proportional part alone is divided away.                                  *)
CurrentSlack == IF current_ki = 0 THEN (PidUnit - 1) \div CurrentKp ELSE 0

(* A boost that a slow motor was given is taken back when it is fast, and a    *)
(* ceiling that too much current lowered is given back when the current has   *)
(* gone down or the motor stops, whatever the controllers added up before; and *)
(* both act to the full on a condition that stays (state.rs:219-247).        *)
BoostSettles ==
  /\ <>[](protects /\ turning /\ rotor_interval < StallTarget) => <>[](StallBoost = 0)
  /\ <>[](protects /\ turning /\ rotor_interval > StallTarget)
       => <>[](StallBoost = BoostMax)

CeilingSettles ==
  /\ <>[](LimitsNow /\ load > CurrentTarget + CurrentSlack)
       => <>[](current_adjust = FloorCeiling)
  /\ <>[](LimitsNow /\ load < CurrentTarget - CurrentSlack)
       => <>[](current_adjust = FullCeiling)
  /\ <>[]~LimitsNow => <>[](current_adjust = FullCeiling)

LimitsSettle == BoostSettles /\ CeilingSettles

=============================================================================
