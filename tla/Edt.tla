--------------------------------- MODULE Edt ---------------------------------
(***************************************************************************)
(* What a telemetry reply carries: EdtScheduler of rm32/src/edt.rs.  The     *)
(* counter is a u16 of which only the place in the cycle is asked.          *)
(***************************************************************************)
EXTENDS Naturals

CONSTANTS
  CurrentEvery,    \* replies from one current frame to the next, 40
  EdtCycle,        \* the cycle of voltage and temperature, 200
  VoltageAt,       \* their places in it, 100 ...
  TemperatureAt    \* ... and 150

ASSUME EdtAssumption ==
  /\ CurrentEvery \in Nat \ {0} /\ EdtCycle \in Nat \ {0}
  /\ EdtCycle % CurrentEvery = 0
  /\ VoltageAt \in 0 .. EdtCycle - 1 /\ TemperatureAt \in 0 .. EdtCycle - 1

Kinds == {"erpm", "init", "deinit", "current", "voltage", "temperature"}

(* The counter is kept modulo the cycle; the code's goes round at 65536, which *)
(* cuts one cycle in 327 short.                                              *)
EdtStates ==
  [counter : 0 .. EdtCycle - 1, last_sent_extended : BOOLEAN,
   active : BOOLEAN, send_init : BOOLEAN, send_deinit : BOOLEAN]

NewEdt == [counter |-> 0, last_sent_extended |-> FALSE, active |-> FALSE,
           send_init |-> FALSE, send_deinit |-> FALSE]

(* Mutant: voltage is looked for at a place where current is due. *)
DueLate(counter) ==
  IF counter % CurrentEvery = 0 THEN "current"
  ELSE IF counter = VoltageAt + 2 THEN "voltage"
  ELSE IF counter = TemperatureAt THEN "temperature"
  ELSE "erpm"

(* The kind that is due at a place in the cycle. *)
Due(counter) ==
  IF counter % CurrentEvery = 0 THEN "current"
  ELSE IF counter = VoltageAt THEN "voltage"
  ELSE IF counter = TemperatureAt THEN "temperature"
  ELSE "erpm"

NextCounter(e) == (e.counter + 1) % EdtCycle

(* next_frame: an announcement goes first; then extended frames where they   *)
(* are due, never two in a row.                                             *)
NextKind(e) ==
  IF e.send_init THEN "init"
  ELSE IF e.send_deinit THEN "deinit"
  ELSE IF ~e.active \/ e.last_sent_extended THEN "erpm"
  ELSE Due(NextCounter(e))

AfterReply(e) ==
  IF e.send_init THEN [e EXCEPT !.send_init = FALSE, !.active = TRUE]
  ELSE IF e.send_deinit THEN [e EXCEPT !.send_deinit = FALSE, !.active = FALSE]
  ELSE IF ~e.active THEN e
  ELSE [e EXCEPT !.counter = NextCounter(e),
                 !.last_sent_extended = NextKind(e) # "erpm"]

=============================================================================
