------------------------------ MODULE Commands ------------------------------
(***************************************************************************)
(* The DShot command processor: CommandProcessor of                         *)
(* rm32/src/dshot_commands.rs.  A command frame takes effect only as the     *)
(* last of several equal ones; beacons take effect at once.                 *)
(*                                                                         *)
(* The processor's state is a record, and the operators say what a frame    *)
(* makes of it and of the state it is given by reference.                   *)
(***************************************************************************)
EXTENDS Naturals

CONSTANT Repetitions   \* equal frames that make a command, 6 in the code

ASSUME RepetitionsAssumption == Repetitions \in Nat \ {0, 1}

BEACON_5           == 5
ESC_INFO           == 6
DIRECTION_NORMAL   == 7
DIRECTION_REVERSED == 8
BIDIR_OFF          == 9
BIDIR_ON           == 10
SAVE_SETTINGS      == 12
EDT_ENABLE         == 13
EDT_DISABLE        == 14
DIRECTION_FWD      == 20
DIRECTION_REV      == 21
PROGRAMMING_MODE   == 36

CommandNumbers == 1 .. 47

(* What the processor remembers from one frame to the next. *)
Processors ==
  [command_count : 0 .. Repetitions - 1,
   last_command  : CommandNumbers \cup {0},
   extended_telemetry : BOOLEAN,
   programming_mode : BOOLEAN]

NewProcessor == [command_count |-> 0, last_command |-> 0,
                 extended_telemetry |-> FALSE, programming_mode |-> FALSE]

(* The count after a frame; a different command starts over and a beacon    *)
(* goes straight past the threshold.                                        *)
Count(p, cmd) ==
  IF cmd <= BEACON_5 THEN Repetitions + 1
  ELSE (IF cmd = p.last_command THEN p.command_count ELSE 0) + 1

TakesEffect(p, cmd) == Count(p, cmd) >= Repetitions

(* Mutant: the count goes on after a command took effect. *)
ProcessorUncleared(p, cmd) ==
  [p EXCEPT !.command_count = Count(p, cmd), !.last_command = cmd]

(* The processor after a frame it listened to. *)
ProcessorAfter(p, cmd) ==
  LET effect == TakesEffect(p, cmd) IN
  [command_count |-> IF effect THEN 0 ELSE Count(p, cmd),
   last_command  |-> cmd,
   extended_telemetry |->
     IF effect /\ cmd = EDT_ENABLE THEN TRUE
     ELSE IF effect /\ cmd = EDT_DISABLE THEN FALSE
     ELSE p.extended_telemetry,
   programming_mode |->
     p.programming_mode \/ (effect /\ cmd = PROGRAMMING_MODE)]

(* Settings that a command changes ... *)
ConfigAfter(c, cmd) ==
  [c EXCEPT !.dir_reversed = CASE cmd = DIRECTION_NORMAL   -> 0
                               [] cmd = DIRECTION_REVERSED -> 1
                               [] OTHER                    -> @,
            !.bi_direction = CASE cmd = BIDIR_OFF -> 0
                               [] cmd = BIDIR_ON  -> 1
                               [] OTHER           -> @]

(* ... and the direction, which two commands take relative to the settings. *)
ForwardAfter(forward, c, cmd) ==
  CASE cmd = DIRECTION_NORMAL   -> TRUE
    [] cmd = DIRECTION_REVERSED -> FALSE
    [] cmd = DIRECTION_FWD      -> c.dir_reversed = 0
    [] cmd = DIRECTION_REV      -> c.dir_reversed # 0
    [] OTHER                    -> forward

=============================================================================
