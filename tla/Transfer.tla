------------------------------ MODULE Transfer ------------------------------
(***************************************************************************)
(* What a captured frame makes of the state of the signal path while the     *)
(* motor is unarmed: TransferState of rm32/src/transfer.rs, with the frame   *)
(* window that the interrupt handler keeps for it.                          *)
(***************************************************************************)
EXTENDS Servo

CONSTANT EntryCount      \* CALIBRATION_ENTRY_COUNT, 50 in the code

ASSUME TransferAssumption == EntryCount \in Nat /\ EntryCount + 1 < CounterSize

MinThrottle   == 1500    \* CALIBRATION_MIN_THROTTLE
MaxJitter     == 50      \* CALIBRATION_MAX_JITTER
AverageFrames == 8
AverageAfter  == 5

(* zero_input_count is a u16 of which nothing but "> AverageAfter" is asked. *)
(* Bound: it stops there; the code's goes round after 65536 unarmed frames,  *)
(* of which zero throttle leaves no more than arming takes.                  *)
ZeroInputCap == AverageAfter + 1

NewTransfer(low, high) ==
  [servo |-> NewServo(low, high),
   average_count |-> 0, average_packet_length |-> 0,
   enter_calibration_count |-> 0, last_input |-> 0,
   zero_input_count |-> 0, frametime_low |-> 400, frametime_high |-> 600]

TransferTyped(t) ==
  /\ t.servo \in ServoStates
  /\ t.average_count \in 0 .. AverageFrames
  /\ t.average_packet_length \in Nat
  /\ t.enter_calibration_count \in Counter
  /\ t.last_input \in 0 .. 2047
  /\ t.zero_input_count \in 0 .. ZeroInputCap
  /\ t.frametime_low \in Nat /\ t.frametime_high \in Nat

(* decode_frame's check of the time from the first edge to the last. *)
FrameInWindow(t, time) == time > t.frametime_low /\ time < t.frametime_high

(* Mutant: the last frame is counted and not added. *)
AveragedShort(t, time) ==
  LET sum  == t.average_packet_length
      last == t.average_count = AverageFrames - 1
  IN  IF t.average_count < AverageFrames /\ t.zero_input_count > AverageAfter
      THEN [t EXCEPT
             !.average_count = @ + 1,
             !.average_packet_length = IF last THEN sum ELSE sum + time,
             !.frametime_low  = IF last THEN sum \div 8 - sum \div 128 ELSE @,
             !.frametime_high = IF last THEN sum \div 8 + sum \div 128 ELSE @]
      ELSE t

(* The window that the frames are admitted by is averaged once, over the     *)
(* first frames after a stretch of zero throttle, whatever they decode to.   *)
Averaged(t, time) ==
  LET sum    == t.average_packet_length + time
      avg    == sum \div AverageFrames
      margin == sum \div 128
      last   == t.average_count = AverageFrames - 1
  IN  IF t.average_count < AverageFrames /\ t.zero_input_count > AverageAfter
      THEN [t EXCEPT !.average_count = @ + 1,
                     !.average_packet_length = sum,
                     !.frametime_low  = IF last THEN avg - margin ELSE @,
                     !.frametime_high = IF last THEN avg + margin ELSE @]
      ELSE t

(* A steady throttle above MinThrottle, of an unarmed motor, asks for        *)
(* calibration, once.                                                       *)
Steady(t, adjusted) == AbsDif(adjusted, t.last_input) <= MaxJitter

EntryFrames(t, adjusted) ==
  IF Steady(t, adjusted) THEN (t.enter_calibration_count + 1) % CounterSize
  ELSE 0

EntersCalibration(t, adjusted) ==
  EntryFrames(t, adjusted) > EntryCount /\ ~t.servo.high_calibration_set

EntryChecked(t, adjusted, disabled) ==
  IF adjusted = 0 /\ ~t.servo.calibration_required
  THEN [t EXCEPT !.zero_input_count = Least(@ + 1, ZeroInputCap)]
  ELSE IF disabled THEN t
  ELSE IF adjusted <= MinThrottle THEN [t EXCEPT !.zero_input_count = 0]
  ELSE LET enters == EntersCalibration(t, adjusted)
       IN  [t EXCEPT !.zero_input_count = 0,
                     !.enter_calibration_count =
                        IF enters THEN 0 ELSE EntryFrames(t, adjusted),
                     !.servo.calibration_required = @ \/ enters,
                     !.last_input = adjusted]

=============================================================================
