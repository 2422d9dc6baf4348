------------------------------- MODULE Capture -------------------------------
(***************************************************************************)
(* The capture of servo pulses: the DMA channel that stores the times of the *)
(* edges of the line, and the interrupt that takes them and asks for more.    *)
(* rm32_stm32/src/mcu_g071/interrupts.rs and others, TransferState::process.               *)
(*                                                                         *)
(* Which edges make a pulse is decided by how many edges are asked for.  The  *)
(* handler ends before the next edge: it takes microseconds, a pulse 800.    *)
(***************************************************************************)
EXTENDS Naturals

CONSTANT FirstEdges     \* edges of the first capture, 32 in the code

ASSUME CaptureAssumption ==
  FirstEdges \in Nat \ {0, 1} /\ FirstEdges % 2 = 0

VARIABLES
  resyncs,     \* whether the chip asks for three edges on a high line
  line,        \* level of the line
  edges_left,  \* NDTR of the DMA channel
  from_low,    \* whether the line was low when the capture began
  servo_pwm,   \* shared: the signal was taken for a servo's
  taken        \* what the last capture gave

captureVars == <<resyncs, line, edges_left, from_low, servo_pwm, taken>>

CaptureTypeOK ==
  /\ resyncs \in BOOLEAN /\ line \in BOOLEAN /\ servo_pwm \in BOOLEAN
  /\ edges_left \in 0 .. FirstEdges + 1
  /\ from_low \in BOOLEAN
  /\ taken \in {"nothing", "detection", "pulse", "pause"}

(* receive_dshot_dma at boot, at any level of the line. *)
CaptureInit ==
  /\ resyncs \in BOOLEAN
  /\ line \in BOOLEAN
  /\ edges_left = FirstEdges
  /\ from_low = ~line
  /\ servo_pwm = FALSE
  /\ taken = "nothing"

LineEdge ==
  /\ edges_left > 0
  /\ line' = ~line
  /\ edges_left' = edges_left - 1
  /\ UNCHANGED <<resyncs, from_low, servo_pwm, taken>>

(* Mutant: three edges are asked for on a low line. *)
EdgesWantedLow(servo, high) ==
  IF ~servo THEN FirstEdges ELSE IF resyncs /\ ~high THEN 3 ELSE 2

(* How many edges the handler asks for. *)
EdgesWanted(servo, high) ==
  IF ~servo THEN FirstEdges ELSE IF resyncs /\ high THEN 3 ELSE 2

(* Transfer complete and the frame interrupt that it raises.  On a high line *)
(* the captured times are not looked at; on a low one the first two are the  *)
(* pulse, if the first of them was a rise.                                  *)
TakeCapture ==
  /\ edges_left = 0
  /\ taken' = IF ~servo_pwm THEN "detection"
              ELSE IF line THEN "nothing"
              ELSE IF from_low THEN "pulse" ELSE "pause"
  /\ servo_pwm' = TRUE
  /\ edges_left' = EdgesWanted(servo_pwm', line)
  /\ from_low' = ~line
  /\ UNCHANGED <<resyncs, line>>

CaptureNext == LineEdge \/ TakeCapture

CaptureFairness == WF_captureVars(CaptureNext)

CaptureSpec == CaptureInit /\ [][CaptureNext]_captureVars /\ CaptureFairness

-----------------------------------------------------------------------------
(* Pulses are captured from rise to fall: two edges are asked for while the   *)
(* line is low.                                                             *)
Aligned == servo_pwm /\ from_low /\ edges_left <= 2

(* Where three edges are asked for on a high line, servo pulses are measured *)
(* in the end whatever level the first capture began at, and from then on    *)
(* (mcu_g071/interrupts.rs:48-57, transfer.rs:128-143).                      *)
ServoAligns == resyncs => <>[]Aligned

=============================================================================
