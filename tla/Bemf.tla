-------------------------------- MODULE Bemf --------------------------------
(***************************************************************************)
(* Zero crossings of the back-EMF: BemfState of                              *)
(* rm32/src/control/state.rs, as pure operators.  A sample agrees when the    *)
(* comparator shows the polarity of the step; rising and falling steps are    *)
(* mirror images.  min_counts_up and min_counts_down are always equal.       *)
(***************************************************************************)
EXTENDS Naturals

CONSTANTS
  SampleSize,      \* values of the sample counters, u8 that wrap: 256
  BadThreshold     \* bad_count_threshold, 2

ASSUME BemfAssumption ==
  SampleSize \in Nat \ {0} /\ BadThreshold \in Nat /\ BadThreshold + 1 < SampleSize

ADVANCE_SHIFT == 6
Word == 65536      \* values of the 16-bit timer words

Samples == [counter : 0 .. SampleSize - 1, bad_count : 0 .. SampleSize - 1,
            zc_found : BOOLEAN]

(* reset_for_step, reset_after_commutation *)
NewSamples == [counter |-> 0, bad_count |-> 0, zc_found |-> FALSE]

(* Mutant: contrary samples no longer start the count over. *)
SampledLeniently(b, agrees) ==
  IF agrees THEN [b EXCEPT !.counter = (@ + 1) % SampleSize]
  ELSE [b EXCEPT !.bad_count = (@ + 1) % SampleSize]

(* update: from the third contrary sample of a step on, each of them starts  *)
(* the count over; the contrary ones are counted without a cap.              *)
Sampled(b, agrees) ==
  IF agrees THEN [b EXCEPT !.counter = (@ + 1) % SampleSize]
  ELSE LET bad == (b.bad_count + 1) % SampleSize
       IN  [b EXCEPT !.bad_count = bad,
                     !.counter = IF bad > BadThreshold THEN 0 ELSE @]

(* Mutant: a crossing is found again at every further sample. *)
DetectedAgain(b, minCounts) == b.counter > minCounts

(* zero_cross_detected *)
Detected(b, minCounts) == ~b.zc_found /\ b.counter > minCounts

-----------------------------------------------------------------------------
(* The interval after a crossing that polling found, a quarter of the new one *)
(* (record_zero_cross) ...                                                  *)
PolledInterval(this, ci) == (this + 3 * ci) \div 4

(* Mutant: the last two crossings are added and not averaged. *)
TimedIntervalSum(last, this, ci) == (ci + last + this) \div 2

(* ... and after a step that the timer took, half of the last two crossings  *)
(* (update_timing_from_timer).                                              *)
TimedInterval(last, this, ci) == (ci + (last + this) \div 2) \div 2

(* Mutant: one shift too few. *)
AdvanceLarge(level, ci) == (level * ci) \div (2 ^ (ADVANCE_SHIFT - 1))

Advance(level, ci) == (level * ci) \div (2 ^ ADVANCE_SHIFT)

(* wait_time: half an interval less the advance, in 16 bits. *)
WaitTime(level, ci) ==
  (((ci \div 2) % Word) + Word - (Advance(level, ci) % Word)) % Word

(* com_timer_delay *)
ComTimerDelay(wait) == (wait + 1) % Word

=============================================================================
