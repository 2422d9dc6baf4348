------------------------------ MODULE ZeroCross ------------------------------
(***************************************************************************)
(* Who takes a commutation step: the tick that polls the comparator           *)
(* (bemf_polling), the comparator's interrupt (bemf_zero_cross) and the       *)
(* commutation timer (commutation_timer_expired), of                         *)
(* rm32/src/control/isr_logic.rs, with a main loop that takes the count of    *)
(* crossings back.  The motor runs all the time.                            *)
(***************************************************************************)
EXTENDS Bemf

CONSTANTS
  MinCounts,         \* min_bemf_counts, 2 to 4 in the code
  StepAtOnce,        \* MIN_ZC_FOR_ADVANCE, 5
  RoutineExit,       \* OLD_ROUTINE_EXIT_ZC, 20
  ZeroCrossingsCap   \* bound on zero_crosses

ASSUME ZeroCrossAssumption ==
  /\ MinCounts \subseteq 0 .. SampleSize - 2 /\ MinCounts # {}
  /\ StepAtOnce \in Nat \ {0} /\ RoutineExit \in Nat
  /\ ZeroCrossingsCap \in Nat
  /\ StepAtOnce < RoutineExit /\ RoutineExit < ZeroCrossingsCap

(* The main loop takes the motor back to polling in two stores. *)
Stores == {"routine", "count"}

VARIABLES
  old_routine,   \* shared: crossings are polled
  zero_crosses,  \* shared
  min_counts,    \* shared: min_bemf_counts
  samples,       \* BemfState: the counters of this step
  comp_irq,      \* the comparator's interrupt is unmasked
  com_timer,     \* who armed the commutation timer: "off", "poll" or "comp"
  to_store,      \* the stores of a fallback that the main loop has yet to make
  \* For the properties only: no action's guard reads them.
  fresh,         \* a crossing was found that no step was taken for
  tally,         \* samples since the step, or since the count started over
  found_with,    \* the samples and the counts of the crossing that the last tick found
  doubled        \* steps of the timer for no crossing since the last fallback

zeroVars == <<old_routine, zero_crosses, min_counts, samples, comp_irq,
              com_timer, to_store, fresh, tally, found_with, doubled>>

NoSamples == [agreeing |-> 0, contrary |-> 0]
NothingFound == [agreeing |-> 0, contrary |-> 0, needed |-> 0]

ZeroTypeOK ==
  /\ old_routine \in BOOLEAN
  /\ zero_crosses \in 0 .. ZeroCrossingsCap
  /\ min_counts \in MinCounts
  /\ samples \in Samples
  /\ comp_irq \in BOOLEAN
  /\ com_timer \in {"off", "poll", "comp"}
  /\ to_store \subseteq Stores
  /\ fresh \in BOOLEAN
  /\ tally \in [agreeing : 0 .. SampleSize, contrary : 0 .. SampleSize]
  /\ found_with \in [agreeing : 0 .. SampleSize, contrary : 0 .. SampleSize,
                     needed : MinCounts \union {0}]
  /\ doubled \in Nat

(* The tick that starts the motor takes a step, unmasks the comparator, and   *)
(* polls: it masks the comparator again.                                     *)
ZeroInit ==
  /\ old_routine = TRUE
  /\ zero_crosses = 0
  /\ min_counts \in MinCounts
  /\ samples = NewSamples
  /\ comp_irq = FALSE
  /\ com_timer = "off"
  /\ to_store = {}
  /\ fresh = FALSE
  /\ tally = NoSamples
  /\ found_with = NothingFound
  /\ doubled = 0

Counted(n) == IF n < ZeroCrossingsCap THEN n + 1 ELSE n

-----------------------------------------------------------------------------
(* The tally is the exact count, held at SampleSize; it starts over with the   *)
(* count of the code.                                                       *)
Upped(n) == IF n < SampleSize THEN n + 1 ELSE n

Tallied(b, agrees) ==
  IF b.counter = 0 THEN NoSamples
  ELSE IF agrees THEN [tally EXCEPT !.agreeing = Upped(@)]
  ELSE [tally EXCEPT !.contrary = Upped(@)]

-----------------------------------------------------------------------------
(* A tick polls: it masks the comparator, takes a sample, and at a crossing   *)
(* steps at once during the first crossings and arms the timer after them.    *)
(* A step at once leaves a timer that already runs as it is.                  *)
Poll(agrees) ==
  LET b     == Sampled(samples, agrees)
      found == Detected(b, min_counts)
      steps == found /\ zero_crosses < StepAtOnce
      among == Tallied(b, agrees)
  IN  /\ old_routine
      /\ comp_irq' = FALSE
      /\ samples' = IF steps THEN NewSamples
                    ELSE [b EXCEPT !.zc_found = @ \/ found]
      /\ com_timer' = IF found /\ ~steps THEN "poll" ELSE com_timer
      /\ zero_crosses' = IF steps THEN Counted(zero_crosses) ELSE zero_crosses
      /\ fresh' = IF steps THEN FALSE ELSE fresh \/ found
      /\ tally' = IF steps THEN NoSamples ELSE among
      /\ found_with' = IF found THEN [agreeing |-> among.agreeing,
                                      contrary |-> among.contrary,
                                      needed   |-> min_counts]
                       ELSE NothingFound
      /\ UNCHANGED <<old_routine, min_counts, to_store, doubled>>

(* The comparator interrupts, and its filter sees the crossing each time it   *)
(* looks; it masks itself and arms the timer.                               *)
CompFires ==
  /\ comp_irq
  /\ comp_irq' = FALSE
  /\ com_timer' = "comp"
  /\ fresh' = TRUE
  /\ UNCHANGED <<old_routine, zero_crosses, min_counts, samples, to_store,
                 tally, found_with, doubled>>

(* The commutation timer steps, unmasks the comparator and may leave the      *)
(* polling routine; whether the interval is short enough is either.          *)
TimerExpires ==
  /\ com_timer # "off"
  /\ com_timer' = "off"
  /\ samples' = NewSamples
  /\ comp_irq' = TRUE
  /\ zero_crosses' = Counted(zero_crosses)
  /\ \/ old_routine' = old_routine
     \/ old_routine /\ zero_crosses' >= RoutineExit /\ old_routine' = FALSE
  /\ fresh' = FALSE
  /\ tally' = NoSamples
  /\ found_with' = NothingFound
  /\ doubled' = IF fresh THEN doubled ELSE doubled + 1
  /\ UNCHANGED <<min_counts, to_store>>

(* The main loop falls back to polling: at a stall it stores the routine and   *)
(* then the count, at a flip of the stick the count and then the routine      *)
(* (main_state.rs:302-307, input.rs:96-97); handlers come in between.         *)
FallBack(store) ==
  /\ to_store = {} \/ store \in to_store
  /\ to_store' = IF to_store = {} THEN Stores \ {store} ELSE {}
  /\ \/ store = "routine" /\ old_routine' = TRUE
          /\ UNCHANGED <<zero_crosses, doubled>>
     \/ store = "count" /\ zero_crosses' = 0 /\ doubled' = 0
          /\ UNCHANGED old_routine
  /\ UNCHANGED <<min_counts, samples, comp_irq, com_timer, fresh, tally,
                 found_with>>

(* ... and it publishes the counts that a crossing takes, after a fallback. *)
PublishCounts ==
  /\ to_store = {}
  /\ min_counts' \in MinCounts \ {min_counts}
  /\ UNCHANGED <<old_routine, zero_crosses, samples, comp_irq, com_timer,
                 to_store, fresh, tally, found_with, doubled>>

ZeroNext ==
  \/ \E agrees \in BOOLEAN : Poll(agrees)
  \/ CompFires \/ TimerExpires
  \/ \E store \in Stores : FallBack(store)
  \/ PublishCounts

ZeroFairness == WF_zeroVars(TimerExpires)

ZeroSpec == ZeroInit /\ [][ZeroNext]_zeroVars /\ ZeroFairness

-----------------------------------------------------------------------------
(* A crossing that polling finds has more agreeing samples than min_bemf_counts *)
(* said, all of them since the step or since the count last started over, and   *)
(* among them at most one contrary sample more than a step tolerates.  The one  *)
(* more is the u8 of the contrary samples going round to 0 while a rotor        *)
(* stands: the sample that does it is tolerated, and so are the first ones      *)
(* after it (state.rs:444-452, 505-526).                                    *)
CrossingsConfirmed ==
  found_with # NothingFound =>
    /\ found_with.agreeing > found_with.needed
    /\ found_with.contrary <= BadThreshold + 1

(* A timer that polling armed steps for the crossing it was armed for, and no   *)
(* other one is found until it has.  A timer that the comparator armed steps    *)
(* for its crossing as well, unless polling has stepped first, which leaves     *)
(* the timer running (isr_logic.rs:151-160): the timer then steps a second      *)
(* time for one crossing.  That happens in the polling routine only, during     *)
(* the first crossings after a fallback, and at most every second time: no      *)
(* more than (MIN_ZC_FOR_ADVANCE + 2) / 2 times per fallback, never in the      *)
(* comparator's routine (isr_logic.rs:133-225).                              *)
StepsForCrossing ==
  /\ com_timer = "poll" => fresh /\ samples.zc_found
  /\ com_timer = "comp" /\ ~fresh => old_routine /\ zero_crosses <= StepAtOnce
  /\ 2 * doubled <= StepAtOnce + 2

(* Both, whatever samples, fallbacks and the order of tick, comparator and timer *)
(* bring: a crossing that polling finds had the samples it needs, and a step is   *)
(* taken for a crossing, but for the bounded double steps of an overtaken timer   *)
(* (isr_logic.rs:133-225, state.rs:444-452, 505-526).                        *)
CrossingsCounted == CrossingsConfirmed /\ StepsForCrossing

=============================================================================
