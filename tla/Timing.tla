-------------------------------- MODULE Timing --------------------------------
(***************************************************************************)
(* The commutation interval and the wait for the next step: who measures a   *)
(* crossing (bemf_polling, bemf_zero_cross), who computes from it             *)
(* (commutation_timer_expired), and what the main loop and the tick change in *)
(* between.  When a crossing is found is ZeroCross's; here it is found once.  *)
(***************************************************************************)
EXTENDS Bemf

CONSTANTS
  Paces,          \* the rotor's times from one crossing to the next
  FirstInterval,  \* commutation_interval at power-up, 12500 in the code
  ResetInterval,  \* DESYNC_RESET_INTERVAL, 5000
  ExitInterval,   \* OLD_ROUTINE_EXIT_INTERVAL, 2000
  AdvanceLevels,  \* auto_advance of the main loop, 13 to 23
  MaxUpsets       \* bound on what changes from outside

ASSUME TimingAssumption ==
  /\ Paces \subseteq 0 .. Word - 1
  /\ FirstInterval \in 0 .. Word - 1 /\ ResetInterval \in 0 .. Word - 1
  /\ ExitInterval \in Nat
  /\ AdvanceLevels \subseteq 0 .. 32
  /\ MaxUpsets \in Nat

VARIABLES
  polling,      \* shared: old_routine
  interval,     \* shared: commutation_interval
  zc_times,     \* BemfState: last_zc_time and this_zc_time
  wait_time,    \* BemfState
  advance,      \* BemfState: temp_advance
  timer_set,    \* the commutation timer runs
  delay,        \* what it was last set to
  pace,         \* the rotor
  upsets        \* changes from outside so far

timingVars ==
  <<polling, interval, zc_times, wait_time, advance, timer_set, delay, pace,
    upsets>>

TimingTypeOK ==
  /\ polling \in BOOLEAN
  /\ interval \in 0 .. Word - 1
  /\ zc_times \in [last : 0 .. Word - 1, this : 0 .. Word - 1]
  /\ wait_time \in 0 .. Word - 1
  /\ advance \in AdvanceLevels \cup {0}
  /\ timer_set \in BOOLEAN
  /\ delay \in 0 .. Word - 1
  /\ pace \in Paces
  /\ upsets \in 0 .. MaxUpsets

TimingInit ==
  /\ polling = TRUE
  /\ interval = FirstInterval
  /\ zc_times = [last |-> 0, this |-> 0]
  /\ wait_time = 0
  /\ advance = 0
  /\ timer_set = FALSE
  /\ delay = 0
  /\ pace \in Paces
  /\ upsets = 0

-----------------------------------------------------------------------------
Measured == [last |-> zc_times.this, this |-> pace]

(* Polling finds a crossing: the new interval and its wait are computed at    *)
(* once; then it steps, or sets the timer to that wait.                      *)
PolledCrossing ==
  /\ polling /\ ~timer_set
  /\ zc_times' = Measured
  /\ interval' = PolledInterval(pace, interval)
  /\ wait_time' = WaitTime(advance, interval')
  /\ \/ UNCHANGED <<timer_set, delay>>
     \/ timer_set' = TRUE /\ delay' = ComTimerDelay(wait_time')
  /\ UNCHANGED <<polling, advance, pace, upsets>>

(* The comparator finds one: the timer is set to the wait that the step       *)
(* before computed.  During polling it does so too while it is unmasked.     *)
ComparedCrossing ==
  /\ ~timer_set
  /\ zc_times' = Measured
  /\ timer_set' = TRUE
  /\ delay' = ComTimerDelay(wait_time)
  /\ UNCHANGED <<polling, interval, wait_time, advance, pace, upsets>>

(* The timer steps, and may lock. *)
TimedStep ==
  /\ timer_set
  /\ timer_set' = FALSE
  /\ interval' = IF polling THEN interval
                 ELSE TimedInterval(zc_times.last, zc_times.this, interval)
  /\ wait_time' = IF polling THEN wait_time ELSE WaitTime(advance, interval')
  /\ polling' \in {polling, polling /\ interval' > ExitInterval}
  /\ UNCHANGED <<zc_times, advance, delay, pace, upsets>>

Upset == upsets < MaxUpsets /\ upsets' = upsets + 1

(* The main loop finds a stall or a desync; with the throttle down it sets    *)
(* the interval, whatever the interrupts are about to do with it.           *)
LoseLock ==
  /\ Upset
  /\ polling' = TRUE
  /\ interval' \in {interval, ResetInterval}
  /\ UNCHANGED <<zc_times, wait_time, advance, timer_set, delay, pace>>

(* The main loop publishes another advance; the tick never takes a zero. *)
SyncAdvance ==
  /\ Upset
  /\ advance' \in AdvanceLevels \ {0, advance}
  /\ UNCHANGED <<polling, interval, zc_times, wait_time, timer_set, delay, pace>>

ChangePace ==
  /\ Upset
  /\ pace' \in Paces \ {pace}
  /\ UNCHANGED <<polling, interval, zc_times, wait_time, advance, timer_set, delay>>

TimingNext ==
  \/ PolledCrossing \/ ComparedCrossing \/ TimedStep
  \/ LoseLock \/ SyncAdvance \/ ChangePace

(* The rotor turns; polling runs in every tick, and a timer that runs ends. *)
TimingFairness ==
  /\ SF_timingVars(PolledCrossing)
  /\ WF_timingVars(ComparedCrossing)
  /\ WF_timingVars(TimedStep)

TimingSpec == TimingInit /\ [][TimingNext]_timingVars /\ TimingFairness

-----------------------------------------------------------------------------
(* The advance never exceeds half an interval, whatever was measured: the     *)
(* wait of one step and the timer's delay stay in the lower half of their 16  *)
(* bits, where neither the subtraction nor the + 1 goes round                *)
(* (state.rs:456-488).                                                      *)
DelayNeverWraps ==
  wait_time < Word \div 2 /\ delay <= Word \div 2

(* At a steady pace the interval comes within three counts below it, from     *)
(* wherever it was reset to and by whichever path it is computed, and stays    *)
(* there, although both paths round down (state.rs:456-477).                 *)
IntervalSettles ==
  <>[](interval <= pace /\ interval + 3 >= pace)

=============================================================================
