----------------------------- MODULE EscBenches ------------------------------
(***************************************************************************)
(* The motor control of module Esc on two benches.  One has the constants of    *)
(* the configuration; on the other the link comes and goes silent, with the      *)
(* brake and longer times.                                                  *)
(***************************************************************************)
EXTENDS Esc

CONSTANT Benches    \* the benches to run

ASSUME BenchesAssumption == Benches \subseteq {"own", "arming"}

VARIABLE bench      \* the bench that runs

Arming == INSTANCE Esc WITH
  Throttles <- {0, 1000}, Dshot <- TRUE, LinkMayDrop <- TRUE,
  RotorTurns <- FALSE, RotorMaySeize <- FALSE, StuckRotorProtection <- FALSE,
  LowVoltageCutOff <- FALSE, BrakeOnStop <- TRUE, ArmingTicks <- 1,
  SignalTimeoutDisarm <- 1, SignalTimeoutMax <- 2, StallThreshold <- 1,
  IntervalMax <- 2, ZcForAdvance <- 1, ZcExit <- 2, ZcStartup <- 3,
  ZcTurning <- 2, ZcReliable <- 3, ZcCap <- 4,
  TimeoutStrict <- 0, TimeoutLenient <- 0, Latched <- 2,
  LvcThreshold <- 1, LvcModulus <- 3

BenchInit ==
  /\ bench \in Benches
  /\ \/ bench = "own" /\ Init
     \/ bench = "arming" /\ Arming!Init

BenchNext ==
  \/ bench = "own" /\ Next /\ UNCHANGED bench
  \/ bench = "arming" /\ Arming!Next /\ UNCHANGED bench

(* The fairness of each bench. *)
On(name, A) == bench = name /\ A

BenchFairness ==
  /\ WF_vars(On("own", MainLoop))
  /\ WF_vars(On("own", \E detected \in BOOLEAN : Tick(detected)))
  /\ WF_vars(On("own", TimerExpired))
  /\ WF_vars(On("arming", Arming!MainLoop))
  /\ WF_vars(On("arming", \E detected \in BOOLEAN : Arming!Tick(detected)))
  /\ WF_vars(On("arming", Arming!TimerExpired))

BenchSpec == BenchInit /\ [][BenchNext]_<<bench, vars>> /\ BenchFairness

-----------------------------------------------------------------------------
(* Zero throttle on a live link arms a motor that no low voltage cuts off, and it   *)
(* stays armed (isr_logic.rs:66-77, main_state.rs:343-347).                     *)
ZeroThrottleAlwaysArms ==
  <>[](bench = "arming" /\ inputSet /\ newinput = 0) => <>[]IsArmed(mode)

=============================================================================
