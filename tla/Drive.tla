-------------------------------- MODULE Drive --------------------------------
(***************************************************************************)
(* The parts of the control path, from the direction of the stick to the          *)
(* limits of the duty, each on a bench of its own: a behaviour runs one of     *)
(* them and leaves the others as they were at the start.  The parts meet the   *)
(* rest of the firmware through what their own modules leave open.            *)
(***************************************************************************)
EXTENDS Direction, Power, ZeroCross, Timing, Limits

CONSTANT Benches    \* the parts to run

ASSUME BenchesAssumption ==
  Benches \subseteq {"direction", "power", "crossings", "timing", "limits"}

VARIABLE bench      \* the part that runs

driveVars == <<bench, vars, powerVars, zeroVars, timingVars, limitsVars>>

DriveTypeOK ==
  /\ bench \in Benches
  /\ TypeOK /\ PowerTypeOK /\ ZeroTypeOK /\ TimingTypeOK
  /\ LimitsTypeOK

Some(S) == CHOOSE x \in S : TRUE

(* A part that does not run begins in one of its initial states. *)
DriveInit ==
  /\ bench \in Benches
  /\ Init
  /\ bench # "direction" =>
       config = [rcCar |-> FALSE, dirReversed |-> FALSE, dshotLink |-> FALSE,
                 commands |-> FALSE]
  /\ PowerInit
  /\ bench # "power" =>
       /\ settings = Some(DutySettings)
       /\ board_boost = Some(BoardBoosts)
       /\ stall_protection = Some(StallProtections)
  /\ ZeroInit
  /\ bench # "crossings" => min_counts = Some(MinCounts)
  /\ TimingInit
  /\ bench # "timing" => pace = Some(Paces)
  /\ LimitsInit
  /\ bench # "limits" =>
       /\ ~protects /\ ~limits_current /\ current_ki = Some(CurrentKis)
       /\ rotor_interval = Some(Intervals) /\ load = Some(Loads)

(* The part that runs steps, and the others rest. *)
DriveNext ==
  \/ bench = "direction" /\ Next
       /\ UNCHANGED <<bench, powerVars, zeroVars, timingVars, limitsVars>>
  \/ bench = "power" /\ PowerNext
       /\ UNCHANGED <<bench, vars, zeroVars, timingVars, limitsVars>>
  \/ bench = "crossings" /\ ZeroNext
       /\ UNCHANGED <<bench, vars, powerVars, timingVars, limitsVars>>
  \/ bench = "timing" /\ TimingNext
       /\ UNCHANGED <<bench, vars, powerVars, zeroVars, limitsVars>>
  \/ bench = "limits" /\ LimitsNext
       /\ UNCHANGED <<bench, vars, powerVars, zeroVars, timingVars>>

(* The fairness of each part, on its own bench. *)
On(name, A) == bench = name /\ A

DriveFairness ==
  /\ WF_vars(On("direction", MainLoop))
  /\ WF_powerVars(On("power", PowerTick))
  /\ WF_zeroVars(On("crossings", TimerExpires))
  /\ SF_timingVars(On("timing", PolledCrossing))
  /\ WF_timingVars(On("timing", ComparedCrossing))
  /\ WF_timingVars(On("timing", TimedStep))
  /\ WF_limitsVars(On("limits", StallTick \/ CurrentTick))

DriveSpec == DriveInit /\ [][DriveNext]_driveVars /\ DriveFairness

-----------------------------------------------------------------------------
(* A steady rotor's interval is found to within three counts (state.rs:456-477). *)
IntervalFollowsPace == bench = "timing" => IntervalSettles

(* A stick held on one side gets its direction (input.rs:88-140).              *)
StickDecides == bench = "direction" => StickSettles

=============================================================================
