--------------------------- MODULE DynamicPlanner ---------------------------
(***************************************************************************)
(* The rules of the dynamic planner: which line of the track the car       *)
(* follows in each mission, when it leaves it to pass an opponent and when *)
(* it merges back.  A change of line is a segment stitched to the new      *)
(* line; once the car has passed the end of the segment the trajectory is  *)
(* the line itself.                                                        *)
(*                                                                         *)
(* Geometry is left out: whether a segment can be generated, whether the   *)
(* end of the last one is passed and whether a trajectory collides is      *)
(* open in every run, except that nothing collides with no opponent.       *)
(***************************************************************************)
CONSTANT
  Candidates      \* overtaking_candidate_path_alias_array

Lines == {"raceline", "defender", "stay_behind"} \cup Candidates

PlannerConstants ==
  /\ Candidates \cap {"raceline", "defender", "stay_behind", "none", "race_ready"} = {}

VARIABLES
  mission,        \* of the SystemStatus; "other" is one that allows no overtaking
  opponent,       \* m_cur_oppo_pred_result: "none", "seen", or seen too long ago
  line,           \* the line of m_cur_planned_traj, or none when it is empty
  alias,          \* m_last_update_target_path_alias
  reset_line,     \* m_reset_target_path_idx, set and cleared with m_reset_wpt_idx
  defender_first, \* m_defender_mode_first_callback
  lat, longi      \* m_last_lat_planning_type, m_last_long_planning_type

vars == <<mission, opponent, line, alias, reset_line, defender_first, lat, longi>>

Missions == {"pit", "race", "constant_speed", "other"}

TypeOK ==
  /\ mission \in Missions
  /\ opponent \in {"none", "seen", "old"}
  /\ line \in Lines \cup {"none"}
  /\ alias \in Lines \cup {"none", "race_ready"}
  /\ reset_line \in Lines \cup {"none"}
  /\ defender_first \in BOOLEAN
  /\ lat \in {"KEEP", "MERGE", "CHANGE_PATH"}
  /\ longi \in {"STRAIGHT", "FOLLOW", "ESTOP"}

\* The planning types are read only after they are set: any value will do.
Init ==
  /\ mission = "pit"
  /\ opponent = "none"
  /\ line = "none" /\ alias = "none" /\ reset_line = "none"
  /\ defender_first = FALSE
  /\ lat = "KEEP" /\ longi = "STRAIGHT"

-----------------------------------------------------------------------------
(* The steps of a run, on the trajectory that is planned.                  *)

Plan == [line |-> line, alias |-> alias, reset |-> reset_line]

Onto(new) == [line |-> new, alias |-> new, reset |-> new]

\* Mutant: the car is on the line and the planner still waits for it.
SwitchedKept(plan, passed) ==
  IF passed /\ plan.reset # "none" THEN [plan EXCEPT !.line = plan.reset] ELSE plan

\* checkSwitchToStaticWPT.
Switched(plan, passed) ==
  IF passed /\ plan.reset # "none"
    THEN [plan EXCEPT !.line = plan.reset, !.reset = "none"]
    ELSE plan

\* The trajectory a run starts with: a first one when there is none.
Base(first) == IF line = "none" THEN Onto(first) ELSE Plan

Planned(plan, lat_type, longi_type) ==
  /\ line' = plan.line /\ alias' = plan.alias /\ reset_line' = plan.reset
  /\ lat' = lat_type /\ longi' = longi_type

Estop(plan) == Planned(plan, "KEEP", "ESTOP")

\* A prediction is dropped when it is older than two seconds.
Watched == IF opponent = "old" THEN "none" ELSE opponent

Refresh ==
  /\ opponent' = Watched
  /\ UNCHANGED mission

-----------------------------------------------------------------------------
(* timer_callback_rule, by mission; generated says whether segments can be *)
(* generated in this run, far and close whether the opponent is farther    *)
(* than 30 m and closer than 150 m.                                        *)

\* Mutant: the trajectory of the last mission is left over.
PittedKept(plan) == [plan EXCEPT !.alias = "race_ready"]

\* The trajectory is dropped, the line it is to be reset to is not.
Pitted(plan) == [plan EXCEPT !.line = "none", !.alias = "race_ready"]

RunPit ==
  /\ mission = "pit"
  /\ Planned(Pitted(Plan), "KEEP", "STRAIGHT")
  /\ defender_first' = TRUE
  /\ Refresh

Gap(far, close) == Watched = "none" => far /\ ~close

\* Back to the racing line on the straight.
MergesBack(plan, zone, far) ==
  /\ zone = "straight" /\ far
  /\ plan.alias \notin {"raceline", "left_center"}
  /\ plan.reset = "none"

\* On the trajectory as it is, round the opponent or behind it.
KeepsOrPasses(plan, zone, generated) ==
  \/ Planned(plan, "KEEP", "STRAIGHT")
  \/ /\ Watched # "none"
     /\ \/ Planned(plan, "KEEP", "FOLLOW")
        \/ /\ zone # "corner_mid" /\ generated
           /\ \E candidate \in Candidates :
                Planned(Onto(candidate), "CHANGE_PATH", "STRAIGHT")

RunRace(passed, zone, far, generated) ==
  /\ mission = "race"
  /\ Gap(far, FALSE)
  /\ \/ /\ line = "none" /\ ~generated
        /\ Estop(Plan)
     \/ /\ line # "none" \/ generated
        /\ LET plan == Switched(Base("raceline"), passed)
           IN \/ /\ MergesBack(plan, zone, far)
                 /\ IF generated
                      THEN Planned(Onto("raceline"), "MERGE", "STRAIGHT")
                      ELSE Estop(plan)
              \/ /\ ~MergesBack(plan, zone, far) \/ (generated /\ Watched # "none")
                 /\ KeepsOrPasses(plan, zone, generated)
  /\ defender_first' = TRUE
  /\ Refresh

\* Defender mode: the inner line, and never past the opponent.
RunConstantSpeed(passed, generated) ==
  /\ mission = "constant_speed"
  /\ LET first == defender_first \/ line = "none"
         base  == IF first THEN Onto("defender") ELSE Plan
     IN IF first /\ ~generated
          THEN Estop(Plan)
          ELSE Planned(Switched(base, passed), "KEEP", "FOLLOW")
  /\ defender_first' = FALSE
  /\ Refresh

\* To the right while the opponent is close.
StaysBehind(plan, zone, close) ==
  /\ zone = "straight" /\ close
  /\ plan.alias \notin {"right_center", "stay_behind"}
  /\ plan.reset = "none"

RunOther(passed, zone, close, generated) ==
  /\ mission = "other"
  /\ Gap(TRUE, close)
  /\ \/ /\ line = "none" /\ ~generated
        /\ Estop(Plan)
     \/ /\ line # "none" \/ generated
        /\ LET plan == Switched(Base("raceline"), passed)
           IN \/ /\ StaysBehind(plan, zone, close)
                 /\ IF generated
                      THEN Planned(Onto("stay_behind"), "MERGE", "STRAIGHT")
                      ELSE Estop(plan)
              \/ /\ StaysBehind(plan, zone, close) => generated
                 /\ Planned(plan, "KEEP", "FOLLOW")
  /\ defender_first' = TRUE
  /\ Refresh

\* Without odometry, or without the map: nothing is planned or published.
RunWaiting ==
  /\ Refresh
  /\ UNCHANGED <<line, alias, reset_line, defender_first, lat, longi>>

Zones == {"straight", "corner_mid", "other"}

Run ==
  \/ RunPit
  \/ \E passed, far, generated \in BOOLEAN, zone \in Zones :
       \/ RunRace(passed, zone, far, generated)
       \/ RunConstantSpeed(passed, generated)
       \/ RunOther(passed, zone, far, generated)
  \/ RunWaiting

-----------------------------------------------------------------------------
PredictionResultCallback ==
  /\ opponent' \in {"none", "seen"}
  /\ UNCHANGED <<mission, line, alias, reset_line, defender_first, lat, longi>>

\* Two seconds without a prediction.
Tick ==
  /\ opponent = "seen"
  /\ opponent' = "old"
  /\ UNCHANGED <<mission, line, alias, reset_line, defender_first, lat, longi>>

SystemStatus ==
  /\ mission' \in Missions \ {mission}
  /\ UNCHANGED <<opponent, line, alias, reset_line, defender_first, lat, longi>>

Next == Run \/ PredictionResultCallback \/ Tick \/ SystemStatus

Spec == Init /\ [][Next]_vars

\* A run on a straight after the end of the last segment: the car drives on
\* and comes round.
RunPassedOnStraight == \E far \in BOOLEAN : RunRace(TRUE, "straight", far, TRUE)

-----------------------------------------------------------------------------
(* Properties.                                                             *)

\* The line the planner names in what it publishes, the line the trajectory
\* belongs to and the line it waits for to be reached are the same, through
\* every change of mission, failed generation and pit stop in between; the
\* one it waits for may be left over only while there is no trajectory.
AliasFollowsPath ==
  line # "none" => alias = line /\ reset_line \in {"none", line}

\* A car that races alone for good, whatever it passed or defended before,
\* ends on the racing line.
ComesBack ==
  [](   [](mission = "race" /\ opponent = "none")
     => <>(line = "raceline" /\ reset_line = "none"))
=============================================================================
