----------------------------- MODULE SpeedChain -----------------------------
(***************************************************************************)
(* The mission's velocity on its way to the controller: the velocity       *)
(* planner takes it from each SystemStatus, plans below it while it has a  *)
(* path and zero otherwise, moves its output to that by a step in each     *)
(* run, and sends it to the LQR controller, which drives to the last one.  *)
(*                                                                         *)
(* Velocities are levels, one of which a run may rise or fall.  What the   *)
(* curvature and the tires allow is any level up to the mission's.  Left   *)
(* out: the parameters, and the timeout of the status, which only the      *)
(* node's own status shows.                                                *)
(***************************************************************************)
EXTENDS Naturals

CONSTANTS
  TopVelocity,         \* des_vel_mps
  SpeedPathTimeout     \* path_timeout_sec

SpeedConstants ==
  /\ TopVelocity \in Nat
  /\ SpeedPathTimeout \in Nat \ {0}

VARIABLES
  max_velocity,               \* of the mission in the SystemStatus
  m_max_vel_mps,
  path_age, path_points,      \* m_path_update_time; more than the least length
  desired_velocity_prev,
  planner_status,
  des_vel,                    \* topic
  direct_desired_velocity     \* of the LQR; not initialized

velocityVars == <<m_max_vel_mps, path_age, path_points, desired_velocity_prev, planner_status>>
vars == <<max_velocity, velocityVars, des_vel, direct_desired_velocity>>

Velocities == 0 .. TopVelocity
NoVelocity == TopVelocity + 1

TypeOK ==
  /\ max_velocity \in Velocities /\ m_max_vel_mps \in Velocities
  /\ path_age \in 0 .. SpeedPathTimeout /\ path_points \in BOOLEAN
  /\ desired_velocity_prev \in Velocities
  /\ planner_status \in {"INITIALIZED", "OK", "ERROR"}
  /\ des_vel \in Velocities \cup {NoVelocity}
  /\ direct_desired_velocity \in Velocities

Init ==
  /\ max_velocity = 0
  /\ m_max_vel_mps = TopVelocity
  /\ path_age = SpeedPathTimeout /\ path_points = FALSE
  /\ desired_velocity_prev = 0
  /\ planner_status = "INITIALIZED"
  /\ des_vel = NoVelocity
  /\ direct_desired_velocity \in Velocities

-----------------------------------------------------------------------------

Mission(velocity) ==
  /\ max_velocity' = velocity
  /\ UNCHANGED <<velocityVars, des_vel, direct_desired_velocity>>

\* Its other branch, without a status, is never taken: one has just arrived.
AfterSystemStatusCallback ==
  /\ m_max_vel_mps' = max_velocity
  /\ UNCHANGED <<max_velocity, path_age, path_points, desired_velocity_prev,
                 planner_status, des_vel, direct_desired_velocity>>

PathCallback(points) ==
  /\ path_age' = 0
  /\ path_points' = points
  /\ UNCHANGED <<max_velocity, m_max_vel_mps, desired_velocity_prev, planner_status,
                 des_vel, direct_desired_velocity>>

SmoothSignalUp(current, target) == IF target > current THEN current + 1 ELSE current

\* One step towards the target.
SmoothSignal(current, target) ==
  IF target > current THEN current + 1
  ELSE IF target < current THEN current - 1
  ELSE target

ValidPath == path_points /\ path_age < SpeedPathTimeout

\* odometry: valid_odom; heard: hasSystemStatus; planned: what the curve ahead
\* leaves of the mission's velocity.
Run(odometry, heard, autonomy, planned) ==
  LET valid == ValidPath /\ odometry
      desired == SmoothSignal(desired_velocity_prev, IF valid THEN planned ELSE 0)
  IN  /\ planned <= m_max_vel_mps
      /\ desired_velocity_prev' = desired
      /\ des_vel' = desired
      /\ planner_status' = IF heard /\ (autonomy => valid) THEN "OK" ELSE "ERROR"
      /\ UNCHANGED <<max_velocity, m_max_vel_mps, path_age, path_points,
                     direct_desired_velocity>>

\* directDesiredVelocityCallback: the velocity has no age.
DirectDesiredVelocityCallback ==
  /\ des_vel # NoVelocity
  /\ des_vel' = NoVelocity
  /\ direct_desired_velocity' = des_vel
  /\ UNCHANGED <<max_velocity, velocityVars>>

Tick ==
  /\ path_age < SpeedPathTimeout
  /\ path_age' = path_age + 1
  /\ UNCHANGED <<max_velocity, m_max_vel_mps, path_points, desired_velocity_prev,
                 planner_status, des_vel, direct_desired_velocity>>

Runs ==
  \E odometry, heard, autonomy \in BOOLEAN, planned \in Velocities :
    Run(odometry, heard, autonomy, planned)

Next ==
  \/ \E velocity \in Velocities : Mission(velocity)
  \/ AfterSystemStatusCallback
  \/ \E points \in BOOLEAN : PathCallback(points)
  \/ Runs
  \/ DirectDesiredVelocityCallback
  \/ Tick

Spec == Init /\ [][Next]_vars

-----------------------------------------------------------------------------
(* Properties.                                                             *)

Unplanned == path_age = SpeedPathTimeout

\* When the mission stops the car for good, or the planner falls silent for
\* good, the velocity that the controller drives to ends at zero and stays
\* there, whatever is on its way in between.
StopReachesController ==
  <>[](max_velocity = 0) \/ <>[]Unplanned => <>[](direct_desired_velocity = 0)
=============================================================================
