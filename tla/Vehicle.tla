------------------------------ MODULE Vehicle ------------------------------
(***************************************************************************)
(* The small machines between the receivers and the car, side by side: the *)
(* localization and the planner, the velocity and the acceleration that    *)
(* are made of its trajectory, the pedals, the shifting, the brake of an   *)
(* emergency, and of the drivers the enabling by the SSC interface and by  *)
(* the Raptor CAN node and race control's flags.  They share no state, so  *)
(* a behaviour moves one of them, its focus, and leaves the others as they *)
(* start.                                                                  *)
(***************************************************************************)
EXTENDS Integers

CONSTANTS
  MaxHunger, TopicDepth,                               \* PedalChain
  TopGear, DownshiftSpeed, UpshiftSpeed, GearSpeeds, ShiftLimit,
  BrakeSpeeds, HardBrakingTime, SoftBrakingTime, SafeVelThres, VelTimeout,
  FullBrake,                                           \* EmergencyBraking
  DISABLED_FEEDBACK_THRESH,
  Summaries, FlagDepth,                                \* RaceFlags
  Candidates,                                          \* DynamicPlanner
  Compensated, GpsTimeout, Noises,                     \* Localization
  PathTimeout, CruiseTimeout, MaxDelay,                \* CruiseChain
  TopVelocity, SpeedPathTimeout                        \* SpeedChain

VARIABLES
  focus,
  said, hunger, locked, unsaid, desired_accel, answer, unanswered,
  accelerator_cmd, brake_cmd, m_acc_cmd, m_brake_cmd,
  curr_gear, gear_cmd, sent_gear, current_gear, engine_running, speed,
  upshift_enabled, shifting_counter, last_shift,
  speed_mps, vel_age, init_vel, safe_braking_time, elapsed,
  braking_control_cmd, emergency, seen, measured, due,
  m_last_state_command, m_state, m_first_control_cmd_sent,
  m_first_state_cmd_sent, m_disabled_feedback_count,
  enable_, prev_enable_, raised, dbw_enabled, by_wire, cancelled, asked,
  flag_summary, rc_to_ct, m_rec_track_cond, m_rec_veh_signal, ct_current_mode,
  on_track, shown, counter_ct,
  mission, opponent, line, alias, reset_line, defender_first, lat, longi,
  received, gps_update, noise, gps_age, imu_age, bImuFirstCall, heading,
  bInitConverged, node_status, code, corrected,
  to_lqr, to_acc, missed, traj_age, traj_empty, path_long, control_cmd, des_acc,
  m_accCMD_firstcall, limit_age,
  max_velocity, m_max_vel_mps, path_age, path_points, desired_velocity_prev,
  planner_status, des_vel, direct_desired_velocity

pedalVars ==
  <<said, hunger, locked, unsaid, desired_accel, answer, unanswered,
    accelerator_cmd, brake_cmd, m_acc_cmd, m_brake_cmd>>
gearVars ==
  <<curr_gear, gear_cmd, sent_gear, current_gear, engine_running, speed,
    upshift_enabled, shifting_counter, last_shift>>
brakingVars ==
  <<speed_mps, vel_age, init_vel, safe_braking_time, elapsed,
    braking_control_cmd, emergency, seen, measured, due>>
sscVars ==
  <<m_last_state_command, m_state, m_first_control_cmd_sent,
    m_first_state_cmd_sent, m_disabled_feedback_count>>
raptorVars ==
  <<enable_, prev_enable_, raised, dbw_enabled, by_wire, cancelled, asked>>
flagVars ==
  <<flag_summary, rc_to_ct, m_rec_track_cond, m_rec_veh_signal, ct_current_mode,
    on_track, shown, counter_ct>>
plannerVars ==
  <<mission, opponent, line, alias, reset_line, defender_first, lat, longi>>
localizationVars ==
  <<received, gps_update, noise, gps_age, imu_age, bImuFirstCall, heading,
    bInitConverged, node_status, code, corrected>>
cruiseVars ==
  <<to_lqr, to_acc, missed, traj_age, traj_empty, path_long, control_cmd, des_acc,
    m_accCMD_firstcall, limit_age>>
speedVars ==
  <<max_velocity, m_max_vel_mps, path_age, path_points, desired_velocity_prev,
    planner_status, des_vel, direct_desired_velocity>>

controlVars == <<pedalVars, gearVars, brakingVars>>
trackingVars == <<cruiseVars, speedVars>>
driverVars == <<sscVars, raptorVars, flagVars>>
vars ==
  <<focus, controlVars, driverVars, plannerVars, localizationVars, trackingVars>>

Pedals  == INSTANCE PedalChain WITH Depth <- TopicDepth
Gear    == INSTANCE GearShift WITH Speeds <- GearSpeeds
Braking == INSTANCE EmergencyBraking WITH Speeds <- BrakeSpeeds
Ssc     == INSTANCE DbwStateMachine
Raptor  == INSTANCE RaptorDbw
Flags   == INSTANCE RaceFlags WITH Depth <- FlagDepth
Planner == INSTANCE DynamicPlanner
Location == INSTANCE Localization
Cruise  == INSTANCE CruiseChain
Speed   == INSTANCE SpeedChain

ASSUME VehicleAssumption ==
  /\ Pedals!ChainConstants
  /\ Gear!GearConstants
  /\ Braking!BrakingConstants
  /\ Ssc!DbwConstants
  /\ Flags!FlagsConstants
  /\ Planner!PlannerConstants
  /\ Location!LocalizationConstants
  /\ Cruise!CruiseConstants
  /\ Speed!SpeedConstants

Machines == {"pedals", "gear", "braking", "ssc", "raptor", "flags", "planner",
             "localization", "cruise", "speed"}

TypeOK ==
  /\ focus \in Machines
  /\ Pedals!ChainTypeOK
  /\ Gear!TypeOK
  /\ Braking!TypeOK
  /\ Ssc!TypeOK
  /\ Raptor!TypeOK
  /\ Flags!TypeOK
  /\ Planner!TypeOK
  /\ Location!TypeOK
  /\ Cruise!TypeOK
  /\ Speed!TypeOK

\* The memory that is not initialized is looked at with its machine.
Init ==
  /\ focus \in Machines
  /\ Pedals!Init
  /\ Gear!Init
  /\ Braking!Init
  /\ Ssc!Init
  /\ Raptor!Init
  /\ Flags!Init
  /\ Planner!Init
  /\ Location!Init
  /\ Cruise!Init
  /\ Speed!Init
  /\ focus # "flags" => m_rec_track_cond = 255 /\ m_rec_veh_signal = 0
  /\ focus # "localization" =>
       /\ ~bImuFirstCall
       /\ \A r \in Location!Receivers : \A value \in Noises : noise[r] <= value
  /\ focus # "cruise" => ~path_long
  /\ focus # "speed" => direct_desired_velocity = 0

PedalsNext ==
  /\ focus = "pedals" /\ Pedals!Next
  /\ UNCHANGED <<focus, gearVars, brakingVars, driverVars, plannerVars, localizationVars,
                 trackingVars>>

GearNext ==
  /\ focus = "gear" /\ Gear!Next
  /\ UNCHANGED <<focus, pedalVars, brakingVars, driverVars, plannerVars, localizationVars,
                 trackingVars>>

BrakingNext ==
  /\ focus = "braking" /\ Braking!Next
  /\ UNCHANGED <<focus, pedalVars, gearVars, driverVars, plannerVars, localizationVars,
                 trackingVars>>

SscNext ==
  /\ focus = "ssc" /\ Ssc!Next
  /\ UNCHANGED <<focus, controlVars, raptorVars, flagVars, plannerVars, localizationVars,
                 trackingVars>>

RaptorNext ==
  /\ focus = "raptor" /\ Raptor!Next
  /\ UNCHANGED <<focus, controlVars, sscVars, flagVars, plannerVars, localizationVars,
                 trackingVars>>

FlagsNext ==
  /\ focus = "flags" /\ Flags!Next
  /\ UNCHANGED <<focus, controlVars, sscVars, raptorVars, plannerVars, localizationVars,
                 trackingVars>>

PlannerNext ==
  /\ focus = "planner" /\ Planner!Next
  /\ UNCHANGED <<focus, controlVars, driverVars, localizationVars,
                 trackingVars>>

LocalizationNext ==
  /\ focus = "localization" /\ Location!Next
  /\ UNCHANGED <<focus, controlVars, driverVars, plannerVars,
                 trackingVars>>

CruiseNext ==
  /\ focus = "cruise" /\ Cruise!Next
  /\ UNCHANGED <<focus, controlVars, driverVars, plannerVars, localizationVars, speedVars>>

SpeedNext ==
  /\ focus = "speed" /\ Speed!Next
  /\ UNCHANGED <<focus, controlVars, driverVars, plannerVars, localizationVars, cruiseVars>>

Next ==
  \/ PedalsNext \/ GearNext \/ BrakingNext
  \/ SscNext \/ RaptorNext \/ FlagsNext
  \/ PlannerNext
  \/ LocalizationNext
  \/ CruiseNext \/ SpeedNext

Spec == Init /\ [][Next]_vars

-----------------------------------------------------------------------------
(* Fairness of each machine, in its own behaviours.                        *)

\* Each process goes on serving its timer, or its topics, and ends its
\* callbacks.  That a desired acceleration arrives is not assumed.
PedalsFairness ==
  /\ WF_pedalVars(focus = "pedals" /\ Pedals!Run)
  /\ WF_pedalVars(focus = "pedals" /\ Pedals!RunPublishes)
  /\ WF_pedalVars(focus = "pedals" /\ Pedals!ReceiveDesAccel)
  /\ WF_pedalVars(focus = "pedals" /\ Pedals!AnswerPublishes)
  /\ WF_pedalVars(focus = "pedals" /\ Pedals!JoystickAcceleratorCmdCallback)
  /\ WF_pedalVars(focus = "pedals" /\ Pedals!JoystickBrakeCmdCallback)

\* The 10 ms timer.
GearFairness == WF_gearVars(focus = "gear" /\ Gear!Shift)

\* Both kinds of commands go on arriving.  Of reports nothing is assumed.
SscFairness ==
  /\ WF_sscVars(focus = "ssc" /\ Ssc!StateCommandCallback)
  /\ WF_sscVars(focus = "ssc" /\ Ssc!OnCommandMessage)

\* Summaries and reports go on coming over CAN, and the SSC interface serves
\* its topics.  Every report counts, so that none has to be an emergency.
FlagsFairness ==
  /\ WF_flagVars(focus = "flags" /\ Flags!RecvSummaries)
  /\ WF_flagVars(focus = "flags" /\ Flags!FlagSummaryCallback)
  /\ WF_flagVars(focus = "flags" /\ Flags!RcToCtCallback)
  /\ WF_flagVars(focus = "flags" /\ Flags!MiscReport)

\* The car drives on: it comes to the end of each segment and to a straight,
\* and segments can be generated there.
PlannerFairness ==
  WF_plannerVars(focus = "planner" /\ Planner!RunPassedOnStraight)

\* The statuses, the planner's timer and the topic of its velocity go on.
SpeedFairness ==
  /\ WF_speedVars(focus = "speed" /\ Speed!AfterSystemStatusCallback)
  /\ WF_speedVars(focus = "speed" /\ Speed!Runs)
  /\ WF_speedVars(focus = "speed" /\ Speed!DirectDesiredVelocityCallback)

FairSpec ==
  /\ Spec
  /\ PedalsFairness /\ GearFairness /\ SscFairness /\ FlagsFairness
  /\ PlannerFairness /\ SpeedFairness

-----------------------------------------------------------------------------
(* Properties, each of one machine; its module says what it is about.      *)

\* PedalChain: one node's stop is not left with the other's throttle.
PedalsNotFought == Pedals!PedalsNotFought

\* PedalChain: of two nodes that write a topic, the one that is in charge wins.
LastWordReachesCar == focus = "pedals" => Pedals!LastWordReachesCar

\* GearShift: no shift is taken back at one speed.
NoHunting == Gear!NoHunting

\* GearShift: the command ends in a gear that fits the speed.
GearSettles == Gear!GearSettles

\* EmergencyBraking: the brake is eased only where the wheels allow it.
BrakeNotEased == Braking!BrakeNotEased

\* EmergencyBraking: a fast car has the time of a fast car to stand.
BrakingTimeGiven == Braking!BrakingTimeGiven

\* DbwStateMachine: a request to enable comes through.
RequestSettles == Ssc!RequestSettles

\* RaptorDbw: what is published is so.
PublishedIsTrue == Raptor!PublishedIsTrue

\* RaptorDbw: what the driver or a fault turned off stays off until asked.
NotEnabledUnasked == Raptor!NotEnabledUnasked

\* RaceFlags: no race before the flags for it.
RaceNeedsFlags == Flags!RaceNeedsFlags

\* RaceFlags: red, for good, ends caution and race.
RedStops == Flags!RedStops

\* RaceFlags: purple, for good, shuts the car on track off.
PurpleShutsOff == Flags!PurpleShutsOff

\* DynamicPlanner: the line that is named is the line that is driven.
AliasFollowsPath == Planner!AliasFollowsPath

\* DynamicPlanner: a car that races alone comes back to the racing line.
ComesBack == focus = "planner" => Planner!ComesBack

\* Localization: a filter that has converged is fed with positions only.
MeasuredOnceConverged == Location!MeasuredOnceConverged

\* Localization: the top receiver takes over.
TopTakesOver == Location!TopTakesOver

\* CruiseChain: no trajectory is driven on without the limit made of it.
LimitOutlivesTrajectory == Cruise!LimitOutlivesTrajectory

\* SpeedChain: a mission that stops the car brings the velocity to zero.
StopReachesController == focus = "speed" => Speed!StopReachesController
=============================================================================
