--------------------------- MODULE MissionManager ----------------------------
(***************************************************************************)
(* MissionManagerNode: every 50 ms run() chooses the mission of the car    *)
(* from the flags of race control.  It knows two current missions: the one *)
(* it last chose, in its own message, and the one that the last            *)
(* SystemStatus carries, which is older, or an emergency stop of the       *)
(* System Status Manager.  The flags are looked at with the second, a      *)
(* transition is validated from the first, unless the two agree already.   *)
(*                                                                         *)
(* Vehicle flags that are treated alike are one value (BLANK, NULL and     *)
(* DEFENDER; PINK and every unknown one), and so are track flags that are  *)
(* not looked at.  A place of the car is the set of missions whose         *)
(* activation area it is in; a speed is a level.  The zone of the track,   *)
(* which is only published, and the automatic switches, which the deployed *)
(* launch turns off, are left out.                                         *)
(***************************************************************************)
EXTENDS Naturals

CONSTANTS
  missions_description,  \* the table: [area, velocity, from, fallback] by mission
  VehFlags, TrackFlags,  \* the flags race control may send
  Places,                \* sets of missions whose areas overlap somewhere
  Speeds,                \* levels of the wheel speed
  StoppedMissions,       \* the missions whose velocity parameter is zero
  InitialMission,        \* the code of a message that was not filled in
  timeout_rc_flag_summary,
  timeout_current_velocity,
  timeout_odometry       \* the 1 s of isDataOk

Missions ==
  {"RACE", "KEEP_POSITION", "CONSTANT_SPEED", "COLLISION_AVOIDANCE",
   "TIRE_WARMUP", "TEST", "SLOW_DRIVE", "PIT_IN", "PIT_STANDBY", "PIT_OUT",
   "PIT_TO_TRACK", "STANDBY", "PIT_INIT", "INIT", "COMMANDED_STOP",
   "EMERGENCY_STOP", "DEFAULT"}

NoMission == "NONE"

HasEntry(m) == m \in DOMAIN missions_description

\* The missions that a rejected one may fall back to, over any number of
\* rejections: the least set that holds it and with a mission its fallback.
FallbackChain ==
  LET fallsBack == {m \in DOMAIN missions_description :
                      missions_description[m].fallback # NoMission}
      targets   == {missions_description[m].fallback : m \in fallsBack}
  IN  [m \in Missions |->
         {k \in targets \cup {m} : \A S \in SUBSET (targets \cup {m}) :
            /\ m \in S
            /\ \A j \in S \cap fallsBack : missions_description[j].fallback \in S
            => k \in S}]

ASSUME MissionManagerAssumption ==
  /\ DOMAIN missions_description \subseteq Missions
  /\ \A m \in DOMAIN missions_description :
       missions_description[m] \in
         [area : BOOLEAN, velocity : SUBSET Nat, from : SUBSET Missions,
          fallback : Missions \cup {NoMission}]
  /\ VehFlags \subseteq {"PURPLE", "BLACK", "CHECKERED", "NULL", "ATTACKER", "OTHER"}
  /\ TrackFlags \subseteq {"RED", "ORANGE", "YELLOW", "GREEN", "BLUE", "WAVING_GREEN",
                           "OTHER"}
  /\ Places \subseteq SUBSET Missions
  /\ Speeds \subseteq Nat
  /\ StoppedMissions \subseteq Missions
  /\ InitialMission \in Missions
  /\ timeout_rc_flag_summary \in Nat
  /\ timeout_current_velocity \in Nat
  /\ timeout_odometry \in Nat

\* "CAN'T BE ACTIVE, IT CLOSES THE LOOP": validateMissionTransition ends for
\* every mission, since no chain of fallbacks comes back to where it was.
ASSUME NoFallbackLoop ==
  \A m \in DOMAIN missions_description :
    missions_description[m].fallback # NoMission =>
      m \notin FallbackChain[missions_description[m].fallback]

VARIABLES
  mission,          \* mission_status_msg.mission_status_code
  mission_topic,    \* the mission that is on its way to the SSM
  system_status,    \* the mission of the last SystemStatus received
  is_system_startup,
  is_avoidance_enabled,
  is_warmup_enabled,
  rc_flag_summary,  \* the last flags: [veh, track]
  rc_age, velocity_age, odometry_age,
  current_velocity,
  place,            \* where the last ego odometry puts the car
  node_status

inputVars   == <<rc_flag_summary, rc_age, velocity_age, odometry_age,
                 current_velocity, place>>
switchVars  == <<is_avoidance_enabled, is_warmup_enabled>>
managerVars == <<mission, mission_topic, system_status, is_system_startup, switchVars,
                 inputVars, node_status>>

ManagerTypeOK ==
  /\ mission \in Missions
  /\ mission_topic \in Missions \cup {NoMission}
  /\ system_status \in Missions
  /\ is_system_startup \in BOOLEAN
  /\ is_avoidance_enabled \in BOOLEAN
  /\ is_warmup_enabled \in BOOLEAN
  /\ rc_flag_summary \in [veh : VehFlags, track : TrackFlags]
  /\ rc_age \in 0 .. timeout_rc_flag_summary + 1
  /\ velocity_age \in 0 .. timeout_current_velocity + 1
  /\ odometry_age \in 0 .. timeout_odometry + 1
  /\ current_velocity \in Speeds
  /\ place \in Places
  /\ node_status \in {"INITIALIZED", "OK", "ERROR"}

\* The flags, the speed and the place are not read before they have arrived.
ManagerInit ==
  /\ mission = InitialMission
  /\ mission_topic = NoMission
  /\ system_status = InitialMission
  /\ is_system_startup = TRUE
  /\ is_avoidance_enabled = FALSE
  /\ is_warmup_enabled = FALSE
  /\ rc_flag_summary \in [veh : VehFlags, track : TrackFlags]
  /\ rc_age = timeout_rc_flag_summary + 1
  /\ velocity_age = timeout_current_velocity + 1
  /\ odometry_age = timeout_odometry + 1
  /\ current_velocity \in Speeds
  /\ place \in Places
  /\ node_status = "INITIALIZED"

-----------------------------------------------------------------------------
(* The choice of the next mission.                                         *)

missionIs(m) == system_status = m

\* Mutant: the age of the odometry is not looked at.
DataOkNoOdometry ==
  rc_age <= timeout_rc_flag_summary /\ velocity_age <= timeout_current_velocity

DataOk ==
  /\ rc_age <= timeout_rc_flag_summary
  /\ velocity_age <= timeout_current_velocity
  /\ odometry_age <= timeout_odometry

\* The black vehicle flag.
MissionVehFlagBlack ==
  CASE rc_flag_summary.track = "RED" ->
         IF is_system_startup THEN "DEFAULT"
         ELSE IF missionIs("PIT_INIT") \/ missionIs("PIT_IN") \/ missionIs("PIT_STANDBY")
           THEN mission ELSE "COMMANDED_STOP"
    [] rc_flag_summary.track = "ORANGE" ->
         IF is_system_startup /\ missionIs("DEFAULT") THEN "PIT_INIT"
         ELSE IF missionIs("PIT_INIT") THEN "PIT_STANDBY"
         ELSE IF missionIs("INIT") THEN "STANDBY" ELSE mission
    [] OTHER -> "PIT_STANDBY"

\* A car that is called to drive leaves the pits first when it is in them.
DriveOr(m) == IF missionIs("PIT_IN") THEN "PIT_STANDBY" ELSE m

\* Mutant: a car on its way out of the pits goes on.
KeptWhileRedOut ==
  missionIs("STANDBY") \/ missionIs("PIT_STANDBY") \/ missionIs("PIT_OUT")

\* After the startup a red flag lets a car stand where it is.
KeptWhileRed == missionIs("STANDBY") \/ missionIs("PIT_STANDBY")

\* getMissionVehFlagNull.
MissionVehFlagNull(defender_mode) ==
  CASE rc_flag_summary.track = "RED" ->
         IF is_system_startup THEN "DEFAULT"
         ELSE IF missionIs("INIT") THEN "STANDBY"
         ELSE IF KeptWhileRed THEN mission ELSE "PIT_INIT"
    [] rc_flag_summary.track = "ORANGE" ->
         IF is_system_startup /\ missionIs("DEFAULT") THEN "PIT_INIT"
         ELSE IF missionIs("INIT") THEN "STANDBY" ELSE mission
    [] rc_flag_summary.track = "YELLOW" ->
         IF missionIs("PIT_STANDBY") \/ missionIs("PIT_OUT") \/ missionIs("PIT_INIT")
           THEN "PIT_TO_TRACK" ELSE DriveOr("SLOW_DRIVE")
    [] rc_flag_summary.track = "GREEN" ->
         DriveOr(IF is_warmup_enabled THEN "TIRE_WARMUP"
                 ELSE IF is_avoidance_enabled THEN "COLLISION_AVOIDANCE"
                 ELSE IF defender_mode THEN "CONSTANT_SPEED" ELSE "KEEP_POSITION")
    [] rc_flag_summary.track = "BLUE" ->
         DriveOr(IF defender_mode THEN "CONSTANT_SPEED" ELSE "KEEP_POSITION")
    [] rc_flag_summary.track = "WAVING_GREEN" ->
         DriveOr(IF defender_mode THEN "CONSTANT_SPEED" ELSE "RACE")
    [] OTHER -> "COMMANDED_STOP"

\* getMissionStatusCode: at exactly the timeout the flags, good enough for
\* isDataOk, are too old here.
MissionStatusCode ==
  CASE rc_age >= timeout_rc_flag_summary -> "COMMANDED_STOP"
    [] rc_age < timeout_rc_flag_summary ->
         CASE rc_flag_summary.veh = "PURPLE"    -> "EMERGENCY_STOP"
           [] rc_flag_summary.veh = "BLACK"     -> MissionVehFlagBlack
           [] rc_flag_summary.veh = "CHECKERED" -> "PIT_STANDBY"
           [] rc_flag_summary.veh = "NULL"      -> MissionVehFlagNull(TRUE)
           [] rc_flag_summary.veh = "ATTACKER"  -> MissionVehFlagNull(FALSE)
           [] OTHER                             -> "COMMANDED_STOP"

\* Mutant: the startup does not end while the car stands in the pits.
EndsStartupInitOnly ==
  /\ rc_age < timeout_rc_flag_summary
  /\ rc_flag_summary.veh \in {"BLACK", "NULL", "ATTACKER"}
  /\ rc_flag_summary.track = "ORANGE"
  /\ missionIs("INIT")

\* The side effect of getMissionStatusCode: an orange flag ends the startup once
\* the status says that the car is initialized.
EndsStartup ==
  /\ rc_age < timeout_rc_flag_summary
  /\ rc_flag_summary.veh \in {"BLACK", "NULL", "ATTACKER"}
  /\ rc_flag_summary.track = "ORANGE"
  /\ missionIs("PIT_INIT") \/ missionIs("INIT")

\* The conditions of the table, for a transition from the mission chosen last.
IsValid(m) ==
  /\ missions_description[m].area => m \in place
  /\ current_velocity \in missions_description[m].velocity
  /\ mission \in missions_description[m].from

\* validateMissionTransition takes m, and does not go on to its fallback.
Accepted(m) == missionIs(m) \/ ~HasEntry(m) \/ IsValid(m)

\* Mutant: a fallback is taken without being validated.
ValidatedFallback(next) ==
  IF Accepted(next) THEN next
  ELSE IF missions_description[next].fallback # NoMission
    THEN missions_description[next].fallback ELSE mission

\* validateMissionTransition: the first mission of the chain that is accepted,
\* or else the one there is.
Validated(next) ==
  LET accepted == {m \in FallbackChain[next] : Accepted(m)} IN
    IF accepted = {} THEN mission
    ELSE CHOOSE m \in accepted : accepted \subseteq FallbackChain[m]

-----------------------------------------------------------------------------
(* The timer, the callbacks and the services.                              *)

Run ==
  /\ \/ /\ ~DataOk
        /\ mission' = "EMERGENCY_STOP"
        /\ node_status' = "ERROR"
        /\ UNCHANGED is_system_startup
     \/ /\ DataOk
        /\ mission' = Validated(MissionStatusCode)
        /\ is_system_startup' = (is_system_startup /\ ~EndsStartup)
        /\ node_status' = "OK"
  /\ mission_topic' = mission'
  /\ UNCHANGED <<system_status, switchVars, inputVars>>

RCFlagSummaryCallback(veh, track) ==
  /\ rc_flag_summary' = [veh |-> veh, track |-> track]
  /\ rc_age' = 0
  /\ UNCHANGED <<mission, mission_topic, system_status, is_system_startup, switchVars,
                 velocity_age, odometry_age, current_velocity, place, node_status>>

VelocityCallback(speed) ==
  /\ current_velocity' = speed
  /\ velocity_age' = 0
  /\ UNCHANGED <<mission, mission_topic, system_status, is_system_startup, switchVars,
                 rc_flag_summary, rc_age, odometry_age, place, node_status>>

EgoOdometryCallback(where) ==
  /\ place' = where
  /\ odometry_age' = 0
  /\ UNCHANGED <<mission, mission_topic, system_status, is_system_startup, switchVars,
                 rc_flag_summary, rc_age, velocity_age, current_velocity, node_status>>

SystemStatusCallback(m) ==
  /\ system_status' = m
  /\ UNCHANGED <<mission, mission_topic, is_system_startup, switchVars, inputVars,
                 node_status>>

\* recoveryServiceHandler: the message is reset, and not published.
RecoveryService ==
  /\ missionIs("STANDBY") \/ missionIs("PIT_INIT") \/ missionIs("EMERGENCY_STOP")
       \/ missionIs("COMMANDED_STOP")
  /\ is_system_startup' = TRUE
  /\ mission' = "DEFAULT"
  /\ UNCHANGED <<mission_topic, system_status, switchVars, inputVars, node_status>>

AvoidanceService ==
  /\ is_avoidance_enabled' = ~is_avoidance_enabled
  /\ UNCHANGED <<mission, mission_topic, system_status, is_system_startup,
                 is_warmup_enabled, inputVars, node_status>>

WarmupService ==
  /\ is_warmup_enabled' = ~is_warmup_enabled
  /\ UNCHANGED <<mission, mission_topic, system_status, is_system_startup,
                 is_avoidance_enabled, inputVars, node_status>>

\* Mutant: an age that never stops.
NextAgeUncapped(age, timeout) == age + 1

NextAge(age, timeout) == IF age <= timeout THEN age + 1 ELSE age

ManagerTick ==
  /\ rc_age' = NextAge(rc_age, timeout_rc_flag_summary)
  /\ velocity_age' = NextAge(velocity_age, timeout_current_velocity)
  /\ odometry_age' = NextAge(odometry_age, timeout_odometry)
  /\ UNCHANGED <<mission, mission_topic, system_status, is_system_startup, switchVars,
                 rc_flag_summary, current_velocity, place, node_status>>

\* The process dies and is started again.
Restart ==
  /\ mission' = InitialMission
  /\ system_status' = InitialMission
  /\ is_system_startup' = TRUE
  /\ is_avoidance_enabled' = FALSE
  /\ is_warmup_enabled' = FALSE
  /\ rc_age' = timeout_rc_flag_summary + 1
  /\ velocity_age' = timeout_current_velocity + 1
  /\ odometry_age' = timeout_odometry + 1
  /\ node_status' = "INITIALIZED"
  /\ UNCHANGED <<mission_topic, rc_flag_summary, current_velocity, place>>

\* What needs no other component and leaves the process up.
ManagerNext ==
  \/ Run
  \/ RecoveryService
  \/ AvoidanceService
  \/ WarmupService
  \/ \E veh \in VehFlags, track \in TrackFlags : RCFlagSummaryCallback(veh, track)
  \/ \E speed \in Speeds : VelocityCallback(speed)
  \/ \E where \in Places : EgoOdometryCallback(where)

\* The velocity that goes with a mission: a stop, or one above zero.
MaxVelocity(m) == IF m \in StoppedMissions THEN 0 ELSE 1
=============================================================================
