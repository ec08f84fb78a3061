----------------------------- MODULE MissionLoop -----------------------------
(***************************************************************************)
(* The Mission Manager and the System Status Manager, of which only what   *)
(* MissionKeeper promises is known, through their two topics: a mission    *)
(* takes its time to the SSM, where the next one may be first; it may be   *)
(* overridden there or lose its velocity, and comes back with a            *)
(* SystemStatus, which takes its time as well: when the mission manager    *)
(* reads it, the SSM may keep another mission, and have published it.      *)
(***************************************************************************)
EXTENDS MissionManager, Sequences

CONSTANTS
  timeout_mission,
  StatusDepth        \* how many SystemStatuses may be on their way

ASSUME LoopAssumption ==
  /\ timeout_mission \in Nat
  /\ StatusDepth \in Nat \ {0}

\* What the deployed table lets follow an emergency stop: a mission that is not
\* in the table, which is always valid, stands, and so do those that its entries
\* allow from there, but for the one to the pits; and a restart or a recovery
\* begins standing.
ASSUME StandingTable ==
  /\ Missions \ DOMAIN missions_description \subseteq StoppedMissions
  /\ \A m \in DOMAIN missions_description :
       "EMERGENCY_STOP" \in missions_description[m].from
         => m \in StoppedMissions \cup {"PIT_IN"}
  /\ {"DEFAULT", InitialMission} \subseteq StoppedMissions

\* What a red flag, or the loss of the inputs, leads to, and what the mission is
\* before the first flag.
RedMissions ==
  {"DEFAULT", "INIT", "PIT_INIT", "STANDBY", "COMMANDED_STOP", "EMERGENCY_STOP",
   InitialMission}

\* They stand, and fall back to each other only.
ASSUME RedTable ==
  /\ RedMissions \subseteq StoppedMissions
  /\ \A m \in RedMissions \cap DOMAIN missions_description :
       missions_description[m].fallback \in RedMissions \cup {NoMission}

VARIABLES
  kept, kept_age, published,
  status_topic       \* the missions of the SystemStatuses on their way

Keeper == INSTANCE MissionKeeper WITH
  EMERGENCY_STOP <- "EMERGENCY_STOP", Velocities <- {0, 1}, velocity_zero <- 0

keeperVars == <<kept, kept_age, published>>
vars       == <<managerVars, keeperVars, status_topic>>

Init == ManagerInit /\ Keeper!KeeperInit /\ status_topic = <<>>

\* The SSM receives the mission that was published last.
Deliver ==
  /\ mission_topic # NoMission
  /\ Keeper!Receive(mission_topic, MaxVelocity(mission_topic))
  /\ mission_topic' = NoMission
  /\ UNCHANGED <<mission, system_status, is_system_startup, switchVars, inputVars,
                 node_status, status_topic>>

\* KeepLast: the oldest message makes way for the newest.
Enqueued(topic, msg) ==
  IF Len(topic) < StatusDepth THEN Append(topic, msg) ELSE Append(Tail(topic), msg)

\* The SSM hands a mission on with a SystemStatus.
PublishStatus ==
  /\ Keeper!Publish
  /\ status_topic' = Enqueued(status_topic, published'.code)
  /\ UNCHANGED managerVars

\* The mission manager receives the oldest SystemStatus that has not gone.
TakeStatus ==
  /\ status_topic # <<>>
  /\ SystemStatusCallback(Head(status_topic))
  /\ status_topic' = Tail(status_topic)
  /\ UNCHANGED keeperVars

\* A new process has a new subscription.
ManagerRestarts ==
  /\ Restart
  /\ status_topic' = <<>>
  /\ UNCHANGED keeperVars

Tick == ManagerTick /\ Keeper!KeeperTick /\ UNCHANGED status_topic

LoopStep ==
  \/ ManagerNext /\ UNCHANGED <<keeperVars, status_topic>>
  \/ ManagerRestarts
  \/ Deliver
  \/ PublishStatus
  \/ TakeStatus

Next == LoopStep \/ Tick

Spec == Init /\ [][Next]_vars

\* The executors of both nodes keep serving their timers and topics, and time
\* passes.  Nothing is assumed of race control, of the operator or of the car.
Fairness ==
  /\ WF_vars(Run /\ UNCHANGED <<keeperVars, status_topic>>)
  /\ WF_vars(Deliver)
  /\ WF_vars(PublishStatus)
  /\ WF_vars(TakeStatus)
  /\ WF_vars(Tick)

FairSpec == Spec /\ Fairness

TypeOK ==
  /\ ManagerTypeOK
  /\ kept_age \in 0 .. timeout_mission + 1
  /\ {kept, published} \subseteq [code : Missions, velocity : {0, 1}]
  /\ status_topic \in Seq(Missions)
  /\ Len(status_topic) <= StatusDepth

-----------------------------------------------------------------------------
(* Properties.                                                             *)

\* Under a red track flag, and as long as the vehicle flag is not one of those
\* that call the car to the pits, the car is in the end told to stand, whatever
\* the two nodes knew of each other's mission when the flag came: mission codes
\* that "are kept" while it is red are those of the mission manager, looked up
\* by the mission that the SSM published.
RedFlagStops ==
  <>[](/\ rc_flag_summary.track = "RED"
       /\ rc_flag_summary.veh \in {"NULL", "ATTACKER", "PURPLE", "OTHER"})
    => <>[](published.code \in StoppedMissions /\ published.velocity = 0)

\* If race control, the wheel speed or the odometry stays silent for good, what
\* the SSM publishes is an emergency stop for good.
InputLossStops ==
  <>[](\/ rc_age > timeout_rc_flag_summary
       \/ velocity_age > timeout_current_velocity
       \/ odometry_age > timeout_odometry)
    => <>[](published = Keeper!EmergencyMission)

\* Startup is not a trap: while the orange flag is out, run() finds its inputs
\* fresh, the SSM does not override and the node is not restarted, a startup
\* that has reached one of its own missions ends, although what ends it is a
\* mission that comes back from the SSM.
StartupUndisturbed ==
  /\ <>[](/\ rc_flag_summary.track = "ORANGE"
          /\ rc_flag_summary.veh \in {"NULL", "ATTACKER", "BLACK"}
          /\ mission \in {"DEFAULT", "PIT_INIT", "INIT"}
          /\ kept.code # "EMERGENCY_STOP"
          /\ node_status # "INITIALIZED")
  /\ <>[][Run => DataOk /\ rc_age < timeout_rc_flag_summary]_vars

StartupCompletes == StartupUndisturbed => []<>~is_system_startup

\* The whole loop is in an emergency stop: the mission manager, the SSM and what
\* is on its way in between, either way.
EmergencyStopSettled ==
  /\ {mission, kept.code, system_status} = {"EMERGENCY_STOP"}
  /\ mission_topic \in {NoMission, "EMERGENCY_STOP"}
  /\ \A i \in DOMAIN status_topic : status_topic[i] = "EMERGENCY_STOP"

\* An emergency stop that has settled is not left for a driving mission, but by
\* way of a mission that stands or that goes to the pits, whatever the flags.
\* (One that has not is: the SSM may still return the mission before it.)
SettledEmergencyStopHolds ==
  [][EmergencyStopSettled =>
       EmergencyStopSettled' \/ mission' \in StoppedMissions \cup {"PIT_IN"}]_vars

\* "ignore orange flag after startup" (getMissionStatusCode): with fresh inputs,
\* and when the mission that comes back is not one of the initial ones, which
\* the flag does end, the next mission is the one there is.
OrangeRun ==
  /\ Run
  /\ DataOk
  /\ rc_age < timeout_rc_flag_summary
  /\ rc_flag_summary = [veh |-> "BLACK", track |-> "ORANGE"]
  /\ ~is_system_startup
  /\ system_status \notin {"PIT_INIT", "INIT"}

OrangeIgnored == [][OrangeRun => mission' = mission]_vars
=============================================================================
