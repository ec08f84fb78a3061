---------------------------- MODULE MissionKeeper ----------------------------
(***************************************************************************)
(* What the System Status Manager promises about the mission: it hands on  *)
(* the last mission it received, for as long as that is not older than its *)
(* timeout, and what it hands on instead, for this reason or for one of    *)
(* its own, is an emergency stop with no velocity, which then is all it    *)
(* hands on until the next mission arrives.                                *)
(*                                                                         *)
(* SystemStatusManager implements this specification; MissionLoop composes *)
(* it with the MissionManager, which reads the mission back.               *)
(***************************************************************************)
EXTENDS Naturals

CONSTANTS
  Missions,         \* mission codes that arrive
  EMERGENCY_STOP,
  Velocities,       \* velocities that are handed on
  velocity_zero,
  timeout_mission

VARIABLES
  kept,      \* the mission kept, with its velocity
  kept_age,  \* of the last mission received; stops one above the timeout
  published  \* what was last handed on

keeperVars == <<kept, kept_age, published>>

Mission(code, velocity) == [code |-> code, velocity |-> velocity]
EmergencyMission        == Mission(EMERGENCY_STOP, velocity_zero)

KeeperInit ==
  /\ kept = EmergencyMission
  /\ kept_age = timeout_mission + 1
  /\ published = EmergencyMission

\* A mission arrives; its velocity may be taken back (a bad localization).
Receive(code, velocity) ==
  /\ kept' \in {Mission(code, velocity), Mission(code, velocity_zero)}
  /\ kept_age' = 0
  /\ UNCHANGED published

KeepOn     == kept_age <= timeout_mission /\ UNCHANGED kept
Override   == kept' = EmergencyMission

\* The mission is handed on, or overridden for good.
Publish ==
  /\ KeepOn \/ Override
  /\ published' = kept'
  /\ UNCHANGED kept_age

KeeperTick ==
  /\ kept_age' = IF kept_age <= timeout_mission THEN kept_age + 1 ELSE kept_age
  /\ UNCHANGED <<kept, published>>

KeeperNext ==
  \/ Publish
  \/ KeeperTick
  \/ \E code \in Missions, velocity \in Velocities : Receive(code, velocity)

KeeperSpec == KeeperInit /\ [][KeeperNext]_keeperVars
=============================================================================
