------------------------- MODULE SystemStatusManager ------------------------
(***************************************************************************)
(* SystemStatusManagerNode: the node that gathers the health of the car    *)
(* and publishes one SystemStatus message every 10 ms.  It runs on a       *)
(* single-threaded executor, so that every callback is one action.         *)
(*                                                                         *)
(*   - the base station's joystick messages carry a rolling counter; the   *)
(*     33 ms heartbeat timer watches it change and drops the link after    *)
(*     max_counter_drop timers without a change;                           *)
(*   - a dropped link stays dropped until the operator calls the recovery  *)
(*     service, an emergency_stop of the joystick stays for ever;          *)
(*   - the mission and its maximum velocity are stored in the message that *)
(*     is published, and overwritten there when the mission is too old or  *)
(*     the low level is not healthy;                                       *)
(*   - the node registry is in NodeRegistry.                               *)
(*                                                                         *)
(* Time is counted in ticks.  An age stops at its timeout plus one, which  *)
(* also stands for "never received".                                       *)
(***************************************************************************)
EXTENDS NodeRegistry

CONSTANTS
  Counters,         \* values of JoystickCommand.counter, a uint8
  default_counter,  \* 502: what the counters start from
  max_counter_drop, \* 75
  LocalizationCodes,\* localization_status_code values that arrive
  timeout_localization_status,
  Missions,         \* mission_status_code values that arrive
  EMERGENCY_STOP,   \* MissionStatus::MISSION_EMERGENCY_STOP
  Velocities,       \* max_velocity_mps values that arrive
  timeout_mission,
  LowLevelReports,  \* sets of failure flags a DiagnosticReport may carry
  timeout_ll,       \* the 1 s of systemStatusTimerCallback
  ParameterVectors  \* sequences of [name, value] a parameter event may carry

ASSUME SSMAssumption ==
  /\ Counters \subseteq Nat
  /\ default_counter \in Nat \ Counters
  /\ max_counter_drop \in Nat \ {0}
  /\ LocalizationCodes \subseteq Nat
  /\ timeout_localization_status \in Nat
  /\ Velocities \subseteq Nat
  /\ timeout_mission \in Nat
  /\ timeout_ll \in Nat
  /\ ParameterVectors \subseteq
       Seq([name : {"lat_autonomy_enabled", "long_autonomy_enabled"}, value : BOOLEAN])

velocity_zero     == 0
MissionCodes      == Missions \cup {EMERGENCY_STOP}
MaxVelocities     == Velocities \cup {velocity_zero}
LOCALIZATION_ERROR == 100
LOCALIZATION_STOP  == 200

\* SystemStatusCode: the node codes, cast, and one of its own.
SYSTEM_LOW_LEVEL_ERROR == NODE_DEAD + 1
SystemCodes            == NODE_OK .. SYSTEM_LOW_LEVEL_ERROR

VARIABLES
  t,                    \* heartbeat timers since the counter last changed
  counter_joy,
  counter_joy_prev,
  comms_heartbeat_ok,
  recovery_enabled,
  joy_emergency_stop,
  localization_status_code,
  localization_age,
  mission_age,
  is_ll_healthy,
  ll_age,
  system_status_msg,    \* the message the callbacks edit in place
  published,            \* the SystemStatus topic: the last message sent
  since_drop,           \* history: what happened since the link last dropped
  mission_since_override\* history: a mission came since the last override

heartbeatVars    == <<t, counter_joy, counter_joy_prev, comms_heartbeat_ok,
                      recovery_enabled>>
localizationVars == <<localization_status_code, localization_age>>
llVars           == <<is_ll_healthy, ll_age>>
ssmVars == <<heartbeatVars, joy_emergency_stop, localizationVars, mission_age,
             llVars, system_status_msg, published, since_drop,
             mission_since_override>>
vars    == <<ssmVars, registryVars>>

SystemStatus ==
  [communication_failure : BOOLEAN,
   localization_failure  : BOOLEAN,
   commanded_stop        : BOOLEAN,
   system_failure        : BOOLEAN,
   system_status_code    : SystemCodes,
   mission_status_code   : MissionCodes,
   max_velocity_mps      : MaxVelocities,
   lateral_autonomy_enabled      : BOOLEAN,
   longitudinal_autonomy_enabled : BOOLEAN]

TypeOK ==
  /\ RegistryTypeOK
  /\ t \in Nat
  /\ counter_joy \in Counters \cup {default_counter}
  /\ counter_joy_prev \in Counters \cup {default_counter}
  /\ comms_heartbeat_ok \in BOOLEAN
  /\ recovery_enabled \in BOOLEAN
  /\ joy_emergency_stop \in BOOLEAN
  /\ localization_status_code \in LocalizationCodes \cup {LOCALIZATION_STOP}
  /\ localization_age \in 0 .. timeout_localization_status + 1
  /\ mission_age \in 0 .. timeout_mission + 1
  /\ is_ll_healthy \in BOOLEAN
  /\ ll_age \in 0 .. timeout_ll + 1
  /\ system_status_msg \in SystemStatus
  /\ published \in SystemStatus
  /\ since_drop \in SUBSET {"beat", "recovery"}
  /\ mission_since_override \in BOOLEAN

\* The constructor: every health flag but commanded_stop reports a failure.
\* The mission fields are not read before the timer has overwritten them.
InitialStatus ==
  [communication_failure |-> TRUE,
   localization_failure  |-> TRUE,
   commanded_stop        |-> FALSE,
   system_failure        |-> TRUE,
   system_status_code    |-> SYSTEM_LOW_LEVEL_ERROR,
   mission_status_code   |-> EMERGENCY_STOP,
   max_velocity_mps      |-> velocity_zero,
   lateral_autonomy_enabled      |-> FALSE,
   longitudinal_autonomy_enabled |-> FALSE]

Init ==
  /\ RegistryInit
  /\ t = 0
  /\ counter_joy = default_counter
  /\ counter_joy_prev = default_counter
  /\ comms_heartbeat_ok = FALSE
  /\ recovery_enabled = TRUE
  /\ joy_emergency_stop = FALSE
  /\ localization_status_code = LOCALIZATION_STOP
  /\ localization_age = timeout_localization_status + 1
  /\ mission_age = timeout_mission + 1
  /\ is_ll_healthy = FALSE
  /\ ll_age = timeout_ll + 1
  /\ system_status_msg = InitialStatus
  /\ published = InitialStatus
  /\ since_drop = {"beat", "recovery"}
  /\ mission_since_override = FALSE

-----------------------------------------------------------------------------
(* The joystick link.                                                      *)

\* Mutant: the flag follows the last message.
StopRequestedNow(emergency_stop) == emergency_stop

\* The emergency stop of a message is latched.
StopRequested(emergency_stop) == joy_emergency_stop \/ emergency_stop

JoystickCallback(counter, emergency_stop) ==
  /\ counter_joy' = counter
  /\ joy_emergency_stop' = StopRequested(emergency_stop)
  /\ UNCHANGED <<t, counter_joy_prev, comms_heartbeat_ok, recovery_enabled,
                 localizationVars, mission_age, llVars, system_status_msg,
                 published, since_drop, mission_since_override, registryVars>>

\* commsHeartbeatOk, the branch of a counter that changed.
HeartbeatReceived ==
  /\ counter_joy_prev # counter_joy
  /\ t' = 0
  /\ counter_joy_prev' = IF counter_joy # default_counter
                           THEN counter_joy ELSE counter_joy_prev
  /\ comms_heartbeat_ok' = TRUE
  /\ since_drop' = since_drop \cup {"beat"}
  /\ UNCHANGED recovery_enabled

\* Mutant: the count of missed beats starts again after a drop.
NextMissRestarts == IF t < max_counter_drop THEN t + 1 ELSE 0

\* t++; it stops at max_counter_drop, nothing reads how far it goes.
NextMiss == IF t < max_counter_drop THEN t + 1 ELSE t

\* Mutant: a drop does not take the recovery back.
DropLinkNoLatch ==
  comms_heartbeat_ok' = FALSE /\ since_drop' = {} /\ UNCHANGED recovery_enabled

DropLink ==
  comms_heartbeat_ok' = FALSE /\ since_drop' = {} /\ recovery_enabled' = FALSE

\* The branch of a counter that did not: the link drops at max_counter_drop.
HeartbeatMissed ==
  /\ counter_joy_prev = counter_joy
  /\ t' = NextMiss
  /\ \/ t' >= max_counter_drop /\ DropLink
     \/ /\ t' < max_counter_drop
        /\ comms_heartbeat_ok' = TRUE
        /\ UNCHANGED <<recovery_enabled, since_drop>>
  /\ UNCHANGED counter_joy_prev

CommsHeartbeatTimer ==
  /\ HeartbeatReceived \/ HeartbeatMissed
  /\ UNCHANGED <<counter_joy, joy_emergency_stop, localizationVars, mission_age,
                 llVars, system_status_msg, published, mission_since_override,
                 registryVars>>

\* recoveryServiceHandler: pull-up only.
Recover ==
  /\ ~recovery_enabled
  /\ recovery_enabled' = TRUE
  /\ since_drop' = since_drop \cup {"recovery"}
  /\ UNCHANGED <<t, counter_joy, counter_joy_prev, comms_heartbeat_ok,
                 joy_emergency_stop, localizationVars, mission_age, llVars,
                 system_status_msg, published, mission_since_override,
                 registryVars>>

-----------------------------------------------------------------------------
(* The other inputs.                                                       *)

HasLocalizationStatus == localization_age <= timeout_localization_status

LocalizationOk ==
  HasLocalizationStatus /\ localization_status_code < LOCALIZATION_ERROR

LocalizationStatusCallback(code) ==
  /\ localization_status_code' = code
  /\ localization_age' = 0
  /\ UNCHANGED <<heartbeatVars, joy_emergency_stop, mission_age, llVars,
                 system_status_msg, published, since_drop, mission_since_override, registryVars>>

\* processSafelocVelocity.
SafelocVelocity(max_vel_mps) ==
  IF HasLocalizationStatus /\ localization_status_code < LOCALIZATION_STOP
    THEN max_vel_mps ELSE velocity_zero

MissionCallback(code, max_vel_mps) ==
  /\ mission_age' = 0
  /\ system_status_msg' =
       [system_status_msg EXCEPT !.mission_status_code = code,
                                 !.max_velocity_mps = SafelocVelocity(max_vel_mps)]
  /\ mission_since_override' = TRUE
  /\ UNCHANGED <<heartbeatVars, joy_emergency_stop, localizationVars, llVars,
                 published, since_drop, registryVars>>

\* The low level is healthy when no failure flag is active.
LlDiagnosticReportCallback(flags) ==
  /\ is_ll_healthy' = (flags = {})
  /\ ll_age' = 0
  /\ UNCHANGED <<heartbeatVars, joy_emergency_stop, localizationVars, mission_age,
                 system_status_msg, published, since_drop, mission_since_override, registryVars>>

\* parametersCallback returns from inside its loop: only the first parameter
\* of the event is looked at.
ParametersCallback(params) ==
  /\ params # <<>>
  /\ system_status_msg' =
       IF Head(params).name = "lat_autonomy_enabled"
         THEN [system_status_msg EXCEPT
                 !.lateral_autonomy_enabled = Head(params).value]
         ELSE [system_status_msg EXCEPT
                 !.longitudinal_autonomy_enabled = Head(params).value]
  /\ UNCHANGED <<heartbeatVars, joy_emergency_stop, localizationVars, mission_age,
                 llVars, published, since_drop, mission_since_override, registryVars>>

-----------------------------------------------------------------------------
(* The 10 ms timer.                                                        *)

\* The low level as the timer finds it: a report that is too old clears it.
LlHealthy == is_ll_healthy /\ ll_age <= timeout_ll

\* Mutant: the timeout is one tick longer.
MissionIsStaleLate == mission_age > timeout_mission + 1

MissionIsStale == mission_age > timeout_mission

\* getSystemStatusCode on the given records.
SystemStatusCode(records, ll_healthy) ==
  IF ~ll_healthy
    THEN SYSTEM_LOW_LEVEL_ERROR
    ELSE CHOOSE worst \in NodeCodes :
           LET codes == {NODE_OK} \cup {records[i].code : i \in DOMAIN records}
           IN  worst \in codes /\ \A code \in codes : code <= worst

\* The mission override, written into the message that is kept.
Overridden(msg) ==
  [msg EXCEPT !.mission_status_code = EMERGENCY_STOP,
              !.max_velocity_mps    = velocity_zero]

\* systemStatusTimerCallback, in the order of the code: ages, health flags,
\* latched stop, status code, mission override, publication.
SystemStatusTimer ==
  LET override == MissionIsStale \/ ~LlHealthy
      checked  ==
        [system_status_msg EXCEPT
           !.communication_failure = ~(comms_heartbeat_ok /\ recovery_enabled),
           !.localization_failure  = ~LocalizationOk,
           !.commanded_stop        = @ \/ joy_emergency_stop,
           !.system_failure        = ~SystemHealthy(AgeChecked),
           !.system_status_code    = SystemStatusCode(AgeChecked, LlHealthy)]
  IN  /\ node_status_records' = AgeChecked
      /\ node_statuses_list' = AgeCheckedList
      /\ is_ll_healthy' = LlHealthy
      /\ system_status_msg' = IF override THEN Overridden(checked) ELSE checked
      /\ published' = system_status_msg'
      /\ mission_since_override' = (mission_since_override /\ ~override)
      /\ UNCHANGED <<heartbeatVars, joy_emergency_stop, localizationVars,
                     mission_age, ll_age, since_drop, subscribed, nodeSide,
                     topic, down_age>>

-----------------------------------------------------------------------------
NextAge(age, timeout) == IF age <= timeout THEN age + 1 ELSE age

\* One tick of the clock.  Callbacks and timers come in any order between
\* two ticks and any number of times, or not at all.
Tick ==
  /\ localization_age' = NextAge(localization_age, timeout_localization_status)
  /\ mission_age' = NextAge(mission_age, timeout_mission)
  /\ ll_age' = NextAge(ll_age, timeout_ll)
  /\ RegistryTick
  /\ UNCHANGED <<heartbeatVars, joy_emergency_stop, localization_status_code,
                 is_ll_healthy, system_status_msg, published, since_drop,
                 mission_since_override>>

SSMNext ==
  \/ CommsHeartbeatTimer
  \/ SystemStatusTimer
  \/ Recover
  \/ \E counter \in Counters, stop \in BOOLEAN : JoystickCallback(counter, stop)
  \/ \E code \in LocalizationCodes : LocalizationStatusCallback(code)
  \/ \E code \in Missions, vel \in Velocities : MissionCallback(code, vel)
  \/ \E flags \in LowLevelReports : LlDiagnosticReportCallback(flags)
  \/ \E params \in ParameterVectors : ParametersCallback(params)

\* A step of the nodes or of the registry they share with the SSM.
NodesNext == RegistryNext /\ UNCHANGED ssmVars

Next ==
  \/ SSMNext
  \/ Tick
  \/ NodesNext

Spec == Init /\ [][Next]_vars

\* The executor keeps serving the two timers, and time passes.
Fairness ==
  /\ WF_vars(CommsHeartbeatTimer)
  /\ WF_vars(SystemStatusTimer)
  /\ WF_vars(Tick)

FairSpec == Spec /\ Fairness

-----------------------------------------------------------------------------
(* Properties.                                                             *)

\* After commsHeartbeatOk has dropped the link, no SystemStatus says that the
\* communication is good until both a new joystick counter has been seen by
\* the heartbeat timer and the operator has called the recovery service, in
\* either order: the link coming back does not release the car by itself, and
\* neither does the operator while the link is dead.
NoSilentRecovery ==
  [][SystemStatusTimer /\ ~published'.communication_failure
       => since_drop = {"beat", "recovery"}]_vars

\* A mission that the timer has overridden (too old, or the low level was not
\* healthy) does not come back: a mission code other than EMERGENCY_STOP, or a
\* velocity, is published only if missionCallback ran after the last override.
MissionNotRevived ==
  [][SystemStatusTimer /\ ~mission_since_override
       => /\ published'.mission_status_code = EMERGENCY_STOP
          /\ published'.max_velocity_mps = velocity_zero]_vars

\* What the Mission Manager may rely on (MissionKeeper): missions, their age and
\* the localization come and go in any order with the low level and the timers,
\* and what is published is the last mission, when it is recent enough, or an
\* emergency stop that only a mission lifts.
MissionOf(msg) == [code |-> msg.mission_status_code, velocity |-> msg.max_velocity_mps]

Keeper == INSTANCE MissionKeeper WITH
  kept <- MissionOf(system_status_msg), kept_age <- mission_age,
  published <- MissionOf(published)

MissionKept == Keeper!KeeperSpec

\* nodeStatusUpdate finds records by the id in the message, and an id that was
\* never given out falls on the first record.  No other record is ever
\* overwritten by a message of a node that was not given its id.
RecordKeepsItsNode ==
  \A i \in DOMAIN node_status_records :
    i # 1 => node_status_records[i].node_id = i

\* When a SystemStatus goes out, the list of node codes that goes with it says
\* of every record what the registry knows, though registration, status
\* messages and ageing write the two separately and through an index.
PublishedListMatchesRecords ==
  [][SystemStatusTimer =>
       \A i \in DOMAIN node_status_records' :
         node_statuses_list'[i].code = node_status_records'[i].code]_vars

\* system_failure = false means that the process behind every record but the
\* first was running less than NODE_DEAD_TIMEOUT ago, however late its status
\* messages arrive and whoever registers under its name meanwhile.
HealthyMeansAlive ==
  [][SystemStatusTimer /\ ~published'.system_failure =>
       \A i \in DOMAIN node_status_records :
         i # 1 => down_age[i] < NodeDeadTimeout]_vars

\* An emergency stop of the joystick, be it in a single message between two
\* status timers, ends in a commanded_stop that is published for ever.
StopPulseNotLost == joy_emergency_stop ~> []published.commanded_stop

\* If the counter stops changing for good, the communication failure is
\* published for good, however often the operator calls the recovery service.
LinkLossReported ==
  <>[](counter_joy = counter_joy_prev) => <>[]published.communication_failure

\* A registered process that is down for good is published as a system failure
\* for good, whatever the other nodes do (again for all but the first record).
CrashedNodeReported ==
  \A i \in 2 .. MaxRecords :
    <>[](i \in DOMAIN node_status_records /\ down_age[i] = NodeDeadTimeout)
      => <>[]published.system_failure
=============================================================================
