------------------------- MODULE ControlSafetyLayer -------------------------
(***************************************************************************)
(* ControlSafetyLayerNode: the last node before the vehicle interface.     *)
(* Every 10 ms run() publishes the commands the car follows: those of the  *)
(* autonomous controllers, those of the joystick (the override), or its    *)
(* own, which stop the car, when anything is wrong.  It is a single        *)
(* threaded node: every callback is one action, and so is one run().       *)
(*                                                                         *)
(* A message is kept for what the decisions tell apart: a steering angle   *)
(* of the override is a level, compared with a threshold; a braking        *)
(* override is above its dead band or not; a wall is close or not.         *)
(* counter_hb, which is published and not read here, and the time of the   *)
(* ego odometry, which is not compared with its timeout, are left out.     *)
(***************************************************************************)
EXTENDS Integers, ControlBuffer

CONSTANTS
  Orders,           \* ControlCommand.order
  CommandAges,      \* age of a command when it arrives; negative: the future
  Period,           \* getGclockPeriodDuration
  MaxCommands,      \* bound on the commands that arrive between two runs
  buffer_empty_counter_threshold,
  Statuses,         \* SystemStatus messages that may arrive
  StatusTimeout,    \* the 1 s of hasSystemStatus
  PerceptionTimeout,\* the 1 s a perception steering command is good for
  SteeringLevels,   \* absolute steering angles of the override
  Thresholds        \* values of steering_auto_override_deg

\* What run() reads of a SystemStatus.  wall_mission: the mission is one of
\* the five that care for the distance to the wall.
SystemStatus ==
  [communication_failure : BOOLEAN, localization_failure : BOOLEAN,
   commanded_stop : BOOLEAN, emergency_mode_enabled : BOOLEAN,
   lateral_autonomy_enabled : BOOLEAN, longitudinal_autonomy_enabled : BOOLEAN,
   wall_mission : BOOLEAN]

ASSUME CSLAssumption ==
  /\ Orders \subseteq Nat
  /\ CommandAges \subseteq Int
  /\ Period \in Nat \ {0}
  /\ MaxCommands \in Nat
  /\ buffer_empty_counter_threshold \in Nat \ {0}
  /\ Statuses \subseteq SystemStatus
  /\ StatusTimeout \in Nat
  /\ PerceptionTimeout \in Nat \ {0}
  /\ SteeringLevels \subseteq Nat
  /\ Thresholds \subseteq Nat /\ Thresholds # {}

VARIABLES
  control_buffer,        \* the heap of commands
  emergency_lane_enabled,
  emergency_buffer_empty,
  emergency_manual,
  lat_autonomy_enabled,
  long_autonomy_enabled,
  buffer_empty_counter,
  system_status,         \* the last SystemStatus received
  status_age,
  override_control_cmd,  \* the last override: [steering, braking]
  steering_auto_override_deg,
  perception_age,        \* of the last perception steering command
  wall_close,            \* 0 < wall_distance_outer < the threshold
  node_status,
  out,                   \* what the last run published on each of its topics
  arrivals,              \* history: commands that arrived since the last run
  starved,               \* history: the buffer ran dry, and no run has since
                         \* found both autonomy flags off
  lat_before,            \* history: lateral autonomy in the last status but one
  caught                 \* history: the last run ended in an exception

latches    == <<emergency_lane_enabled, emergency_buffer_empty, emergency_manual>>
autonomy   == <<lat_autonomy_enabled, long_autonomy_enabled>>
statusVars == <<system_status, status_age, lat_before>>
bufferVars == <<control_buffer, arrivals>>
inputVars  == <<override_control_cmd, steering_auto_override_deg, perception_age,
                wall_close>>
runVars    == <<buffer_empty_counter, node_status, out, starved, caught>>
vars == <<latches, autonomy, statusVars, bufferVars, inputVars, runVars>>

\* What run() publishes: three topics of pedals, or of an acceleration, and one
\* of steering.
Topics == {"steering", "desired_accel", "braking", "accelerator"}

Commands  == [order : Orders, id : 1 .. MaxCommands, age : CommandAges]
NoCommand == [order |-> 0, id |-> 0, age |-> 0]

\* Where a published value comes from, and the command when it is one.
From(source)     == [source |-> source, cmd |-> NoCommand]
FromCommand(cmd) == [source |-> "command", cmd |-> cmd]
Values ==
  {From(s) : s \in {"none", "zero", "override", "perception", "emergency"}}
    \cup {FromCommand(cmd) : cmd \in Commands}

TypeOK ==
  /\ control_buffer \in Seq(Commands) /\ arrivals \in Seq(Commands)
  /\ Len(control_buffer) = Len(arrivals)
  /\ emergency_lane_enabled \in BOOLEAN
  /\ emergency_buffer_empty \in BOOLEAN
  /\ emergency_manual \in BOOLEAN
  /\ lat_autonomy_enabled \in BOOLEAN
  /\ long_autonomy_enabled \in BOOLEAN
  /\ buffer_empty_counter \in 0 .. buffer_empty_counter_threshold
  /\ system_status \in SystemStatus
  /\ status_age \in 0 .. StatusTimeout + 1
  /\ override_control_cmd \in [steering : SteeringLevels \cup {0}, braking : BOOLEAN]
  /\ steering_auto_override_deg \in Thresholds
  /\ perception_age \in 0 .. PerceptionTimeout
  /\ wall_close \in BOOLEAN
  /\ node_status \in {"OK", "ERROR", "FATAL_ERROR"}
  /\ out \in [steering : Values, desired_accel : Values,
              braking : Values, accelerator : Values]
  /\ starved \in BOOLEAN /\ lat_before \in BOOLEAN /\ caught \in BOOLEAN

\* Of a run that publishes nothing.
Nothing ==
  [steering |-> From("none"), desired_accel |-> From("none"),
   braking |-> From("none"), accelerator |-> From("none")]

\* A default message: every field is false.
NoStatus ==
  [communication_failure |-> FALSE, localization_failure |-> FALSE,
   commanded_stop |-> FALSE, emergency_mode_enabled |-> FALSE,
   lateral_autonomy_enabled |-> FALSE, longitudinal_autonomy_enabled |-> FALSE,
   wall_mission |-> FALSE]

\* The two autonomy flags are not initialized: they may be anything.
Init ==
  /\ control_buffer = <<>> /\ arrivals = <<>>
  /\ emergency_lane_enabled = FALSE
  /\ emergency_buffer_empty = FALSE
  /\ emergency_manual = FALSE
  /\ lat_autonomy_enabled \in BOOLEAN
  /\ long_autonomy_enabled \in BOOLEAN
  /\ buffer_empty_counter = 0
  /\ system_status = NoStatus
  /\ status_age = StatusTimeout + 1
  /\ override_control_cmd = [steering |-> 0, braking |-> FALSE]
  /\ steering_auto_override_deg \in Thresholds
  /\ perception_age = PerceptionTimeout
  /\ wall_close = FALSE
  /\ node_status = "OK"
  /\ out = Nothing
  /\ starved = FALSE
  /\ lat_before = FALSE
  /\ caught = FALSE

-----------------------------------------------------------------------------
(* The subscriptions.                                                      *)

\* controlCallback and bufferStore: only the age is looked at.
ControlCallback(order, age) ==
  LET cmd == [order |-> order, id |-> Len(arrivals) + 1, age |-> age] IN
    /\ age < Period
    /\ Len(arrivals) < MaxCommands
    /\ control_buffer' = Push(control_buffer, cmd)
    /\ arrivals' = Append(arrivals, cmd)
    /\ UNCHANGED <<latches, autonomy, statusVars, inputVars, runVars>>

\* Mutant: a lost localization is left to the emergency lane of the planner.
LaneEmergencyNoLocalization(status) ==
  \/ status.communication_failure
  \/ status.commanded_stop
  \/ status.emergency_mode_enabled

\* What a status asks for, with the lateral autonomy as the node knows it.
LaneEmergency(status) ==
  \/ status.communication_failure
  \/ lat_autonomy_enabled /\ status.localization_failure
  \/ status.commanded_stop
  \/ status.emergency_mode_enabled

\* systemStatusCallback and afterSystemStatusCallback: the emergency lane is
\* decided before the autonomy flags are updated.
SystemStatusCallback(status) ==
  /\ system_status' = status
  /\ status_age' = 0
  /\ emergency_lane_enabled' = LaneEmergency(status)
  /\ lat_autonomy_enabled' = status.lateral_autonomy_enabled
  /\ long_autonomy_enabled' = status.longitudinal_autonomy_enabled
  /\ lat_before' = system_status.lateral_autonomy_enabled
  /\ UNCHANGED <<emergency_buffer_empty, emergency_manual, bufferVars, inputVars,
                 runVars>>

ControlOverrideCallback(steering, braking) ==
  /\ override_control_cmd' = [steering |-> steering, braking |-> braking]
  /\ emergency_manual' = braking
  /\ UNCHANGED <<emergency_lane_enabled, emergency_buffer_empty, autonomy,
                 statusVars, bufferVars, steering_auto_override_deg,
                 perception_age, wall_close, runVars>>

PerceptionSteeringCallback ==
  /\ perception_age' = 0
  /\ UNCHANGED <<latches, autonomy, statusVars, bufferVars, override_control_cmd,
                 steering_auto_override_deg, wall_close, runVars>>

WallDistanceOuterCallback(close) ==
  /\ wall_close' = close
  /\ UNCHANGED <<latches, autonomy, statusVars, bufferVars, override_control_cmd,
                 steering_auto_override_deg, perception_age, runVars>>

\* parametersCallback; of its parameters only this one is read again.
ParametersCallback(deg) ==
  /\ steering_auto_override_deg' = deg
  /\ UNCHANGED <<latches, autonomy, statusVars, bufferVars, override_control_cmd,
                 perception_age, wall_close, runVars>>

-----------------------------------------------------------------------------
(* run().                                                                  *)

\* Mutant: a status is good for ever.
HasSystemStatusOnce == system_status # NoStatus

HasSystemStatus == status_age <= StatusTimeout

HasPerception == perception_age < PerceptionTimeout

EmergencyWallDistance == wall_close /\ system_status.wall_mission

OverridesSteering == override_control_cmd.steering > steering_auto_override_deg

InEmergency ==
  \/ emergency_lane_enabled
  \/ emergency_buffer_empty
  \/ emergency_manual
  \/ ~HasSystemStatus

ManualMode == ~lat_autonomy_enabled /\ ~long_autonomy_enabled

\* Mutant: the joystick steers in an emergency, link or no link.
JoystickMaySteerAlways == OverridesSteering

\* In an emergency the override steers only while the link is not known broken.
JoystickMaySteer ==
  ~system_status.communication_failure /\ OverridesSteering

\* The steering of an emergency, by order of preference.
EmergencySteering ==
  CASE JoystickMaySteer -> From("override")
    [] ~JoystickMaySteer /\ EmergencyWallDistance /\ HasPerception ->
         From("perception")
    [] /\ ~JoystickMaySteer /\ ~(EmergencyWallDistance /\ HasPerception)
       /\ ~emergency_buffer_empty /\ control_buffer # <<>>
       /\ ~system_status.localization_failure ->
         FromCommand(Top(control_buffer))
    [] OTHER -> IF HasPerception THEN From("perception") ELSE From("zero")

\* bufferFlush.
Flushed == <<>>

\* Mutant: the starved buffer is forgotten when a command is there again.
StillStarvedNoCommand == emergency_buffer_empty /\ control_buffer = <<>>

\* The recovery: both autonomy flags are off.
StillStarved == emergency_buffer_empty /\ ~ManualMode

EmergencyNodeStatus ==
  IF emergency_buffer_empty \/ ~HasSystemStatus THEN "ERROR" ELSE "OK"

\* Stop the car.
RunEmergency ==
  /\ InEmergency
  /\ out' = [Nothing EXCEPT !.braking = From("emergency"),
                            !.accelerator = From("zero"),
                            !.steering = EmergencySteering]
  /\ node_status' = EmergencyNodeStatus
  /\ control_buffer' = Flushed
  /\ emergency_buffer_empty' = StillStarved
  /\ starved' = (starved /\ ~ManualMode)
  /\ caught' = FALSE
  /\ UNCHANGED <<emergency_lane_enabled, buffer_empty_counter>>

\* Mutant: a run without a command starts the count again.
NextEmptyRestarts == 1

\* buffer_empty_counter++; it stops at its threshold.
NextEmpty ==
  IF buffer_empty_counter < buffer_empty_counter_threshold
    THEN buffer_empty_counter + 1 ELSE buffer_empty_counter

\* Autonomy without a command: nothing is published, and the node status stays
\* until too many runs in a row found the buffer empty.
RunStarved ==
  /\ ~InEmergency /\ ~ManualMode
  /\ control_buffer = <<>>
  /\ buffer_empty_counter' = NextEmpty
  /\ \/ /\ buffer_empty_counter' >= buffer_empty_counter_threshold
        /\ emergency_buffer_empty' = TRUE
        /\ starved' = TRUE
        /\ node_status' = "ERROR"
     \/ /\ buffer_empty_counter' < buffer_empty_counter_threshold
        /\ UNCHANGED <<emergency_buffer_empty, starved, node_status>>
  /\ out' = Nothing
  /\ caught' = FALSE
  /\ UNCHANGED <<control_buffer, emergency_lane_enabled>>

\* What the other runs mean to publish.
NominalSteering ==
  CASE ~lat_autonomy_enabled \/ OverridesSteering -> From("override")
    [] lat_autonomy_enabled /\ ~OverridesSteering ->
         IF EmergencyWallDistance /\ HasPerception
           THEN From("perception") ELSE FromCommand(Top(control_buffer))

WithSteering == [Nothing EXCEPT !.steering = NominalSteering]

WithBrake ==
  IF long_autonomy_enabled THEN WithSteering
  ELSE [WithSteering EXCEPT !.braking = From("override")]

\* Mutant: the joystick's throttle is always allowed.
WithPedalsBoth ==
  IF long_autonomy_enabled
    THEN [WithSteering EXCEPT !.desired_accel = FromCommand(Top(control_buffer)),
                              !.accelerator = From("override")]
    ELSE [WithBrake EXCEPT !.accelerator = From("override")]

\* The pedals, or the acceleration that the acceleration controller follows.
WithPedals ==
  IF long_autonomy_enabled
    THEN [WithSteering EXCEPT !.desired_accel = FromCommand(Top(control_buffer))]
    ELSE [WithBrake EXCEPT !.accelerator = From("override")]

\* The state a run without an emergency leaves, published or not.
NominalState ==
  /\ ~InEmergency
  /\ ManualMode \/ control_buffer # <<>>
  /\ buffer_empty_counter' = IF ManualMode THEN buffer_empty_counter ELSE 0
  /\ emergency_buffer_empty' = (emergency_buffer_empty /\ ~ManualMode)
  /\ starved' = (starved /\ ~ManualMode)
  /\ control_buffer' = Flushed

RunNominal ==
  /\ NominalState
  /\ out' = WithPedals
  /\ node_status' = "OK"
  /\ caught' = FALSE
  /\ UNCHANGED emergency_lane_enabled

\* A publication throws: what was sent before it is out, and the catch block
\* sets the emergency lane for the next run.
RunCaught ==
  /\ NominalState
  /\ out' \in {Nothing, WithSteering, WithBrake, WithPedals}
  /\ node_status' = "FATAL_ERROR"
  /\ emergency_lane_enabled' = TRUE
  /\ caught' = TRUE

Run ==
  /\ RunEmergency \/ RunStarved \/ RunNominal \/ RunCaught
  /\ arrivals' = <<>>
  /\ UNCHANGED <<emergency_manual, autonomy, statusVars, inputVars>>

-----------------------------------------------------------------------------
\* One tick of the clock.
Tick ==
  /\ status_age' = IF status_age <= StatusTimeout THEN status_age + 1 ELSE status_age
  /\ perception_age' = IF HasPerception THEN perception_age + 1 ELSE perception_age
  /\ UNCHANGED <<latches, autonomy, system_status, lat_before, bufferVars,
                 override_control_cmd, steering_auto_override_deg, wall_close,
                 runVars>>

Next ==
  \/ Run
  \/ Tick
  \/ PerceptionSteeringCallback
  \/ \E order \in Orders, age \in CommandAges : ControlCallback(order, age)
  \/ \E status \in Statuses : SystemStatusCallback(status)
  \/ \E steering \in SteeringLevels, braking \in BOOLEAN :
       ControlOverrideCallback(steering, braking)
  \/ \E close \in BOOLEAN : WallDistanceOuterCallback(close)
  \/ \E deg \in Thresholds : ParametersCallback(deg)

Spec == Init /\ [][Next]_vars

\* The executor keeps serving the timer of run(), and time passes.
FairSpec == Spec /\ WF_vars(Run) /\ WF_vars(Tick)

-----------------------------------------------------------------------------
(* Properties.                                                             *)

\* "it must store only the controls relative to a time quantum": a command
\* that steers or accelerates the car is the last one, of the highest order,
\* of those that arrived since the run before, whichever branch that run took,
\* and it was not older than a period when it arrived.
BestCommandUsed ==
  [][Run => \A topic \in {"steering", "desired_accel"} :
       out'[topic].source = "command" =>
         /\ arrivals # <<>>
         /\ out'[topic].cmd = BestOf(arrivals)
         /\ out'[topic].cmd.age < Period]_vars

\* Once the controllers have left the buffer empty for too long, the car does
\* not accelerate or steer on their commands again, however many of them arrive
\* and whatever SystemStatus says, before a run has found both autonomy flags
\* off.
StarvationLatched ==
  [][Run /\ starved => \A topic \in Topics : out'[topic].source # "command"]_vars

\* The SSM hears of it for as long as it lasts: run() does not set its own
\* status back to OK while the buffer is held to be starved.
StarvationReported == emergency_buffer_empty => node_status = "ERROR"

\* The joystick's last command, which nobody ages, is not followed (steering or
\* pedals) once a status has reported that the link to the joystick is lost.
OverrideNeedsLink ==
  [][Run /\ system_status.communication_failure =>
       \A topic \in Topics : out'[topic].source # "override"]_vars

\* With a lost localization the controllers do not steer the car, except
\* between the first status that enables the lateral autonomy and the second.
LocalizationLossHonoured ==
  [][Run /\ system_status.localization_failure /\ lat_before =>
       out'.steering.source # "command"]_vars

\* "Proceed in emergency mode from the next iteration", after an exception.
ExceptionStops == [][Run /\ caught => RunEmergency]_vars

\* If the controllers stop sending while an autonomy flag stays on, the car is
\* braked for good, with no throttle, however the statuses and overrides come.
StarvedCarBrakes ==
  <>[](control_buffer = <<>> /\ ~ManualMode)
    => <>[](out.braking.source = "emergency" /\ out.accelerator.source = "zero")

\* If the SSM falls silent for good, the car is braked for good.
SilentSystemBrakes ==
  <>[](status_age > StatusTimeout)
    => <>[](out.braking.source = "emergency" /\ out.accelerator.source = "zero")

\* The safety layer's part in the pedals, as PedalSource promises it: never a
\* desired acceleration with a pedal, brake and accelerator together unless an
\* exception came between, and no more silent runs than the threshold before
\* the car is stopped.
Mover ==
  [none |-> "none", emergency |-> "stop", zero |-> "stop", override |-> "joystick"]

Source == INSTANCE PedalSource WITH
  Accels <- Commands, NoAccel <- NoCommand,
  MaxHunger <- buffer_empty_counter_threshold,
  said <- [brake |-> Mover[out.braking.source],
           accelerator |-> Mover[out.accelerator.source],
           desired_accel |-> out.desired_accel.cmd],
  hunger <- buffer_empty_counter,
  locked <- emergency_buffer_empty

PedalsKept == Source!SourceSpec
=============================================================================
