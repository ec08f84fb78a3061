# Verification of the NIF autonomous racing stack

This directory holds TLA+ models of the parts of this repository that decide
whether the car may move, the TLC configurations that check them on small
instances, and TLAPS proofs of their safety properties for every value of the
constants. Paths below are relative to the root of the repository; the packages
are in `src/` of it.

## The system

The stack is a set of ROS 2 nodes on one computer of an Indy Autonomous Challenge
car. Each node runs on a single threaded executor: its subscriptions, timers and
services are callbacks that never overlap, and one callback is one atomic step of
the models. Between nodes there are topics (the subscriber sees messages late, or
only the newest) and a few services (asynchronous requests and responses). Every
node may die and be started again by the launch system or by the operator.

The nodes that the deployed launch (`src/tools/nif_launch/launch/deploy`) starts,
and the way a decision takes through them:

    race control flags -> MissionManager -> mission -> SystemStatusManager
    joystick, low level reports, localization ------->        |
    status of every node ---------------------------->        | SystemStatus, 100 Hz
                                                              v
    receivers -> localization -> odometry to all nodes
    dynamic planner -> trajectory -> velocity planner -> joint LQR
                            |                               | ControlCommand
                            |                               v
                            |                        ControlSafetyLayer -> steering
                            |                          |        |      -> brake, throttle
                            v                          |        v (no emergency)
                  adaptive cruise control     joystick override  desired acceleration
                            |                                   v
                            +--- limit ----------------> AccelControl -> throttle, brake, gear
                                                                v
                                            SSC interface <-> Raptor CAN node <-> the car

### Inventory

| Component | State it keeps | Operations | Interacts through | What is hard | What makes it correct |
|---|---|---|---|---|---|
| System Status Manager (SSM) | heartbeat counters and latches, localization, low level and mission ages, the message it edits in place, the node registry | 10 ms status timer, 33 ms heartbeat timer, joystick, mission, localization, low level and parameter callbacks, registration and recovery services | SystemStatus to every node, status topic of every node | latches in several orders, timeouts, crashes and re-registration, asynchronous ids | a lost link is released only by the operator; an overridden mission stays; a dead node is reported; stops are not lost |
| IBaseNode and NodeStatusManager | node id, own status, last SystemStatus and its age, odometry | constructor, registration response, status timer, system status callback | the registration service, a status topic of its own | id known only after the response | statuses carry the id of their sender |
| Control Safety Layer (CSL) | heap of commands, three emergency flags, autonomy flags, count of empty runs, last override, wall distance, perception steering | 10 ms `run()`, seven subscriptions | ControlCommand in, pedals and steering out, own status to the SSM | emergencies raised and cleared by different callbacks, starvation, recovery, exceptions | commands of this time quantum only, starvation latched, no joystick without link, no controllers without localization, the car ends braked |
| Emergency braking (in the CSL's header) | initial time and velocity of the profile, brake | called by `run()` | wheel speed, which may be missing | initial time is never reset, blind and profiled runs in one emergency | the brake is not eased while the wheels do not slow down; each emergency has its braking time |
| AccelControl | desired acceleration, cruise limit, pedals, gear, shift counter | one callback per input, 10 ms gear timer | pedal topics, which the CSL writes too | two writers, timeout checked in the callback that has stopped | a throttle does not outlive its inputs, neither writer undoes the other, no hunting about in the gears |
| Mission Manager | last flags, zones, startup and warm-up flags, mission message | 10 ms `run()`, flag, odometry and velocity callbacks, three services | reads its own mission back from SystemStatus | feedback through the SSM, which may have overridden the mission | red flags and silence end in a standing car, the startup ends, an emergency stop is left only along the table |
| Joint LQR (an IControllerNode) | last trajectory and its age, desired velocity | timer, subscriptions | trajectory in, ControlCommand out | the velocity has no age, the length of the path comes on another topic | no command from an old trajectory, a stopping mission is obeyed |
| Adaptive cruise control | none that lasts | answers each trajectory | limit to AccelControl | the limit and the trajectory have timeouts in different nodes | no driving on a trajectory without the limit made of it |
| Velocity planner | mission velocity, path and its age, last velocity | timer, subscriptions | SystemStatus and path in, velocity out | one step a run towards a target that moves | a stop arrives |
| Dynamic planner | trajectory and its line, line waited for, planning types, overtaking state | 20 ms timer, mission, prediction | mission from SystemStatus, trajectory out | changes of mission and failed generations between two lines | the line that is named is the line that is driven; the car comes back to the racing line |
| AW localization | receivers' states and ages, filter | 10 ms timer, callbacks of two GNSS receivers, IMU, wheel speed | odometry, LocalizationStatus | a receiver that dies keeps its flags; a correction that no branch assigns | a filter that has converged is fed with positions |
| SSC interface | state of the enabling, flags of race control, state of the car | mode requests, reports, commands | topics of the Raptor CAN node | the flags come on two topics; a request to enable waits for two kinds of commands | a request is answered; a race only after its flags |
| Raptor CAN node | enable, overrides and faults | CAN frames, requests, timer | CAN bus | several changes in one frame | what is published is true; what a fault turned off stays off until asked |
| Waypoint managers, other planners and controllers | maps, paths, opponents | timers, callbacks | paths and velocity profiles | numeric, or not deployed | not decidable here |
| Lidar, radar, tracking | point clouds, tracks | callbacks | perception topics | numeric | not decidable here |
| Other drivers, vendored libraries, launch, simulation | | | | | inputs of the models |

`PROJECT.json` lists the same parts with their files and how far each is modelled,
and, under `hazards`, what is hard to test in this code, at its line, with the
properties aimed at it.

## Plan

The order was: the SSM with its registry, the CSL, the Mission Manager with `MissionLoop`, its
composition with the SSM; the brake of an emergency, AccelControl and the two compositions of it
with the CSL (`AccelLoop`, `PedalChain`, on the promise `PedalSource`); the drivers between the
topics and the car; localization, planner and the two chains from the planner to AccelControl.
All of this is done. The composition of the SSM and the CSL in one model was given up for a
chain of promises: the CSL is checked against every status the SSM could send, and implements
`PedalSource`; what follows it is checked against `PedalSource` alone.

Then the proofs, by component and in the same order, and last those of `MissionLoop` and of the types
and pedals of `Vehicle`. Every invariant and every action property of the passing runs is a theorem now.

What is left: further safety halves of the liveness properties, and the liveness properties of one machine
for larger constants. What no plan reaches is under "What is not modelled".

## The modules

### `NodeRegistry` and `SystemStatusManager`

`NodeRegistry` has the two sides of the registration. A node (`NodeStart`,
`ReceiveResponse`, `SetNodeStatus`, `NodeStatusTimer`, `NodeCrash`) is IBaseNode with
its NodeStatusManager; the SSM's side (`RegisterNode`, `NodeStatusUpdate`, the
operators of the age check) is `registerNodeServiceHandler`, `newStatusRecord`,
`nodeStatusUpdate`, `nodeStatusesAgeCheck` and `isSystemHealthy`. The requests, the response and the newest status of each node are variables of their own, so that they
are delayed for as long as it takes. A response is lost with the process it was for; a request is not, and
may be handled after the process died and another one was started under its name (`Senders`).
`status_index_by_id` is an operator: ids are given in order, so that the index of an
id that was given is the id itself, and any other id is answered with the first index,
as `operator[]` of the map does.

`SystemStatusManager` EXTENDS it with the rest of the node. One action is one callback:
`JoystickCallback`, `CommsHeartbeatTimer` (the two branches of `commsHeartbeatOk`),
`Recover`, `LocalizationStatusCallback`, `MissionCallback`,
`LlDiagnosticReportCallback`, `ParametersCallback`, `SystemStatusTimer`. The message the
code edits in place is `system_status_msg`, what was last sent is `published`.

Abstractions: ages are ticks of one clock and stop one above their timeout, which also
stands for "never received". Node codes are folded to the four that are told apart.
Velocities and missions are members of small sets, velocity_zero is 0. A DiagnosticReport
is its set of failure flags. History variables (`since_drop`, `mission_since_override`,
`down_age`) are read by properties only.

### `ControlBuffer` and `ControlSafetyLayer`

`ControlBuffer` is the `std::priority_queue` of commands: an array heap in which a pushed
command rises over the ancestors that precede it, with the `<=` of
`ControlCommandCompare`. It is only pushed to, read at its top and emptied, so that
`pop` is not needed. Which ancestors a
command passes is written as a set, the path up to the first that does not precede it, so
that nothing has to recur. `ControlSafetyLayer` has one action for each subscription and one,
`Run`, for `run()`, which splits as the code does: an emergency (`RunEmergency`), an
empty buffer under autonomy (`RunStarved`), the normal end (`RunNominal`) and the catch
block (`RunCaught`), in which any of the publications may have been the one that threw.
`out` is what the run published on each topic and where the value came from: the command
of a controller, the override, the perception, the emergency brake, or zero.

Abstractions: a SystemStatus is the six flags `run()` reads and whether the mission is
one of the five that watch the wall. The override is a steering level, compared with a
threshold, and whether its brake is over the dead band. The autonomy flags, which the
class does not initialize, start with any value. The heartbeat counter that is only
published, and `control_pub`, which repeats what the other topics carry, are left out.

### `MissionKeeper`, `MissionManager` and `MissionLoop`

`MissionKeeper` is what the SSM promises about missions, and no more: it keeps the last one
it received, with its velocity or none, ages it, and hands it on or writes an emergency stop
over it, which it has to do when the mission is too old and may do at any time. It is
abstract: `SystemStatusManager` implements it under the mapping `Keeper` (the mission fields
of the message it edits, `mission_age`, the mission fields of what it published), and
`MissionKept` says so.

`MissionManager` is `MissionManagerNode`. `Run` is its 50 ms timer: the flags and the last
SystemStatus choose the next mission (`MissionStatusCode`, `MissionVehFlagBlack`,
`MissionVehFlagNull`), the table of transitions accepts it or one of its fallbacks
(`Validated`), `EndsStartup` is the side effect in between. The recursion of
`validateMissionTransition` is a set, `FallbackChain`, of which the first accepted member is
taken; `NoFallbackLoop` assumes what the comment in the table asks for, that no fallback
closes a loop, and TLC checks it of the deployed table; `ValidatedAsInCode` proves that the
set and its first accepted member are what the recursion computes. `RCFlagSummaryCallback`,
`VelocityCallback`, `EgoOdometryCallback`, `SystemStatusCallback` and the three services are
the other callbacks; `Restart` is a new process, with a new subscription (`ManagerRestarts`).

`MissionLoop` composes the two: `Deliver` takes the mission to the SSM, where the newest one
on its way replaces an older one; `PublishStatus` is the SSM's timer, `TakeStatus` the manager's
callback, and in between are up to `StatusDepth` SystemStatuses of which the oldest makes way for the newest. Up to four
missions may thus differ: the one the manager chose last, the one on its way to the SSM, the one the
SSM keeps and the one that comes back.

Abstractions: vehicle and track flags that are treated alike are one value. The car's
position is the set of missions whose activation area it is in, its speed a level, velocities
are zero or not. The table is an operator of `MCMissionLoop`, translated from
`config/transitions.lvms.yaml`; the areas that matter together (the pit boxes lie in the area
of PIT_INIT) are members of `Places`. The zone of the track, which is only published, and the
automatic switches, which the deployed launch turns off, are left out.

### `PedalSource`, `AccelControl`, `AccelLoop` and `PedalChain`

`PedalSource` is the promise of the CSL to whoever moves the pedals, and no more: each run stops
the car, hands the pedals to AccelControl or to the joystick, or says nothing, which it does at
most `MaxHunger` times before it stops the car. `ControlSafetyLayer` implements it under the
mapping `Source` (`PedalsKept`): what a run published on the three topics, and
the count of its empty runs. A run that is cut short by an exception may say part of it; how many of
those follow each other is not bounded, by the code or by the promise.

`AccelControl` has one action for each subscription of `accel_control_node`; everything is
computed in the one of the desired acceleration. `AccelLoop` composes it with `PedalSource` in
ticks, in each of which the CSL runs once: it says how long a throttle can outlive what it was
computed from. Each desired acceleration is answered in its tick: one that the best-effort topic loses
is not in `AccelLoop`, and the throttle it leaves open for a tick more is not in its bound. `PedalChain` composes the same two nodes with the SSC interface at a finer grain:
each publication is a step of its own, a topic keeps its newest `Depth` messages, and the desired
acceleration may be lost. `GearShift` is the 10 ms timer of the same node, with its own reports.

Abstractions: a pedal is written as the acceleration it is for, in 1/100 m/s2; tires, slip and the
lateral error, which nothing bounds, are open in each step.

### `EmergencyBraking`

`emergencyVelocityError`, `emergencyBrakeCmd` and `emergencyDesVelProfiler`: `BlindRun` without a
wheel speed of the last half second, `ProfiledRun` with one, `NominalRun` in between. The profile
begins once and for good, as in the code, and `Stamp` has the nanoseconds counted twice. `SafeDesVel` cuts off
what is not above 1.5 m/s, as the code does (`control_safety_layer_node.h:661`), though the comment before it
says "Saturation (safe_des_vel >= 1.0)". Three history variables are read by properties only: `seen` and `measured`
are the wheel speed and the brake of the last run of this emergency that had a wheel speed, which blind runs leave
as they are, and `due` is what is left of the time it may take. Speeds are
in m/s, the brake is the error of the velocity that asks for it, a tick is 1/4 s. The PID is
left out: its gains make it a multiple of the error.

### `DbwStateMachine`, `RaptorDbw` and `RaceFlags`

`DbwStateMachine` is the class of that name in the SSC interface: requests, reports and the two
kinds of commands in every order. A state command that arrives is kept (`StateCommandCallback`) and handed on
with the next control command (`OnCommandMessage`), to a `SendStateCommand` of which nothing but a comment is left. `RaptorDbw` is the enabling in the CAN node: a frame may set
several faults and overrides, each of which may publish, so that a step passes a record (`Now`,
`Raised`, `Published`) along before it is stored (`Become`). `RaceFlags` composes the CAN node, which
publishes each summary of race control twice, with the SSC interface, whose two callbacks
overwrite each other, and with the state of the car (`ct_mode_transition`), which each
miscellaneous report moves.

### `DynamicPlanner`

`timer_callback_rule` by mission, on the trajectory that is planned, a record of its line, the
name it is published under (`alias`) and the line that is waited for (`reset_line`). Geometry is
open in each run: whether a segment can be generated, whether the end of the last one is passed,
whether a trajectory collides.

### `Localization`

The callbacks of the two receivers and of the IMU, and the 10 ms timer: `BestCorrection` chooses
between the positions, `Decided` takes noise into account, `Converges` and `Corrected` are the
filter as far as control goes. What a correction is made of is `corrected`, which may be `"unset"`: in two
branches the code assigns nothing. How far positions are apart is open in each run.

### `CruiseChain` and `SpeedChain`

`CruiseChain` follows one trajectory of the planner to the joint LQR, which asks for an acceleration,
and to the adaptive cruise control, which limits it; they meet in AccelControl. Each topic
has a message with an age, at most `MaxDelay`; a trajectory may be lost to either reader. `SpeedChain`
follows the velocity of the mission through the velocity planner to the LQR.

### `Vehicle`

`GearShift`, `EmergencyBraking`, `PedalChain`, the three drivers, `DynamicPlanner`, `Localization`,
`CruiseChain` and `SpeedChain` share no state. `Vehicle` is their disjoint union, so that one
run checks all of them: a behaviour chooses one, its `focus`, and only that one moves. It adds nothing to
what they say about the code; fairness and properties are those of the machines, for the behaviours
that are theirs.

## What is checked

| Run | What it explores | Shows |
|---|---|---|
| `ssm` | inputs: 2 counters, drop after 3 timers, joystick, recovery, a mission, localization, healthy and failing low level reports, timeouts of 0 and 1 ticks; or nodes: 2 of them, 2 registrations, crashes; fair timers and clock | `NoSilentRecovery`, `StopPulseNotLost`, `LinkLossReported`, `MissionKept`; `RecordKeepsItsNode`, `HealthyMeansAlive`, `CrashedNodeReported`, `PublishedListMatchesRecords` |
| `csl` | commands: 3 of 2 orders between two runs, 3 statuses; or emergencies: 11 statuses, overrides on both sides of two thresholds, one command at a time; exceptions, walls, perception, starvation after 3 runs, fair `run()` and clock | `BestCommandUsed`, `StarvedCarBrakes`, `SilentSystemBrakes`; `StarvationLatched`, `OverrideNeedsLink`, `LocalizationLossHonoured`, `PedalsKept` |
| `mission_flags` | red, orange and green flags, a car that stands in its pit box, restarts, the recovery service, inputs that fall silent, fair timers, topics and clock | `RedFlagStops`, `InputLossStops`, `StartupCompletes`, `TypeOK` |
| `mission_drive` | 3 pairs of a vehicle and a track flag, 4 places, either switch, inputs in time, late statuses | `SettledEmergencyStopHolds` |
| `accel` | an acceleration and a brake asked for, inputs that fall silent in any order, a CSL that may be silent once | `DeadMansThrottle`, `CruiseCloses` |
| `vehicle` | each of the ten machines of `Vehicle` in all its behaviours | see below, `TypeOK` |

The properties of `vehicle`, by machine:

| Machine | Properties |
|---|---|
| pedals | `PedalsNotFought`: the publications of two nodes never mix to a braked car with an open throttle for good; `LastWordReachesCar`: the node in charge wins |
| gear | `NoHunting`: no shift is taken back at one speed; `GearSettles`: the command ends in a gear that fits |
| braking | `BrakeNotEased`: a run with a wheel speed does not brake less than the last one with one, however many blind ones lie in between, while the wheels do not slow down |
| ssc | none that holds: see `ssc_request` |
| raptor | `PublishedIsTrue`, `NotEnabledUnasked` |
| flags | `RaceNeedsFlags`: no race before orange, yellow and green were shown; `RedStops` |
| planner | `AliasFollowsPath`: the named line, the driven line and the awaited line agree; `ComesBack`: a car that races alone comes back to the racing line |
| localization | `MeasuredOnceConverged`: the unassigned correction is never used once the filter has converged |
| cruise | `LimitOutlivesTrajectory`: a limit is not forgotten while the trajectory it was made of is driven |
| speed | `StopReachesController`: a mission that stops, or a planner that is silent, brings the velocity to zero |

Six runs show a disagreement between the code and what its own documentation says of it:

| Run | What the documentation says | What the code does |
|---|---|---|
| `csl_exception` | "Proceed in emergency mode from the next iteration" | the next status takes the emergency back |
| `mission_orange` | "ignore orange flag after startup" | the own mission is validated again and falls back: a car parked off its pit box is sent out of the pits when the SSM overrides its mission |
| `flags_purple` | purple is "ShutOff engine" | the second message of each summary sets the vehicle signal to null, and the purple flag is gone before the state machine runs |
| `localization_top` | "if bottom is diverged, and top is nominal, USE NOVATEL TOP" | the position of the top receiver is dropped by the age of the bottom one's |
| `ssc_request` | "Once an initial control command and an initial state command have been sent [...] start returning `true`" | state commands are never sent, and a request to enable stays open for ever |
| `braking_time` | "safe braking time when faster than safe_vel_thres_mph" | a fast car is to stand at once in every emergency but the first, and in half of the time in that one |

`ssc_request` (`RequestSettles`): the call that hands a state command to the interface is commented out
(`vehicle_interface_node.cpp:357`), so the state machine never learns that the first one was sent. If it were there,
it would use `m_gear_cmd_pub`, which is never created (`ssc_interface.cpp:280` and 70). The reports of the car that
end the enabling are remapped to a name with a letter less (`vehicle_interface.launch.py:84`, and the same line of `deploy.launch.py`), so the
run assumes nothing of them. `braking_time` (`BrakingTimeGiven`) has two causes, each of which violates it alone: the profile is never taken
back (`control_safety_layer_node.h:646`), and its stamps count the seconds twice (line 641). Without both of them TLC finds
it to hold.



Four weaknesses of the code are left out of properties that hold otherwise. `HealthyMeansAlive`,
`CrashedNodeReported` and `RecordKeepsItsNode` say nothing of the first record, which a node without an id
keeps alive. `LocalizationLossHonoured` leaves out the time between the status that enables the lateral
autonomy and the next one. `LimitOutlivesTrajectory` says nothing of a trajectory that was lost
to the cruise control, or of a car whose cruise control has never spoken. And `BrakeNotEased` compares like with
like: the first run with a wheel speed after blind ones does ease the brake, from the full brake to that of
the profile, and is compared with the last one that had a speed.

**Bounds.** Two nodes and two registrations are enough for one node to write into the record of the
other, and for one to crash and register again (the proofs cover any number). The
link drops after 3 timers instead of 75: the count matters as below, at and above the
limit. Timeouts are 0 or 1 ticks, so that an age is in time, at the limit and over it.
Three commands give a heap in which a new command passes one that is already there and is
passed itself. Three empty runs to starvation let commands arrive in
between. A behaviour of `ssm` has either inputs or nodes, and one of `csl` either many commands or many statuses
(the `focus` of their MC modules): nothing in the registry reads the inputs, and no emergency looks at more of the buffer
than whether it is empty. Of the requests of one node's dead processes one is remembered: a third registration is not handled
anyway. In the
mission runs the flags time out after 1 tick and
the other inputs after 0, so that flags can be fresh, exactly at the timeout (where two
comparisons of the code disagree) and too old. `mission_flags` leaves the switches off and the car standing in one place, its pit box, where the startup is (with a place outside
of every area as well it was checked once, in 1.2 million states). `mission_drive` leaves the clock still, has one switch on at the
most, and the checkered flag with a green track only. Each is thus small enough for the places and flags that it
is about; the missions themselves are all there. One SystemStatus is on its way (`StatusDepth`), older than what the SSM has
sent since by any number of its runs; the proofs cover any depth.

In `accel` the acceleration controller's data times out at once and its cruise limit after 3 ticks,
so that a limit can outlive the data and the CSL's silence. In `vehicle` the topics
of the pedals and of the flags hold one message, where the code's hold up to ten: with one, a message that is
not taken in time is replaced, and two topics drift apart; longer ones are too large for one run
(`PedalsNotFought` of `PedalChain` alone was also checked with two, 1.7 million states; it
and `RaceNeedsFlags` are proved for any). The gears use the deployed table
with one speed in every band; the brake has the deployed times in quarters of a second (1.5 s, 1.0 s and
0.5 s) and speeds below and above each threshold; the noise of a receiver is below or above its limit; its
age, like every other, is in time, at the limit or never set. The counter of the miscellaneous
reports is modulo 2, which still tells each report from the next, and nothing in the model reads more. `CruiseChain` counts half seconds, the
timeout of the LQR, and lets a message take one of them, 50 periods of a node. The candidate lines of the planner
are `right_center`, the only one of the deployed configuration (`config/LVMS/planner_config.yaml`), and
`center`, which is commented out there. So is `left_center`, which is not among them: the code does not
merge back from that line, and `ComesBack` would not hold with it.

**Fairness.** `SystemStatusManager` assumes weak fairness of its two timers and of the
clock, `ControlSafetyLayer` of `run()` and the clock, `MissionLoop` of `run()`, the timer of the SSM, the two topics between the nodes and the clock: wall timers of an executor that is
not blocked. `Vehicle` assumes the same of its machines: `PedalsFairness` that each of the three
processes serves its timer or its topics and ends its callbacks, not that a desired acceleration arrives;
`GearFairness` the 10 ms timer; `SscFairness` that commands of both kinds go on arriving, and nothing of the reports;
`FlagsFairness` that summaries and reports go on over CAN;
`PlannerFairness` that the car comes to the end of each segment on a straight and that segments can be
generated there, which is an assumption about the track; `SpeedFairness` that statuses, the 10 ms timer
and the topic of the velocity go on. Nothing is assumed of other messages, of the operator, of race control or of crashes: a
property that needs them to stop or to stay says so itself (`StartupCompletes` that the flag
stays, that the SSM does not override and that the process is not restarted; `RedStops` that red stays;
`ComesBack` that the mission stays a race and no opponent is seen).

## What is proved

`SystemStatusManager_proofs` and `RegistryHealth_proofs` prove, for every set of nodes,
every number of registrations and all timeouts:

- `TypeCorrect`: `Spec => []TypeOK`. Inductive as it stands, with lemmas on what the
  registry's operators return (`AgeCheckedType`, `SystemStatusCodeType`, ...).
- `CommunicationReleased`: `Spec => NoSilentRecovery`. The property speaks of the flags the
  timer reads and of what happened since the drop; `LinkInv` ties them together
  (`recovery_enabled` only after a recovery, `comms_heartbeat_ok` and a count below its
  limit only after a beat). The last part is what makes it inductive: the heartbeat timer
  reports a good link without a beat while its count is below the limit.
- `MissionStaysOverridden`: `Spec => MissionNotRevived`, from `MissionInv`: without a mission
  since the last override the stored message itself holds the emergency stop.
- `KeepsMissions`: `Spec => MissionKept`, the refinement of `MissionKeeper`. Every step is
  mapped to a step or a stutter: the status timer to `Publish` (`TimerPublishes`),
  `missionCallback` to `Receive` (`CallbackReceives`), the clock to `KeeperTick`, and the
  parameters, which are written into the same message, to a stutter.
- `RecordsKeepTheirNodes` and `HealthyNodesAreAlive`, from `HealthInv`, which follows an id
  from the process that holds it over its messages to the record: an id is held by a
  process whose `down_age` is 0 (`HolderIsAlive`), a message on its way or a stored record
  is at least as old as the process has been down (`TopicIsStamped`, `RecordIsStamped`), and
  ids that were never given are fresh (`DownIsFresh`).
- `LinkIsAliveWhenReported`: a status that says the communication is good goes out only while the count
  is below its limit, from `AliveInv`. It is what keeps `LinkLossReported` true once the timers have reported the loss.
- `CommandedStopIsForever`: the stop of a single joystick message is in the status of the next timer and in
  every later one, from `StopInv`, which carries it from what was published to the message that is edited.
- `ListIsPublishedAsKnown`: `Spec => PublishedListMatchesRecords`, from `ListInv`: every id known to a
  process, a response or a message was given (`KnownIds`), the first record is found by its index
  (`FirstIsIndexed`), and the list follows the records but for a node that is dead (`ListFollows`), which
  the timer brings up to date before it publishes.

`ControlBuffer_proofs` proves `PushTop` for a buffer of any length whose top is of the highest
order: a pushed command takes the top exactly when nothing there is of a higher order,
otherwise the top stays, and it is of the highest order again. The path that a command rises
along is the least set that holds the last place and with a place its parent; `LeastMember`
gives each such set a least member, which has no parent and so is the root (`PathUpFacts`).
`PushKeeps` says that a push invents no command.

`ControlSafetyLayer_proofs` proves, for all statuses, thresholds and timeouts and any number
of commands between two runs:

- `CSLTypeCorrect`: `Spec => []TypeOK`.
- `StarvationStaysLatched`, `StarvationIsReported`, `OverrideStopsWithLink` and
  `LocalizationLossStopsControllers`, from `LatchInv`, which ties the flags that the callbacks
  and `run()` set to what they stand for: a starvation that is not over has its latch set, the
  latch is an error of the node, and the emergency lane is set while the last status reports
  the link lost, or the localization lost after a status with lateral autonomy.
- `BestCommandIsUsed`, from `BufferInv`: the top of the buffer is the newest of the highest
  order among the commands that arrived since the last run, by `PushTop`, and all of them
  were in their time quantum.
- `KeepsPedals`: `Spec => PedalsKept`, the refinement of `PedalSource` for every threshold: every
  `run()` is a run of the abstract source and everything else a stutter. The type invariant is
  enough, as the promise is about one run and the count and latch that the next one finds.

`MissionLoop_proofs` proves, for every table of transitions, set of places and timeouts:

- `ValidatedAsInCode`: a mission that is accepted is taken, one that is not gives way to what its fallback
  gives, and without a fallback the mission there is stays: `Validated` is the fixed point that
  `validateMissionTransition` computes. The chain of fallbacks is the least set closed under them, which unfolds
  into a mission and the chain of its fallback (`ChainUnfolds`); a nonempty part of a chain has exactly one first
  member (`FirstExists`: were there none, the missions whose chains hold all of that part would be closed under
  fallbacks and thus be the whole chain; `FirstIsUnique`, by `NoFallbackLoop`). No induction is needed.
- `TypeCorrect`: `Spec => []TypeOK`, by what each branch of the flags chooses (`CodeIsMission`) and what
  `Validated` makes of it.
- `EmergencyStopIsHeld`: `Spec => SettledEmergencyStopHolds`. Once both nodes and the topics between them hold
  the emergency stop, a mission other than it can only be taken as valid (`ValidatedIsAccepted`), and the table
  lets none but those that stand or go to the pits follow it. That is the assumption `StandingTable`, which
  says it of any table; the deployed one (`config/transitions.lvms.yaml`) keeps it, with the missions whose
  velocity parameter is zero as those that stand, and TLC evaluates it.
- `SilenceIsNotOutlasted`: an emergency stop that has reached the SSM is kept while an input of the manager is too
  old, through restarts and services.
- `RedStandIsNotLeft`: once both nodes and what is on its way hold missions that a red flag leads to
  (`RedMissions`), a red flag keeps it so, without velocity, wherever the car is and however often the SSM
  overrides. It needs that a mission of these is never rejected into another one (`RedChain`), which is the
  assumption `RedTable`: they stand, and fall back to each other only. `PIT_STANDBY` is not one of them: the
  deployed table rejects it into `PIT_IN` when the car is not in its pit box.
- `LoopKeepsPromise`: `Spec => Keeper!KeeperSpec`: the composition sends the SSM nothing its promise does not
  speak of. With `KeepsMissions` this ties both sides of the loop to one abstract specification.

`AccelLoop_proofs` proves, for any timeouts, inputs and thresholds, `AccelTypeCorrect`,
`ThrottleHasADeadMan` (`DeadMansThrottle`) and `CruiseClosesTheThrottle` (`CruiseCloses`), from
`ThrottleInv`. An age and the runs of which the CSL may still be silent trade against each other:
while the throttle is open, no input is older than its timeout and the runs that were used up
(`Slack`), and each tick that makes the input older uses up one run more.

`Vehicle_proofs` proves the safety properties of the machines. `StepOfMachines` says once that a step
of `Vehicle` is a step or a stutter of each of them. Then, for every value of their constants:

- `WhatIsPublishedIsTrue`, `EnabledOnlyWhenAsked`, from `RaptorInv`: the remembered and the
  published value are both the state, and a request that is not granted was asked for. It is proved of the
  record that a frame passes along (`Told`), since between two of its changes the state is not yet stored.
- `NoRaceBeforeTheFlags`, from `FlagsInv`: what is on its way was shown, and each state on the way to
  the race has its flag behind it; uninitialized memory can only have been red by then.
- `NamedLineIsDriven`: `AliasFollowsPath` is inductive as it stands, by what each operator of a
  run does to the record it passes along.
- `ConvergedIsMeasured`, from `LocationInv`: noise ends all correction where nothing was assigned.
- `GearsAreNotHunted`, from `GearInv`: the speed is still on the side of the table that the last shift came
  from. It needs bands that overlap, `DownshiftSpeed[gear + 1] <= UpshiftSpeed[gear]`, which the
  deployed table has.
- `BrakeIsNotEased`, from `BrakingInv`: the brake that the wheels set last (`measured`, which blind runs do not touch) is
  that of the profile at some time until now. The profile falls (`SafeDesVelFalls`, by monotony of the integer
  division), and at wheels that do not slow down a desired velocity that falls brakes more (`BrakeGrows`).
- `LimitStaysInForce`, from `CruiseInv`: the limit in force is no older than the trajectory that waits for
  the LQR, than the one it follows and a delay, and than the command on its way, its trajectory and a
  delay. It needs `2 * MaxDelay + PathTimeout <= CruiseTimeout + 1`: with the deployed 0.5 s and
  2 s, messages that take 0.75 s at most.

`VehicleState_proofs` goes on with what needs the types of all machines:

- `PedalsAreNotFought`: `Spec => PedalsNotFought`, for any depth of the topics, from `PedalsInv`. The mixtures on the
  two topics need not be enumerated: only the last word on each counts (`LastOf`: the newest message, or
  what was taken last when there is none), since older ones are followed by it. When the last words are a stop
  on the brake and a pressed accelerator, one of the two nodes is between its two publications and its
  second word mends it (`OneMoreWord`): the safety layer brakes first, the controller accelerates first. At rest
  nobody is in between.
- `VehicleTypeCorrect`: `Spec => []TypeOK`, with a lemma for each machine; the types of the
  pedals, of the CAN node and of the cruise chain come with their invariants, and those of the braking and the flags need theirs.
- The safety halves of three liveness properties, which say that the state each of them ends in is not left:
  `RedIsNotLeft` (of `RedStops`: while nothing but red is shown, known and on the topics, however deep, a car
  outside caution and race stays outside), `RacelineIsNotLeft` (of `ComesBack`: a car that races alone on the
  racing line stays on it and is not stopped, generated segments or not; it rests on `NamedLineIsDriven`) and
  `StopIsNotOutrun` (of `StopReachesController`: while the car is being stopped no velocity rises again, neither
  the planner's, nor one on its way, nor the controller's).

The assumptions are the named ASSUMEs of the modules, which say that timeouts and codes are
natural numbers and sets of them, that the gear table is not hunted about in, that the fallbacks of the
mission table close no loop, what it lets follow an
emergency stop and what the standing missions fall back to, and how the delays fit the timeouts; TLC evaluates them in every run.

Only model-checked is liveness, which is out of the prover's reach: `StopPulseNotLost`, `LinkLossReported`,
`CrashedNodeReported`, `StarvedCarBrakes`, `SilentSystemBrakes`, `RedFlagStops`, `InputLossStops`,
`StartupCompletes`, `LastWordReachesCar`, `GearSettles`, `RedStops`, `ComesBack`,
`StopReachesController`. That the good state comes at all rests on fairness, and on TLC.

## What is not modelled

- **Numeric parts** (filters, the LQR, the IDM law, tire and terrain models, Frenet segments, point clouds,
  gating of tracks): their correctness is about real numbers. Where control depends on their verdict, the
  verdict is open in the model that uses it.
- **Nodes the deployed launch does not start**: the commands merger, the other controllers with the gear
  shift manager they use, the graph and multilayer planners, the older dynamic planner and localization nodes,
  `timer_callback` of the deployed planner.
- **Waypoint managers**: geometry, and a table from missions to maps without state, whose paths no deployed
  controller follows.
- **Object tracking and prediction**: when a track starts or ends follows from likelihoods. What
  the prediction says is open in the planner and the cruise control.
- **Third-party drivers and vendored code**: cameras, telemetry, headers of other projects. What they send is
  an input.
- **Restart of the SSM alone**: latches and ids start again while the nodes keep the ids of the old
  one. Nothing in the code handles it, so that no property but its absence could be stated;
  it is listed as a hazard.
- **Wording, logging and diagnostics**, and parameters that only tune numbers.

`PROJECT.json` gives the reason for each component, and for each hazard no property covers.
