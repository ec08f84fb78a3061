---------------------- MODULE ControlSafetyLayer_proofs ----------------------
(***************************************************************************)
(* Proofs about the ControlSafetyLayerNode: its type, what of the latches  *)
(* and of the buffer makes the safety properties inductive, and those      *)
(* properties, for every set of commands, statuses and thresholds and any  *)
(* number of commands between two runs.                                    *)
(***************************************************************************)
EXTENDS ControlSafetyLayer, ControlBuffer_proofs

USE DEF Topics

-----------------------------------------------------------------------------
(* The type.                                                               *)

LEMMA ValuesType ==
  /\ From("none") \in Values /\ From("zero") \in Values
  /\ From("override") \in Values /\ From("perception") \in Values
  /\ From("emergency") \in Values
  /\ \A cmd \in Commands : FromCommand(cmd) \in Values
BY DEF Values

\* The values that are no controller's.
LEMMA Sources ==
  /\ From("none").source = "none" /\ From("zero").source = "zero"
  /\ From("override").source = "override"
  /\ From("perception").source = "perception"
  /\ From("emergency").source = "emergency"
  /\ \A cmd : FromCommand(cmd).source = "command" /\ FromCommand(cmd).cmd = cmd
BY DEF From, FromCommand

LEMMA TopType ==
  ASSUME TypeOK, control_buffer # <<>>
  PROVE  Top(control_buffer) \in Commands
BY DEF TypeOK, Top

\* What an emergency steers by.
LEMMA EmergencySteeringCases ==
  \/ EmergencySteering = From("override") /\ JoystickMaySteer
  \/ EmergencySteering = From("perception")
  \/ EmergencySteering = From("zero")
  \/ /\ EmergencySteering = FromCommand(Top(control_buffer))
     /\ ~emergency_buffer_empty /\ control_buffer # <<>>
     /\ ~system_status.localization_failure
BY DEF EmergencySteering

\* What a run without an emergency steers by: a command only under lateral
\* autonomy.
LEMMA NominalSteeringCases ==
  ASSUME TypeOK
  PROVE  \/ NominalSteering = From("override")
         \/ NominalSteering = From("perception")
         \/ NominalSteering = FromCommand(Top(control_buffer)) /\ ~ManualMode
BY DEF NominalSteering, ManualMode, TypeOK

\* What any run leaves on its topics.
LEMMA PedalsCases ==
  ASSUME NEW pub \in {Nothing, WithSteering, WithBrake, WithPedals}
  PROVE  /\ DOMAIN pub = Topics
         /\ pub = [steering |-> pub.steering, desired_accel |-> pub.desired_accel,
                   braking |-> pub.braking, accelerator |-> pub.accelerator]
         /\ pub.steering \in {From("none"), NominalSteering}
         /\ \/ pub.desired_accel = From("none")
            \/ /\ pub.desired_accel = FromCommand(Top(control_buffer))
               /\ long_autonomy_enabled
         /\ pub.braking \in {From("none"), From("override")}
         /\ pub.accelerator \in {From("none"), From("override")}
<1>1. CASE pub = Nothing
  BY <1>1 DEF Nothing
<1>2. WithSteering =
        [steering |-> NominalSteering, desired_accel |-> From("none"),
         braking |-> From("none"), accelerator |-> From("none")]
  BY DEF WithSteering, Nothing
<1>3. WithBrake \in
        {[steering |-> NominalSteering, desired_accel |-> From("none"),
          braking |-> brake, accelerator |-> From("none")] :
            brake \in {From("none"), From("override")}}
  BY <1>2 DEF WithBrake
<1>4. \/ /\ WithPedals = [WithSteering EXCEPT
                            !.desired_accel = FromCommand(Top(control_buffer))]
         /\ long_autonomy_enabled
      \/ WithPedals = [WithBrake EXCEPT !.accelerator = From("override")]
  BY DEF WithPedals
<1>5. CASE pub = WithSteering
  BY <1>2, <1>5
<1>6. CASE pub = WithBrake
  BY <1>3, <1>6
<1>7. CASE pub = WithPedals
  <2>1. CASE /\ WithPedals = [WithSteering EXCEPT
                               !.desired_accel = FromCommand(Top(control_buffer))]
             /\ long_autonomy_enabled
    BY <1>2, <1>7, <2>1
  <2>2. CASE WithPedals = [WithBrake EXCEPT !.accelerator = From("override")]
    BY <1>3, <1>7, <2>2
  <2> QED
    BY <1>4, <2>1, <2>2
<1> QED
  BY <1>1, <1>5, <1>6, <1>7

LEMMA NominalOutType ==
  ASSUME TypeOK, NominalState,
         NEW pub \in {Nothing, WithSteering, WithBrake, WithPedals}
  PROVE  pub \in [steering : Values, desired_accel : Values,
                  braking : Values, accelerator : Values]
<1>1. NominalSteering \in Values
  BY TopType, NominalSteeringCases, ValuesType DEF NominalState
<1>2. pub.desired_accel \in Values
  BY PedalsCases, TopType, ValuesType DEF NominalState, ManualMode, TypeOK
<1>3. pub.steering \in Values /\ pub.braking \in Values /\ pub.accelerator \in Values
  BY <1>1, PedalsCases, ValuesType
<1>4. pub = [steering |-> pub.steering, desired_accel |-> pub.desired_accel,
             braking |-> pub.braking, accelerator |-> pub.accelerator]
  BY PedalsCases
<1> QED
  BY <1>2, <1>3, <1>4

LEMMA EmergencyOut ==
  ASSUME RunEmergency
  PROVE  out' = [steering |-> EmergencySteering, desired_accel |-> From("none"),
                 braking |-> From("emergency"), accelerator |-> From("zero")]
BY DEF RunEmergency, Nothing

LEMMA RunType ==
  ASSUME TypeOK, Run
  PROVE  TypeOK'
<1> USE CSLAssumption
<1>0. /\ emergency_manual' \in BOOLEAN
      /\ lat_autonomy_enabled' \in BOOLEAN /\ long_autonomy_enabled' \in BOOLEAN
      /\ system_status' \in SystemStatus
      /\ status_age' \in 0 .. StatusTimeout + 1
      /\ override_control_cmd' \in [steering : SteeringLevels \cup {0}, braking : BOOLEAN]
      /\ steering_auto_override_deg' \in Thresholds
      /\ perception_age' \in 0 .. PerceptionTimeout
      /\ wall_close' \in BOOLEAN
      /\ lat_before' \in BOOLEAN
      /\ arrivals' = <<>> /\ arrivals' \in Seq(Commands)
  BY DEF Run, TypeOK, autonomy, statusVars, inputVars
<1>1. CASE RunEmergency
  <2>1. control_buffer' = <<>> /\ control_buffer' \in Seq(Commands)
    BY <1>1 DEF RunEmergency, Flushed
  <2>2. EmergencySteering \in Values
    BY EmergencySteeringCases, TopType, ValuesType
  <2>3. out' \in [steering : Values, desired_accel : Values,
                  braking : Values, accelerator : Values]
    BY <1>1, <2>2, EmergencyOut, ValuesType
  <2>4. /\ emergency_lane_enabled' \in BOOLEAN
        /\ emergency_buffer_empty' \in BOOLEAN
        /\ buffer_empty_counter' \in 0 .. buffer_empty_counter_threshold
        /\ node_status' \in {"OK", "ERROR", "FATAL_ERROR"}
        /\ starved' \in BOOLEAN /\ caught' \in BOOLEAN
    BY <1>1 DEF RunEmergency, TypeOK, EmergencyNodeStatus, StillStarved
  <2> QED
    BY <1>0, <2>1, <2>3, <2>4 DEF TypeOK
<1>2. CASE RunStarved
  <2>1. control_buffer' = <<>> /\ control_buffer' \in Seq(Commands)
    BY <1>2 DEF RunStarved
  <2>2. out' \in [steering : Values, desired_accel : Values,
                  braking : Values, accelerator : Values]
    BY <1>2, ValuesType DEF RunStarved, Nothing
  <2>3. buffer_empty_counter' \in 0 .. buffer_empty_counter_threshold
    BY <1>2 DEF RunStarved, NextEmpty, TypeOK
  <2>4. /\ emergency_lane_enabled' \in BOOLEAN
        /\ emergency_buffer_empty' \in BOOLEAN
        /\ node_status' \in {"OK", "ERROR", "FATAL_ERROR"}
        /\ starved' \in BOOLEAN /\ caught' \in BOOLEAN
    BY <1>2 DEF RunStarved, TypeOK
  <2> QED
    BY <1>0, <2>1, <2>2, <2>3, <2>4 DEF TypeOK
<1>3. CASE RunNominal \/ RunCaught
  <2>1. NominalState
    BY <1>3 DEF RunNominal, RunCaught
  <2>2. control_buffer' = <<>> /\ control_buffer' \in Seq(Commands)
    BY <2>1 DEF NominalState, Flushed
  <2>3. out' \in {Nothing, WithSteering, WithBrake, WithPedals}
    BY <1>3 DEF RunNominal, RunCaught
  <2>4. out' \in [steering : Values, desired_accel : Values,
                  braking : Values, accelerator : Values]
    BY <2>1, <2>3, NominalOutType
  <2>5. /\ buffer_empty_counter' \in 0 .. buffer_empty_counter_threshold
        /\ emergency_buffer_empty' \in BOOLEAN
        /\ starved' \in BOOLEAN
    BY <2>1 DEF NominalState, TypeOK
  <2>6. /\ emergency_lane_enabled' \in BOOLEAN
        /\ node_status' \in {"OK", "ERROR", "FATAL_ERROR"}
        /\ caught' \in BOOLEAN
    BY <1>3 DEF RunNominal, RunCaught, TypeOK
  <2> QED
    BY <1>0, <2>2, <2>4, <2>5, <2>6 DEF TypeOK
<1> QED
  BY <1>1, <1>2, <1>3 DEF Run

LEMMA ControlCallbackType ==
  ASSUME TypeOK, NEW order \in Orders, NEW age \in CommandAges,
         ControlCallback(order, age)
  PROVE  TypeOK'
<1> DEFINE cmd == [order |-> order, id |-> Len(arrivals) + 1, age |-> age]
<1>1. cmd \in Commands
  BY CSLAssumption DEF ControlCallback, Commands, TypeOK
<1>2. control_buffer' \in Seq(Commands) /\ Len(control_buffer') = Len(control_buffer) + 1
  BY <1>1, PushType DEF ControlCallback, TypeOK
<1>3. arrivals' \in Seq(Commands) /\ Len(arrivals') = Len(arrivals) + 1
  BY <1>1 DEF ControlCallback, TypeOK
<1>4. Len(control_buffer') = Len(arrivals')
  BY <1>2, <1>3 DEF TypeOK
<1>5. UNCHANGED <<latches, autonomy, statusVars, inputVars, runVars>>
  BY DEF ControlCallback
<1> QED
  BY <1>2, <1>3, <1>4, <1>5
  DEF TypeOK, latches, autonomy, statusVars, inputVars, runVars

LEMMA SystemStatusCallbackType ==
  ASSUME TypeOK, NEW status \in Statuses, SystemStatusCallback(status)
  PROVE  TypeOK'
<1>1. status \in SystemStatus
  BY CSLAssumption
<1>2. LaneEmergency(status) \in BOOLEAN
  BY <1>1 DEF LaneEmergency, SystemStatus, TypeOK
<1>3. /\ system_status' \in SystemStatus
      /\ status_age' \in 0 .. StatusTimeout + 1
      /\ emergency_lane_enabled' \in BOOLEAN
      /\ lat_autonomy_enabled' \in BOOLEAN
      /\ long_autonomy_enabled' \in BOOLEAN
      /\ lat_before' \in BOOLEAN
  BY <1>1, <1>2, CSLAssumption DEF SystemStatusCallback, TypeOK, SystemStatus
<1>4. UNCHANGED <<emergency_buffer_empty, emergency_manual, bufferVars, inputVars,
                  runVars>>
  BY DEF SystemStatusCallback
<1> QED
  BY <1>3, <1>4 DEF TypeOK, bufferVars, inputVars, runVars

\* The subscriptions that only keep what they receive.
InputCallbacks ==
  \/ PerceptionSteeringCallback
  \/ \E steering \in SteeringLevels, braking \in BOOLEAN :
       ControlOverrideCallback(steering, braking)
  \/ \E close \in BOOLEAN : WallDistanceOuterCallback(close)
  \/ \E deg \in Thresholds : ParametersCallback(deg)

LEMMA InputCallbacksType ==
  ASSUME TypeOK, InputCallbacks
  PROVE  TypeOK'
<1> USE CSLAssumption
    DEF TypeOK, latches, autonomy, statusVars, bufferVars, inputVars, runVars
<1>1. CASE PerceptionSteeringCallback
  BY <1>1 DEF PerceptionSteeringCallback
<1>2. CASE \E steering \in SteeringLevels, braking \in BOOLEAN :
             ControlOverrideCallback(steering, braking)
  BY <1>2 DEF ControlOverrideCallback
<1>3. CASE \E close \in BOOLEAN : WallDistanceOuterCallback(close)
  BY <1>3 DEF WallDistanceOuterCallback
<1>4. CASE \E deg \in Thresholds : ParametersCallback(deg)
  BY <1>4 DEF ParametersCallback
<1> QED
  BY <1>1, <1>2, <1>3, <1>4 DEF InputCallbacks

LEMMA TickType ==
  ASSUME TypeOK, Tick
  PROVE  TypeOK'
<1>1. /\ status_age' \in 0 .. StatusTimeout + 1
      /\ perception_age' \in 0 .. PerceptionTimeout
  BY CSLAssumption DEF Tick, TypeOK, HasPerception
<1>2. UNCHANGED <<latches, autonomy, system_status, lat_before, bufferVars,
                  override_control_cmd, steering_auto_override_deg, wall_close,
                  runVars>>
  BY DEF Tick
<1> QED
  BY <1>1, <1>2 DEF TypeOK, latches, autonomy, bufferVars, runVars

\* The state keeps its type, and there are as many commands in the buffer as have
\* arrived since the last run, whatever that run did: no command is left over.
THEOREM CSLTypeCorrect == Spec => []TypeOK
<1>1. Init => TypeOK
  <2> SUFFICES ASSUME Init PROVE TypeOK
    OBVIOUS
  <2>1. NoStatus \in SystemStatus
    BY DEF NoStatus, SystemStatus
  <2>2. Nothing \in [steering : Values, desired_accel : Values,
                     braking : Values, accelerator : Values]
    BY ValuesType DEF Nothing
  <2>3. /\ control_buffer \in Seq(Commands) /\ arrivals \in Seq(Commands)
        /\ Len(control_buffer) = Len(arrivals)
    BY DEF Init
  <2>4. /\ buffer_empty_counter \in 0 .. buffer_empty_counter_threshold
        /\ status_age \in 0 .. StatusTimeout + 1
        /\ perception_age \in 0 .. PerceptionTimeout
    BY CSLAssumption DEF Init
  <2>5. override_control_cmd \in [steering : SteeringLevels \cup {0}, braking : BOOLEAN]
    BY DEF Init
  <2> QED
    BY <2>1, <2>2, <2>3, <2>4, <2>5 DEF Init, TypeOK
<1>2. TypeOK /\ [Next]_vars => TypeOK'
  <2> SUFFICES ASSUME TypeOK, [Next]_vars PROVE TypeOK'
    OBVIOUS
  <2>1. CASE Run
    BY <2>1, RunType
  <2>2. CASE Tick
    BY <2>2, TickType
  <2>3. CASE \E order \in Orders, age \in CommandAges : ControlCallback(order, age)
    BY <2>3, ControlCallbackType
  <2>4. CASE \E status \in Statuses : SystemStatusCallback(status)
    BY <2>4, SystemStatusCallbackType
  <2>5. CASE InputCallbacks
    BY <2>5, InputCallbacksType
  <2>6. CASE UNCHANGED vars
    BY <2>6 DEF vars, TypeOK, latches, autonomy, statusVars, bufferVars, inputVars,
                runVars
  <2> QED
    BY <2>1, <2>2, <2>3, <2>4, <2>5, <2>6 DEF Next, InputCallbacks
<1> QED
  BY <1>1, <1>2, PTL DEF Spec

-----------------------------------------------------------------------------
(* The latches.                                                            *)

\* What the flags remember: the starvation for as long as the history does, a
\* lost link since the status that reported it, and a lost localization since a
\* status that came while the lateral autonomy was known to be on.
LatchInv ==
  /\ starved => emergency_buffer_empty
  /\ emergency_buffer_empty => node_status = "ERROR"
  /\ system_status.communication_failure => emergency_lane_enabled
  /\ system_status.lateral_autonomy_enabled => lat_autonomy_enabled
  /\ lat_before /\ system_status.localization_failure => emergency_lane_enabled

LEMMA LatchStep ==
  ASSUME TypeOK, LatchInv, [Next]_vars
  PROVE  LatchInv'
<1>1. CASE Run
  <2> USE DEF Run, autonomy, statusVars
  <2>1. CASE RunEmergency
    <3>1. starved' => emergency_buffer_empty'
      BY <2>1 DEF RunEmergency, StillStarved, LatchInv
    <3>2. emergency_buffer_empty' => node_status' = "ERROR"
      BY <2>1 DEF RunEmergency, StillStarved, EmergencyNodeStatus
    <3> QED
      BY <1>1, <2>1, <3>1, <3>2 DEF LatchInv, RunEmergency
  <2>2. CASE RunStarved
    BY <1>1, <2>2 DEF LatchInv, RunStarved
  <2>3. CASE RunNominal \/ RunCaught
    <3>1. ~emergency_buffer_empty /\ ~emergency_lane_enabled /\ NominalState
      BY <2>3 DEF RunNominal, RunCaught, NominalState, InEmergency
    <3>2. ~starved' /\ ~emergency_buffer_empty'
      BY <3>1 DEF NominalState, LatchInv
    <3> QED
      BY <1>1, <3>1, <3>2 DEF LatchInv
  <2> QED
    BY <1>1, <2>1, <2>2, <2>3
<1>2. CASE \E status \in Statuses : SystemStatusCallback(status)
  <2>1. PICK status \in Statuses : SystemStatusCallback(status)
    BY <1>2
  <2>2. starved' = starved /\ emergency_buffer_empty' = emergency_buffer_empty
        /\ node_status' = node_status
    BY <2>1 DEF SystemStatusCallback, runVars
  <2>3. /\ system_status' = status
        /\ emergency_lane_enabled' = LaneEmergency(status)
        /\ lat_autonomy_enabled' = status.lateral_autonomy_enabled
        /\ lat_before' = system_status.lateral_autonomy_enabled
    BY <2>1 DEF SystemStatusCallback
  <2> QED
    BY <2>2, <2>3 DEF LatchInv, LaneEmergency
<1>3. CASE /\ UNCHANGED <<latches, autonomy, system_status, lat_before, runVars>>
  BY <1>3 DEF LatchInv, latches, autonomy, runVars
<1>4. CASE \E steering \in SteeringLevels, braking \in BOOLEAN :
             ControlOverrideCallback(steering, braking)
  BY <1>4 DEF ControlOverrideCallback, LatchInv, autonomy, statusVars, runVars
<1>5. CASE \/ Tick
           \/ PerceptionSteeringCallback
           \/ \E order \in Orders, age \in CommandAges : ControlCallback(order, age)
           \/ \E close \in BOOLEAN : WallDistanceOuterCallback(close)
           \/ \E deg \in Thresholds : ParametersCallback(deg)
           \/ UNCHANGED vars
  BY <1>3, <1>5
  DEF Tick, PerceptionSteeringCallback, ControlCallback,
      WallDistanceOuterCallback, ParametersCallback, vars, statusVars
<1> QED
  BY <1>1, <1>2, <1>4, <1>5 DEF Next

LEMMA LatchInit == Init => LatchInv
BY DEF Init, LatchInv, NoStatus

LEMMA LatchInvariant == Spec => [](TypeOK /\ LatchInv)
<1>1. TypeOK /\ LatchInv /\ [Next]_vars => LatchInv'
  BY LatchStep
<1> QED
  BY <1>1, LatchInit, CSLTypeCorrect, PTL DEF Spec

\* The CSL keeps reporting an error while it holds the buffer to be starved.
THEOREM StarvationIsReported == Spec => []StarvationReported
<1>1. LatchInv => StarvationReported
  BY DEF LatchInv, StarvationReported
<1> QED
  BY <1>1, LatchInvariant, PTL

\* In an emergency run() takes its first branch, and no other.
LEMMA OnlyEmergency ==
  ASSUME Run, InEmergency
  PROVE  RunEmergency
BY DEF Run, RunStarved, RunNominal, RunCaught, NominalState

\* After a starvation no controller's command gets through, whatever arrives,
\* until a run has found both autonomy flags off.
THEOREM StarvationStaysLatched == Spec => StarvationLatched
<1> DEFINE A == Run /\ starved =>
                  \A topic \in Topics : out'[topic].source # "command"
<1>1. TypeOK /\ LatchInv => A
  <2> SUFFICES ASSUME TypeOK, LatchInv, Run, starved, NEW topic \in Topics
               PROVE  out'[topic].source # "command"
    OBVIOUS
  <2>1. emergency_buffer_empty
    BY DEF LatchInv
  <2>2. RunEmergency
    BY <2>1, OnlyEmergency DEF InEmergency
  <2>3. EmergencySteering.source # "command"
    BY <2>1, EmergencySteeringCases, Sources
  <2> QED
    BY <2>2, <2>3, EmergencyOut, Sources
<1>2. TypeOK /\ LatchInv /\ [Next]_vars => [A]_vars
  BY <1>1
<1> QED
  BY <1>1, LatchInvariant, PTL DEF StarvationLatched, Spec

\* Once a status has reported the loss of the link, nothing of what the joystick
\* last sent is followed.
THEOREM OverrideStopsWithLink == Spec => OverrideNeedsLink
<1> DEFINE A == Run /\ system_status.communication_failure =>
                  \A topic \in Topics : out'[topic].source # "override"
<1>1. TypeOK /\ LatchInv => A
  <2> SUFFICES ASSUME TypeOK, LatchInv, Run, system_status.communication_failure,
                      NEW topic \in Topics
               PROVE  out'[topic].source # "override"
    OBVIOUS
  <2>1. emergency_lane_enabled
    BY DEF LatchInv
  <2>2. RunEmergency
    BY <2>1, OnlyEmergency DEF InEmergency
  <2>3. EmergencySteering.source # "override"
    BY EmergencySteeringCases, Sources DEF JoystickMaySteer
  <2> QED
    BY <2>2, <2>3, EmergencyOut, Sources
<1> QED
  BY <1>1, LatchInvariant, PTL DEF OverrideNeedsLink, Spec

\* With a lost localization, and a lateral autonomy that was on already in the
\* status before, no controller steers the car.
THEOREM LocalizationLossStopsControllers == Spec => LocalizationLossHonoured
<1> DEFINE A == Run /\ system_status.localization_failure /\ lat_before =>
                  out'.steering.source # "command"
<1>1. TypeOK /\ LatchInv => A
  <2> SUFFICES ASSUME TypeOK, LatchInv, Run, system_status.localization_failure,
                      lat_before
               PROVE  out'.steering.source # "command"
    OBVIOUS
  <2>1. emergency_lane_enabled
    BY DEF LatchInv
  <2>2. RunEmergency
    BY <2>1, OnlyEmergency DEF InEmergency
  <2>3. EmergencySteering.source # "command"
    BY EmergencySteeringCases, Sources
  <2> QED
    BY <2>2, <2>3, EmergencyOut
<1> QED
  BY <1>1, LatchInvariant, PTL DEF LocalizationLossHonoured, Spec

-----------------------------------------------------------------------------
(* The buffer.                                                             *)

\* The i-th arrival is the last one among those of the highest order.
IsBest(i) ==
  \A j \in DOMAIN arrivals :
    \/ arrivals[j].order < arrivals[i].order
    \/ arrivals[j].order = arrivals[i].order /\ j <= i

\* The top of the heap is of the highest order, it is the best arrival, and no
\* arrival was as old as a period.
BufferInv ==
  /\ TopIsHighest(control_buffer)
  /\ arrivals # <<>> =>
       \E i \in DOMAIN arrivals : IsBest(i) /\ arrivals[i] = Top(control_buffer)
  /\ \A i \in DOMAIN arrivals : arrivals[i].age < Period

\* There is one best arrival only.
LEMMA BestUnique ==
  ASSUME TypeOK, NEW i \in DOMAIN arrivals, IsBest(i)
  PROVE  BestOf(arrivals) = arrivals[i]
<1>1. \A j \in DOMAIN arrivals : arrivals[j].order \in Nat /\ j \in Nat
  <2>1. arrivals \in Seq(Commands) /\ DOMAIN arrivals = 1 .. Len(arrivals)
    BY DEF TypeOK
  <2>2. \A j \in DOMAIN arrivals : arrivals[j] \in Commands /\ j \in Nat
    BY <2>1
  <2> QED
    BY <2>2, CSLAssumption DEF Commands
<1>2. ASSUME NEW k \in DOMAIN arrivals, IsBest(k)
      PROVE  k = i
  BY <1>1, <1>2 DEF IsBest
<1> QED
  BY <1>2 DEF BestOf, IsBest

LEMMA BufferControlCallback ==
  ASSUME TypeOK, BufferInv, NEW order \in Orders, NEW age \in CommandAges,
         ControlCallback(order, age)
  PROVE  BufferInv'
<1> DEFINE cmd == [order |-> order, id |-> Len(arrivals) + 1, age |-> age]
<1> DEFINE last == Len(arrivals) + 1
<1>1. cmd \in Commands
  BY CSLAssumption DEF ControlCallback, Commands, TypeOK
<1>2. /\ \A c \in Commands : c.order \in Nat
      /\ control_buffer \in Seq(Commands) /\ arrivals \in Seq(Commands)
      /\ Len(control_buffer) = Len(arrivals)
  BY CSLAssumption DEF Commands, TypeOK
<1>3. /\ TopIsHighest(control_buffer')
      /\ Top(control_buffer') =
           IF control_buffer # <<>> /\ Top(control_buffer).order > cmd.order
             THEN Top(control_buffer) ELSE cmd
  BY <1>1, <1>2, PushTop DEF ControlCallback, BufferInv
<1>4. /\ arrivals' = Append(arrivals, cmd)
      /\ DOMAIN arrivals' = 1 .. last
      /\ DOMAIN arrivals = 1 .. Len(arrivals)
      /\ arrivals'[last] = cmd
      /\ \A j \in DOMAIN arrivals : arrivals'[j] = arrivals[j]
  BY <1>1, <1>2 DEF ControlCallback
<1>5. \A j \in DOMAIN arrivals' : arrivals'[j].age < Period
  <2>1. cmd.age < Period
    BY DEF ControlCallback
  <2> QED
    BY <1>2, <1>4, <2>1 DEF BufferInv
<1>6. CASE control_buffer # <<>> /\ Top(control_buffer).order > cmd.order
  <2>1. PICK i \in DOMAIN arrivals : IsBest(i) /\ arrivals[i] = Top(control_buffer)
    BY <1>2, <1>6 DEF BufferInv
  <2>2. i \in DOMAIN arrivals' /\ arrivals'[i] = Top(control_buffer')
    BY <1>2, <1>3, <1>4, <1>6, <2>1
  <2>3. ASSUME NEW j \in DOMAIN arrivals'
        PROVE  \/ arrivals'[j].order < arrivals'[i].order
               \/ arrivals'[j].order = arrivals'[i].order /\ j <= i
    <3>1. CASE j = last
      BY <1>1, <1>2, <1>4, <1>6, <2>1, <3>1
    <3>2. CASE j # last
      <4>1. j \in DOMAIN arrivals
        BY <1>2, <1>4, <3>2
      <4> QED
        BY <1>4, <2>1, <4>1 DEF IsBest
    <3> QED
      BY <3>1, <3>2
  <2> QED
    BY <1>3, <1>5, <2>2, <2>3 DEF BufferInv, IsBest
<1>7. CASE control_buffer = <<>> \/ ~ (Top(control_buffer).order > cmd.order)
  <2>1. Top(control_buffer') = cmd
    BY <1>3, <1>7
  <2>2. ASSUME NEW j \in DOMAIN arrivals'
        PROVE  \/ arrivals'[j].order < arrivals'[last].order
               \/ arrivals'[j].order = arrivals'[last].order /\ j <= last
    <3>1. CASE j = last
      BY <1>2, <3>1
    <3>2. CASE j # last
      <4>1. j \in DOMAIN arrivals
        BY <1>2, <1>4, <3>2
      <4>2. PICK i \in DOMAIN arrivals : IsBest(i) /\ arrivals[i] = Top(control_buffer)
        BY <1>2, <4>1 DEF BufferInv
      <4>3. arrivals[j].order <= Top(control_buffer).order
        BY <1>2, <4>1, <4>2 DEF IsBest
      <4>4. arrivals[j].order <= cmd.order
        <5>1. control_buffer # <<>>
          BY <1>2, <4>1
        <5>2. /\ arrivals[j].order \in Nat /\ cmd.order \in Nat
              /\ Top(control_buffer).order \in Nat
          BY <1>1, <1>2, <4>1, <4>2
        <5> QED
          BY <1>7, <4>3, <5>1, <5>2
      <4>5. arrivals[j].order \in Nat /\ cmd.order \in Nat /\ j \in Nat /\ j <= last
        BY <1>1, <1>2, <4>1
      <4> QED
        BY <1>4, <4>1, <4>4, <4>5
    <3> QED
      BY <3>1, <3>2
  <2>3. last \in DOMAIN arrivals' /\ arrivals'[last] = Top(control_buffer')
    BY <1>2, <1>4, <2>1
  <2> QED
    BY <1>3, <1>5, <2>2, <2>3 DEF BufferInv, IsBest
<1> QED
  BY <1>6, <1>7

LEMMA BufferStep ==
  ASSUME TypeOK, BufferInv, [Next]_vars
  PROVE  BufferInv'
<1>1. CASE Run
  <2>1. arrivals' = <<>> /\ control_buffer' = <<>>
    BY <1>1 DEF Run, RunEmergency, RunStarved, RunNominal, RunCaught, NominalState,
                Flushed
  <2> QED
    BY <2>1 DEF BufferInv, TopIsHighest
<1>2. CASE \E order \in Orders, age \in CommandAges : ControlCallback(order, age)
  BY <1>2, BufferControlCallback
<1>3. CASE UNCHANGED bufferVars
  BY <1>3 DEF BufferInv, IsBest, bufferVars
<1>4. CASE \/ Tick
           \/ \E status \in Statuses : SystemStatusCallback(status)
           \/ InputCallbacks
           \/ UNCHANGED vars
  BY <1>3, <1>4
  DEF Tick, SystemStatusCallback, InputCallbacks, PerceptionSteeringCallback,
      ControlOverrideCallback, WallDistanceOuterCallback,
      ParametersCallback, vars
<1> QED
  BY <1>1, <1>2, <1>4 DEF Next, InputCallbacks

\* A command a run follows is the top of the buffer.
LEMMA FollowsTop ==
  ASSUME TypeOK, Run, NEW topic \in {"steering", "desired_accel"},
         out'[topic].source = "command"
  PROVE  control_buffer # <<>> /\ out'[topic].cmd = Top(control_buffer)
<1>1. CASE RunEmergency
  BY <1>1, EmergencyOut, EmergencySteeringCases, Sources
<1>2. CASE RunStarved
  BY <1>2, Sources DEF RunStarved, Nothing
<1>3. CASE RunNominal \/ RunCaught
  <2>1. out' \in {Nothing, WithSteering, WithBrake, WithPedals}
    BY <1>3 DEF RunNominal, RunCaught
  <2>2. control_buffer # <<>> \/ ManualMode
    BY <1>3 DEF RunNominal, RunCaught, NominalState
  <2>3. CASE topic = "steering"
    BY <2>1, <2>2, <2>3, PedalsCases, NominalSteeringCases, Sources
  <2>4. CASE topic = "desired_accel"
    BY <2>1, <2>2, <2>4, PedalsCases, Sources DEF ManualMode
  <2> QED
    BY <2>3, <2>4
<1> QED
  BY <1>1, <1>2, <1>3 DEF Run

\* However many commands arrive between two runs, the one that steers or
\* accelerates the car is the best of them and not older than a period.
THEOREM BestCommandIsUsed == Spec => BestCommandUsed
<1> DEFINE A == Run => \A topic \in {"steering", "desired_accel"} :
                  out'[topic].source = "command" =>
                    /\ arrivals # <<>>
                    /\ out'[topic].cmd = BestOf(arrivals)
                    /\ out'[topic].cmd.age < Period
<1>1. Init => BufferInv
  BY DEF Init, BufferInv, TopIsHighest
<1>2. TypeOK /\ BufferInv /\ [Next]_vars => BufferInv'
  BY BufferStep
<1>3. TypeOK /\ BufferInv => A
  <2> SUFFICES ASSUME TypeOK, BufferInv, Run,
                      NEW topic \in {"steering", "desired_accel"},
                      out'[topic].source = "command"
               PROVE  /\ arrivals # <<>>
                      /\ out'[topic].cmd = BestOf(arrivals)
                      /\ out'[topic].cmd.age < Period
    OBVIOUS
  <2>1. control_buffer # <<>> /\ out'[topic].cmd = Top(control_buffer)
    BY FollowsTop
  <2>2. arrivals # <<>>
    BY <2>1 DEF TypeOK
  <2>3. PICK i \in DOMAIN arrivals : IsBest(i) /\ arrivals[i] = Top(control_buffer)
    BY <2>2 DEF BufferInv
  <2>4. BestOf(arrivals) = arrivals[i]
    BY <2>3, BestUnique
  <2>5. arrivals[i].age < Period
    BY DEF BufferInv
  <2> QED
    BY <2>1, <2>2, <2>3, <2>4, <2>5
<1> QED
  BY <1>1, <1>2, <1>3, CSLTypeCorrect, PTL DEF BestCommandUsed, Spec
-----------------------------------------------------------------------------
(* The promise about the pedals.                                           *)

\* What is said of what is out.
Said ==
  [brake |-> Mover[out.braking.source], accelerator |-> Mover[out.accelerator.source],
   desired_accel |-> out.desired_accel.cmd]

LEMMA Movers ==
  /\ Mover[From("none").source] = "none"
  /\ Mover[From("emergency").source] = "stop"
  /\ Mover[From("zero").source] = "stop"
  /\ Mover[From("override").source] = "joystick"
  /\ From("none").cmd = NoCommand
BY Sources DEF Mover, From

\* The sayings, field by field.
LEMMA SayingsMade ==
  /\ Source!Silence =
       [brake |-> "none", accelerator |-> "none", desired_accel |-> NoCommand]
  /\ Source!Stop =
       [brake |-> "stop", accelerator |-> "stop", desired_accel |-> NoCommand]
  /\ Source!Hands =
       [brake |-> "joystick", accelerator |-> "joystick", desired_accel |-> NoCommand]
  /\ \A accel : Source!Drive(accel) =
       [brake |-> "none", accelerator |-> "none", desired_accel |-> accel]
  /\ [brake |-> "joystick", accelerator |-> "none", desired_accel |-> NoCommand]
       \in Source!Partial
  /\ Source!Silence \in Source!Partial
<1> USE DEF Source!Saying
<1>1. Source!Silence =
        [brake |-> "none", accelerator |-> "none", desired_accel |-> NoCommand]
  BY DEF Source!Silence
<1>2. Source!Stop =
        [brake |-> "stop", accelerator |-> "stop", desired_accel |-> NoCommand]
  BY DEF Source!Stop
<1>3. Source!Hands =
        [brake |-> "joystick", accelerator |-> "joystick", desired_accel |-> NoCommand]
  BY DEF Source!Hands
<1>4. \A accel : Source!Drive(accel) =
        [brake |-> "none", accelerator |-> "none", desired_accel |-> accel]
  BY DEF Source!Drive
<1>5. [Source!Silence EXCEPT !.brake = "joystick"] =
        [brake |-> "joystick", accelerator |-> "none", desired_accel |-> NoCommand]
  BY <1>1
<1> QED
  BY <1>1, <1>2, <1>3, <1>4, <1>5 DEF Source!Partial

LEMMA NothingIsSilence ==
  ASSUME out = Nothing
  PROVE  Said = Source!Silence
<1>1. /\ out.braking = From("none") /\ out.accelerator = From("none")
      /\ out.desired_accel = From("none")
  BY DEF Nothing
<1> QED
  BY <1>1, Movers, SayingsMade DEF Said

\* The publications of a run without an emergency, whole or cut short.
LEMMA NominalSays ==
  ASSUME TypeOK, NominalState,
         out' \in {Nothing, WithSteering, WithBrake, WithPedals}
  PROVE  Said' \in {Source!Hands}
                     \cup {Source!Drive(accel) : accel \in Commands} \cup Source!Partial
<1>1. WithSteering = [steering |-> NominalSteering, desired_accel |-> From("none"),
                      braking |-> From("none"), accelerator |-> From("none")]
  BY DEF WithSteering, Nothing
<1>2. CASE out' = Nothing
  <2>1. /\ out'.braking = From("none") /\ out'.accelerator = From("none")
        /\ out'.desired_accel = From("none")
    BY <1>2 DEF Nothing
  <2> QED
    BY <2>1, Movers, SayingsMade DEF Said
<1>3. CASE out' = WithSteering
  <2>1. /\ out'.braking = From("none") /\ out'.accelerator = From("none")
        /\ out'.desired_accel = From("none")
    BY <1>1, <1>3
  <2> QED
    BY <2>1, Movers, SayingsMade DEF Said
<1>4. CASE out' = WithBrake
  <2>1. /\ out'.braking \in {From("none"), From("override")}
        /\ out'.accelerator = From("none")
        /\ out'.desired_accel = From("none")
    BY <1>1, <1>4 DEF WithBrake
  <2> QED
    BY <2>1, Movers, SayingsMade DEF Said
<1>5. CASE out' = WithPedals /\ long_autonomy_enabled
  <2>1. WithPedals = [WithSteering EXCEPT !.desired_accel = FromCommand(Top(control_buffer))]
    BY <1>5 DEF WithPedals
  <2>2. /\ out'.braking = From("none") /\ out'.accelerator = From("none")
        /\ out'.desired_accel = FromCommand(Top(control_buffer))
    BY <1>1, <1>5, <2>1
  <2>3. Top(control_buffer) \in Commands
    BY <1>5, TopType DEF NominalState, ManualMode
  <2>4. Said' = Source!Drive(Top(control_buffer))
    BY <2>2, Movers, SayingsMade, Sources DEF Said
  <2> QED
    BY <2>3, <2>4
<1>6. CASE out' = WithPedals /\ ~long_autonomy_enabled
  <2>1. WithBrake = [steering |-> NominalSteering, desired_accel |-> From("none"),
                     braking |-> From("override"), accelerator |-> From("none")]
    BY <1>1, <1>6 DEF WithBrake
  <2>2. WithPedals = [WithBrake EXCEPT !.accelerator = From("override")]
    BY <1>6 DEF WithPedals
  <2>3. /\ out'.braking = From("override") /\ out'.accelerator = From("override")
        /\ out'.desired_accel = From("none")
    BY <1>6, <2>1, <2>2
  <2> QED
    BY <2>3, Movers, SayingsMade DEF Said
<1> QED
  BY <1>2, <1>3, <1>4, <1>5, <1>6

\* Each kind of run is one of the promise's.
LEMMA RunIsASourceRun ==
  ASSUME TypeOK, Run
  PROVE  Source!SourceRun
<1>1. CASE RunEmergency
  <2>1. /\ out'.braking = From("emergency") /\ out'.accelerator = From("zero")
        /\ out'.desired_accel = From("none")
    BY <1>1, EmergencyOut
  <2>2. Said' = Source!Stop
    BY <2>1, Movers, SayingsMade DEF Said
  <2>3. /\ emergency_buffer_empty' \in {emergency_buffer_empty, FALSE}
        /\ UNCHANGED buffer_empty_counter
    BY <1>1 DEF RunEmergency, StillStarved, TypeOK
  <2> QED
    BY <2>2, <2>3 DEF Source!SourceRun, Source!RunStop, Said
<1>2. CASE RunStarved
  <2>1. /\ out'.braking = From("none") /\ out'.accelerator = From("none")
        /\ out'.desired_accel = From("none")
    BY <1>2 DEF RunStarved, Nothing
  <2>2. Said' = Source!Silence
    BY <2>1, Movers, SayingsMade DEF Said
  <2>3. ~emergency_buffer_empty
    BY <1>2 DEF RunStarved, InEmergency
  <2>4. buffer_empty_counter' = NextEmpty
    BY <1>2 DEF RunStarved
  <2>5. buffer_empty_counter' \in 0 .. buffer_empty_counter_threshold
    BY <2>4, CSLAssumption DEF NextEmpty, TypeOK
  <2>6. emergency_buffer_empty' = (buffer_empty_counter' = buffer_empty_counter_threshold)
    <3>1. CASE buffer_empty_counter' >= buffer_empty_counter_threshold
      <4>1. buffer_empty_counter' = buffer_empty_counter_threshold
        BY <2>5, <3>1, CSLAssumption
      <4>2. emergency_buffer_empty' = TRUE
        BY <1>2, <2>5, <3>1, CSLAssumption DEF RunStarved
      <4> QED
        BY <4>1, <4>2
    <3>2. CASE buffer_empty_counter' < buffer_empty_counter_threshold
      <4>1. buffer_empty_counter' # buffer_empty_counter_threshold
        BY <2>5, <3>2, CSLAssumption
      <4>2. emergency_buffer_empty' = FALSE
        BY <1>2, <2>3, <2>5, <3>2, CSLAssumption DEF RunStarved, TypeOK
      <4> QED
        BY <4>1, <4>2
    <3> QED
      BY <2>5, <3>1, <3>2, CSLAssumption
  <2> QED
    BY <2>2, <2>3, <2>4, <2>6
    DEF Source!SourceRun, Source!RunHungry, Said, NextEmpty
<1>3. CASE RunNominal \/ RunCaught
  <2>1. NominalState /\ out' \in {Nothing, WithSteering, WithBrake, WithPedals}
    BY <1>3 DEF RunNominal, RunCaught
  <2>2. ~emergency_buffer_empty /\ UNCHANGED emergency_buffer_empty
    BY <2>1 DEF NominalState, InEmergency, TypeOK
  <2>3. buffer_empty_counter' \in {buffer_empty_counter, 0}
    BY <2>1 DEF NominalState
  <2>4. Said' \in {Source!Hands} \cup {Source!Drive(accel) : accel \in Commands}
                   \cup Source!Partial
    BY <2>1, NominalSays
  <2> QED
    BY <2>2, <2>3, <2>4 DEF Source!SourceRun, Source!RunHanded, Said
<1> QED
  BY <1>1, <1>2, <1>3 DEF Run

\* The safety layer keeps its promise to the acceleration controller and the
\* car, whatever commands, statuses and overrides come: no run mixes a desired
\* acceleration with a pedal, and it is silent no longer than it may be.
THEOREM KeepsPedals == Spec => PedalsKept
<1>1. Init => Source!SourceInit
  <2> SUFFICES ASSUME Init PROVE Source!SourceInit
    OBVIOUS
  <2>1. Said = Source!Silence
    BY NothingIsSilence DEF Init
  <2> QED
    BY <2>1 DEF Init, Source!SourceInit, Said
<1>2. TypeOK /\ [Next]_vars => [Source!SourceRun]_(Source!sourceVars)
  <2> SUFFICES ASSUME TypeOK, [Next]_vars
               PROVE  [Source!SourceRun]_(Source!sourceVars)
    OBVIOUS
  <2>1. CASE Run
    BY <2>1, RunIsASourceRun
  <2>2. CASE ~Run
    <3>1. UNCHANGED <<out, buffer_empty_counter, emergency_buffer_empty>>
      BY <2>2 DEF Next, vars, latches, runVars, Tick, PerceptionSteeringCallback,
                  ControlCallback, SystemStatusCallback, ControlOverrideCallback,
                  WallDistanceOuterCallback, ParametersCallback
    <3> QED
      BY <3>1 DEF Source!sourceVars
  <2> QED
    BY <2>1, <2>2
<1> QED
  BY <1>1, <1>2, CSLTypeCorrect, PTL DEF Spec, PedalsKept, Source!SourceSpec
=============================================================================
