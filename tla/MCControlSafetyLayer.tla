------------------------ MODULE MCControlSafetyLayer ------------------------
(***************************************************************************)
(* Values for the constants of ControlSafetyLayer that a cfg cannot write, *)
(* and two views of the node: a behaviour has either commands of every     *)
(* order and age and few statuses, or every status, override and threshold *)
(* and one command at a time.                                              *)
(***************************************************************************)
EXTENDS ControlSafetyLayer

Status(fields) ==
  [field \in DOMAIN NoStatus |-> field \in fields]

Lat  == "lateral_autonomy_enabled"
Long == "longitudinal_autonomy_enabled"

\* Healthy statuses: manual, lateral only, both.
Healthy == {Status({}), Status({Lat}), Status({Lat, Long})}

\* The failures the emergency lane looks at, with and without the autonomy,
\* and a mission that keeps away from the wall.
Failing ==
  {Status(s \cup {f}) : s \in {{}, {Lat}},
     f \in {"communication_failure", "localization_failure", "commanded_stop"}}

Walls == {Status({Lat, Long, "wall_mission"}), Status({Lat, "emergency_mode_enabled"})}

AllStatuses  == Healthy \cup Failing \cup Walls
LiveStatuses == {Status({}), Status({Lat, Long}), Status({Lat, "commanded_stop"})}

\* A command from the future, and one that is a period old.
Ages == {-1, Period}

VARIABLE focus

\* What a behaviour of each kind leaves out.
InFocus ==
  CASE focus = "commands" ->
         /\ system_status \in LiveStatuses
         /\ override_control_cmd.steering = 0
         /\ steering_auto_override_deg = 1
    [] focus = "emergency" ->
         arrivals \in {<<>>} \cup {<<cmd>> : cmd \in [order : {0}, id : {1}, age : {-1}]}

HalfInit == Init /\ focus \in {"commands", "emergency"} /\ InFocus

HalfNext == UNCHANGED focus /\ Next /\ InFocus'

Halves == HalfInit /\ [][HalfNext]_<<vars, focus>>

FairHalves == Halves /\ WF_vars(Run) /\ WF_vars(Tick)
=============================================================================
