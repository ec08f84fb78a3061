----------------------- MODULE MCSystemStatusManager ------------------------
(***************************************************************************)
(* Values for the constants of SystemStatusManager that a cfg cannot       *)
(* write, and the two halves of the node: a behaviour looks either at the  *)
(* inputs, and no node registers, or at the registry, and the inputs stay  *)
(* silent (nothing in the registry reads them).                            *)
(***************************************************************************)
EXTENDS SystemStatusManager

Lat(b)  == [name |-> "lat_autonomy_enabled", value |-> b]
Long(b) == [name |-> "long_autonomy_enabled", value |-> b]

\* A single parameter, as `ros2 param set` sends it, and an atomic pair.
Vectors == {<<Lat(TRUE)>>, <<Lat(TRUE), Long(TRUE)>>}

\* One report without a failure flag, one with the vehicle's comms-loss flag.
Reports == {{}, {"est4_sd_comms_loss"}}

VARIABLE focus

InputsStep   == SSMNext \/ Tick
RegistryStep == SystemStatusTimer \/ Tick \/ NodesNext

HalfInit == Init /\ focus \in {"inputs", "nodes"}

HalfNext ==
  /\ \/ focus = "inputs" /\ InputsStep
     \/ focus = "nodes"  /\ RegistryStep
  /\ UNCHANGED focus

\* The heartbeat timer watches an input.
FairHalves ==
  /\ HalfInit /\ [][HalfNext]_<<vars, focus>>
  /\ WF_vars(focus = "inputs" /\ CommsHeartbeatTimer)
  /\ WF_vars(SystemStatusTimer) /\ WF_vars(Tick)
=============================================================================
