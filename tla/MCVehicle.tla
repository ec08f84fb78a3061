----------------------------- MODULE MCVehicle -----------------------------
(***************************************************************************)
(* The machines of Vehicle for TLC.                                        *)
(***************************************************************************)
EXTENDS Vehicle

\* The table of accel_control_node, in m/s.
Down == <<-255, 16, 31, 41, 50, 57>>
Up   == <<20, 35, 45, 53, 60, 255>>

Summary(track_flag, veh_flag) == [track_flag |-> track_flag, veh_flag |-> veh_flag]

\* Every flag that moves the state, green without and with a vehicle flag, and
\* flags that are not known (5 and 7).
Shown ==
  {Summary(1, 0), Summary(2, 0), Summary(3, 1), Summary(3, 8), Summary(4, 0),
   Summary(4, 4), Summary(4, 5), Summary(7, 0)}
=============================================================================
