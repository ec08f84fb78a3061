--------------------------- MODULE MCMissionLoop ----------------------------
(* The mission table of the Las Vegas track (config/transitions.lvms.yaml)   *)
(* and places on it.                                                         *)
EXTENDS MissionLoop, TLC

Entry(area, velocity, from, fallback) ==
  [area |-> area, velocity |-> velocity, from |-> from, fallback |-> fallback]

\* Speeds: standing (at most 0.001 m/s), up to 30 m/s, and above.
standing == 0
slow     == 1
fast     == 2

OnTrack ==
  {"RACE", "KEEP_POSITION", "CONSTANT_SPEED", "PIT_TO_TRACK", "SLOW_DRIVE",
   "COMMANDED_STOP", "COLLISION_AVOIDANCE", "TIRE_WARMUP", "TEST"}

LVMS ==
  "RACE"                :> Entry(TRUE, Speeds, OnTrack, "KEEP_POSITION")
  @@ "KEEP_POSITION"    :> Entry(FALSE, Speeds, OnTrack, "SLOW_DRIVE")
  @@ "CONSTANT_SPEED"   :> Entry(FALSE, Speeds, OnTrack, "SLOW_DRIVE")
  @@ "COLLISION_AVOIDANCE" :>
       Entry(FALSE, Speeds, OnTrack \ {"TIRE_WARMUP"}, "SLOW_DRIVE")
  @@ "TIRE_WARMUP"      :>
       Entry(FALSE, Speeds, OnTrack \ {"COLLISION_AVOIDANCE"}, "SLOW_DRIVE")
  @@ "TEST"             :>
       Entry(FALSE, Speeds, OnTrack \ {"COLLISION_AVOIDANCE", "TIRE_WARMUP"},
             "SLOW_DRIVE")
  @@ "PIT_IN"           :>
       Entry(TRUE, Speeds \ {fast},
             (OnTrack \ {"PIT_TO_TRACK"})
               \cup {"STANDBY", "PIT_IN", "EMERGENCY_STOP", "PIT_INIT"},
             "SLOW_DRIVE")
  @@ "PIT_STANDBY"      :>
       Entry(TRUE, Speeds, {"PIT_IN", "PIT_STANDBY", "PIT_OUT", "PIT_INIT"}, "PIT_IN")
  @@ "STANDBY"          :> Entry(FALSE, {standing}, Missions, "COMMANDED_STOP")
  @@ "PIT_OUT"          :>
       Entry(FALSE, Speeds, {"PIT_OUT", "PIT_STANDBY", "PIT_INIT"}, NoMission)
  @@ "PIT_TO_TRACK"     :>
       Entry(TRUE, Speeds, {"PIT_STANDBY", "PIT_OUT", "PIT_TO_TRACK", "PIT_INIT"},
             "PIT_OUT")
  @@ "SLOW_DRIVE"       :> Entry(FALSE, Speeds, OnTrack \cup {"STANDBY"}, "PIT_TO_TRACK")
  @@ "PIT_INIT"         :> Entry(TRUE, Speeds, Missions, "INIT")
  @@ "INIT"             :> Entry(FALSE, Speeds, Missions, NoMission)

\* The pit boxes lie in the area of PIT_INIT.
PitBoxes    == {"PIT_STANDBY", "PIT_INIT"}
BoxPlaces   == {PitBoxes}
PitPlaces   == {{}, PitBoxes}
TrackPlaces == {{"RACE"}, {"PIT_IN"}, {"PIT_TO_TRACK"}, PitBoxes}

Stopped ==
  {"EMERGENCY_STOP", "COMMANDED_STOP", "STANDBY", "PIT_STANDBY", "INIT", "PIT_INIT",
   "DEFAULT"}

\* The two switches of the operator stay off, and the car, which never rolls, is
\* where it is.
FlagsSpec == Init /\ [][Next /\ UNCHANGED <<switchVars, place>>]_vars /\ Fairness

\* The operator has one of the two switches on at the most, and the vehicle flag
\* for which the track is not looked at comes with one track flag.
OneOfAKind ==
  /\ ~(is_avoidance_enabled /\ is_warmup_enabled)
  /\ rc_flag_summary.veh = "CHECKERED" => rc_flag_summary.track = "GREEN"

\* No input is ever late.
PunctualSpec == Init /\ [][LoopStep /\ OneOfAKind']_vars
=============================================================================
