\* The red flag, and the orange one, during the startup and after it, and inputs
\* that fall silent.  The car stands in its pit box.
SPECIFICATION FlagsSpec
CONSTANTS
  missions_description <- LVMS
  VehFlags = {"NULL"}
  TrackFlags = {"RED", "ORANGE", "GREEN"}
  Places <- BoxPlaces
  Speeds = {0}
  StoppedMissions <- Stopped
  InitialMission = "DEFAULT"
  timeout_rc_flag_summary = 1
  timeout_current_velocity = 0
  timeout_odometry = 0
  timeout_mission = 0
  StatusDepth = 1
INVARIANT TypeOK
PROPERTIES RedFlagStops InputLossStops StartupCompletes
