\* The orange flag is out after the startup.
SPECIFICATION Spec
CONSTANTS
  missions_description <- LVMS
  VehFlags = {"BLACK"}
  TrackFlags = {"ORANGE"}
  Places <- PitPlaces
  Speeds = {0, 1}
  StoppedMissions <- Stopped
  InitialMission = "DEFAULT"
  timeout_rc_flag_summary = 1
  timeout_current_velocity = 0
  timeout_odometry = 0
  timeout_mission = 0
  StatusDepth = 1
PROPERTY OrangeIgnored
