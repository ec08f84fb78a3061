\* Every place of the track, flags that make the car drive, and the switches.
SPECIFICATION PunctualSpec
CONSTANTS
  missions_description <- LVMS
  VehFlags = {"ATTACKER", "CHECKERED"}
  TrackFlags = {"GREEN", "WAVING_GREEN"}
  Places <- TrackPlaces
  Speeds = {1}
  StoppedMissions <- Stopped
  InitialMission = "DEFAULT"
  timeout_rc_flag_summary = 1
  timeout_current_velocity = 0
  timeout_odometry = 0
  timeout_mission = 0
  StatusDepth = 1
PROPERTY SettledEmergencyStopHolds
