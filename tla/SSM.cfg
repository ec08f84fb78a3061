\* The joystick link and the recovery service, missions, localization and low
\* level reports and their timeouts; or two nodes that register, publish, crash,
\* stay down or register again.
SPECIFICATION FairHalves
CONSTANTS
  Nodes = {n1, n2}
  MaxRecords = 2
  NodeDeadTimeout = 1
  OwnCodes = {0}
  Counters = {0, 1}
  default_counter = 502
  max_counter_drop = 3
  LocalizationCodes = {0}
  timeout_localization_status = 0
  Missions = {RACE}
  EMERGENCY_STOP = EMERGENCY_STOP
  Velocities = {1}
  timeout_mission = 1
  LowLevelReports <- Reports
  timeout_ll = 0
  ParameterVectors <- Vectors
INVARIANT RecordKeepsItsNode
PROPERTIES
  NoSilentRecovery StopPulseNotLost LinkLossReported MissionKept
  CrashedNodeReported PublishedListMatchesRecords HealthyMeansAlive
