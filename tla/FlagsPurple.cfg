\* A purple flag is wiped by the message about the track.
SPECIFICATION FairSpec
CONSTANTS
  MaxHunger = 1
  TopicDepth = 1
  TopGear = 6
  DownshiftSpeed <- Down
  UpshiftSpeed <- Up
  GearSpeeds = {0, 18, 33, 42, 70}
  ShiftLimit = 10
  BrakeSpeeds = {0, 2, 10, 20, 40}
  HardBrakingTime = 6
  SoftBrakingTime = 4
  SafeVelThres = 13
  VelTimeout = 2
  FullBrake = 13
  DISABLED_FEEDBACK_THRESH = 3
  Summaries <- Shown
  FlagDepth = 1
  Candidates = {"right_center", "center"}
  Compensated = 0
  GpsTimeout = 2
  Noises = {1, 3}
  PathTimeout = 1
  CruiseTimeout = 4
  MaxDelay = 1
  TopVelocity = 2
  SpeedPathTimeout = 2
PROPERTIES PurpleShutsOff
