\* The throttle outlives no input; the safety layer may be silent once.
SPECIFICATION Spec
CONSTANTS
  Accels <- Asked
  Limits = {0, 100}
  Speeds = {0, 30}
  DataTimeout = 0
  AccTimeout = 3
  MaxAge = 4
  MaxHunger = 1
  NoAccel = 0
INVARIANTS DeadMansThrottle CruiseCloses
