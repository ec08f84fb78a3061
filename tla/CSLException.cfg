\* A publication throws.
SPECIFICATION Halves
CONSTANTS
  Orders = {0, 1}
  CommandAges <- Ages
  Period = 1
  MaxCommands = 1
  buffer_empty_counter_threshold = 2
  Statuses <- Healthy
  StatusTimeout = 1
  PerceptionTimeout = 1
  SteeringLevels = {0, 2}
  Thresholds = {1, 3}
PROPERTY ExceptionStops
