\* Commands of two orders, up to three between two runs, and the controllers or
\* the SSM falling silent; or every emergency, override and recovery with one
\* command at a time.
SPECIFICATION FairHalves
CONSTANTS
  Orders = {0, 1}
  CommandAges <- Ages
  Period = 1
  MaxCommands = 3
  buffer_empty_counter_threshold = 3
  Statuses <- AllStatuses
  StatusTimeout = 1
  PerceptionTimeout = 1
  SteeringLevels = {0, 2}
  Thresholds = {1, 3}
PROPERTIES
  BestCommandUsed StarvedCarBrakes SilentSystemBrakes StarvationLatched
  OverrideNeedsLink LocalizationLossHonoured PedalsKept
