CONSTANTS
  Arguments <- AllArguments
  Limits = {0, 1, 2}
  Instants = {0, 1, 2, 3, 4, 5}
  MAX_UNIX_SECONDS = 10
  MILLI = 4
  TempoDefault = 3
SPECIFICATION Spec
INVARIANTS WindowIsMeant EmptyMeansNone MoreIsTold FoundTracesOpen
CHECK_DEADLOCK FALSE
