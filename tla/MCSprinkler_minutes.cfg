SPECIFICATION Spec
CONSTANTS
  NULL = NULL
  SCHEDULE_SIZE = 2
  HOURS = 2
  MINS = 2
  DefaultRunningTime = 0
  ConfigValues = {1}
  TicksPerMinute = 7
  LightThread = TRUE
  EditPoints = {"init"}
  OpenResults = {TRUE}
  MaxCrashes = 0
INVARIANT FlagsMatchScan
PROPERTY NoMissedSchedule
PROPERTY FireOnTime
PROPERTY OncePerMinute
PROPERTY FireIsMixture
