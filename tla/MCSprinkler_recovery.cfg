SPECIFICATION FairSpec
CONSTANTS
  NULL = NULL
  SCHEDULE_SIZE = 1
  HOURS = 1
  MINS = 2
  DefaultRunningTime = 1
  ConfigValues = {2}
  TicksPerMinute = 8
  LightThread = TRUE
  EditPoints = {"init"}
  OpenResults = {TRUE}
  MaxCrashes = 1
PROPERTY OrphanRecovered
PROPERTY ScheduledGetsWater
