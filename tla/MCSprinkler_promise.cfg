SPECIFICATION LocalFairSpec
CONSTANTS
  NULL = NULL
  SCHEDULE_SIZE = 1
  HOURS = 1
  MINS = 2
  DefaultRunningTime = 1
  ConfigValues = {0, 2}
  TicksPerMinute = 0
  LightThread = TRUE
  EditPoints = {"init", "sleep"}
  OpenResults = {TRUE}
  MaxCrashes = 0
PROPERTY IrrigationSpec
PROPERTY PumpEventuallyOff
