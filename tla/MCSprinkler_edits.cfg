SPECIFICATION Spec
CONSTANTS
  NULL = NULL
  SCHEDULE_SIZE = 1
  HOURS = 1
  MINS = 2
  DefaultRunningTime = 1
  ConfigValues = {0, 2}
  TicksPerMinute = 0
  LightThread = TRUE
  EditPoints <- AllPoints
  OpenResults = {TRUE, FALSE}
  MaxCrashes = 1
INVARIANT TypeOK
INVARIANT PumpOnlyInCycle
INVARIANT QuietWhilePumpOn
INVARIANT CycleTimer
PROPERTY FireOnTime
PROPERTY OncePerMinute
