SPECIFICATION Spec
CONSTANTS
  Hours = {0, 12}
  SprinklerThread = FALSE
PROPERTY SeasonOfCalendar
