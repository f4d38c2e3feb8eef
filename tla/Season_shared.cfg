SPECIFICATION Spec
CONSTANTS
  Hours = {4, 5, 18, 20}
  SprinklerThread = TRUE
PROPERTY CallIsExact
PROPERTY SeasonIsMixture
PROPERTY DayIsMixture
