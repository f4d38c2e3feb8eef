SPECIFICATION Spec
CONSTANTS
  Majors = {1}
  Threads = {p1}
  MaxDelay = 1
PROPERTY LedOnlyLed
