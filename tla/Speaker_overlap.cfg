SPECIFICATION FairSpec
CONSTANTS
  Majors = {1, 2}
  Threads = {p1, p2}
  MaxDelay = 2
INVARIANT TypeOK
INVARIANT SoundHasCause
INVARIANT UnloadedLow
 
PROPERTY SoundEnds
