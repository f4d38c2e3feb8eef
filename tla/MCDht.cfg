SPECIFICATION MCSpec
CONSTANTS
  W = 2
  Readings = {1, 2}
  TIMEOUT = 4
  THRESHOLD = 1
  LowPolls = {2}
  ShortPolls = {1}
  LongPolls = {2}
  MaxPreempts = 1
  THOUSAND = 10
  WORD = 4096
  HARD = 5
  MaxSize = 3000
INVARIANT TypeOK
INVARIANT InsideArray
INVARIANT AcceptedMissesOne
INVARIANT Decodes
INVARIANT Honest
INVARIANT SleepmExact
INVARIANT SleepuBelowASecond
PROPERTY Returns
