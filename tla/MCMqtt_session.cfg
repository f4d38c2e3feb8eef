SPECIFICATION FairSpec
CONSTANTS
  Messages <- SomeMessages
  DefaultRunningTime = 50
  MaxWire = 2
  MaxConfigs = 2
  MaxLosses = 2
  MaxDeaths = 2
INVARIANT TypeOK
INVARIANT EndMeansOff
INVARIANT AnswersAreHeard
PROPERTY RunningEnds
