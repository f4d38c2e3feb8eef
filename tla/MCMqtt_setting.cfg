SPECIFICATION Spec
CONSTANTS
  Messages <- WholeMessages
  DefaultRunningTime = 50
  MaxWire = 1
  MaxConfigs = 2
  MaxLosses = 0
  MaxDeaths = 0
INVARIANT SettingAsSent
