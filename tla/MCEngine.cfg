SPECIFICATION Spec
CONSTANTS
  NumZones = 2
  DayLen = 6
  Configs <- MCConfigs
  FirstConfigs <- MCFirstConfigs
  WeatherScales <- MCWeatherScales
  QuickDurations <- MCQuickDurations
  ManualTimers <- MCManualTimers
  MaxTime = 8
  LastOpTime = 6
  MaxLag = 2
  MaxOps = 2
  MaxFaults = 1
INVARIANTS
  TypeOK
  OutputsFollowRun
  WaterAccounted
  NeverTwice
  RunWillEnd
  NoOverrun
\* The system stops where the loop has ended and no operator calls any more.
CHECK_DEADLOCK FALSE
