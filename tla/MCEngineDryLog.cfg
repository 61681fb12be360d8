SPECIFICATION Spec
CONSTANTS
  NumZones = 2
  DayLen = 6
  Configs <- LongPreRun
  FirstConfigs <- LongPreRun
  WeatherScales <- MCWeatherScales
  QuickDurations <- MCQuickDurations
  ManualTimers <- MCManualTimers
  MaxTime = 9
  LastOpTime = 7
  MaxLag = 2
  MaxOps = 0
  MaxFaults = 0
INVARIANTS
  LoggedZonesRan
CHECK_DEADLOCK FALSE
