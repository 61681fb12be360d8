SPECIFICATION Spec
CONSTANTS
  NumZones = 2
  DayLen = 6
  Configs <- MCConfigs
  FirstConfigs <- MCFirstConfigs
  WeatherScales <- MCWeatherScales
  QuickDurations <- MCQuickDurations
  ManualTimers <- MCManualTimers
  MaxTime = 9
  LastOpTime = 7
  MaxLag = 2
  MaxOps = 1
  MaxFaults = 0
PROPERTIES
  ManualUntilStopped
CHECK_DEADLOCK FALSE
