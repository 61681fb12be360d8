SPECIFICATION FairSpec
CONSTANTS
  NumZones = 2
  DayLen = 6
  Configs <- MCOnceConfigs
  FirstConfigs <- MCOnceFirst
  WeatherScales <- MCWeatherScales
  QuickDurations <- MCQuickDurations
  ManualTimers <- MCManualTimers
  MaxTime = 11
  LastOpTime = 5
  MaxLag = 2
  MaxOps = 1
  MaxFaults = 1
PROPERTIES
  PassEnds
  BoardCatchesUp
  AllOffInTheEnd
\* The system stops where the loop has ended and no operator calls any more.
CHECK_DEADLOCK FALSE
