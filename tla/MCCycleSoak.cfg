SPECIFICATION FairSpec
CONSTANTS
  NumZones = 3
  Durations <- MCDurations
  CycleLimits <- MCCycleLimits
  Soaks <- MCSoaks
  StartAt = 5
INVARIANTS
  TypeOK
  Conserved
  Sequential
  SoakKept
  CycleKept
  GapsArePauses
  PauseOnlyToSoak
  ClassicOrder
PROPERTIES
  Ends
\* The loop ends.
CHECK_DEADLOCK FALSE
