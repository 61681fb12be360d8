SPECIFICATION Spec
CONSTANTS
  NumFields = 2
  Values <- MCValues
  FirstFiles <- MCFirstFiles
  Backups <- MCBackups
  Watchers = {w1}
  MaxCalls = 3
  MaxFaults = 2
INVARIANTS
  TypeOK
  MemoryIsFile
  ServedComplete
  WatcherFresh
PROPERTIES
  NeverBricked
  IsRegister
\* A daemon that finds a file it cannot start with stays down.
CHECK_DEADLOCK FALSE
