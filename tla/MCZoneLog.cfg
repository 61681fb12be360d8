SPECIFICATION Spec
CONSTANTS
  Worlds <- MCWorlds
  Retentions = {1, 2}
  Minutes = {720}
  MaxDays = 41
  MaxEvents = 2
INVARIANTS
  TypeOK
  EveryNDays
  AnnouncementKept
PROPERTIES
  RetentionKept
CHECK_DEADLOCK FALSE
