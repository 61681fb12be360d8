SPECIFICATION FairSpec
CONSTANTS
  Hourly = Hourly
  Requests = {r1}
  Replies <- MCReplies
  NoReply = NoReply
  Places = {"here", "there"}
  NoPlace = NoPlace
  MaxRefreshes = 1
  IdleRefreshes = FALSE
  Zones = {1, 2}
  Prefixes = {"home", "garden"}
  Groups <- MCGroups
  FirstConfigs <- MCFirst
  None = None
  MaxChanges = 2
  MaxMoves = 1
  MaxFaults = 2
INVARIANTS
  TypeOK
  NeutralUnlessKnown
  NothingUnnoticed
  OnlineIsHonest
PROPERTIES
  MirroredInTheEnd
  CacheCatchesUp
CHECK_DEADLOCK FALSE
