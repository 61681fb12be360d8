SPECIFICATION Spec
CONSTANTS
  Clients = {c1, c2, m}
  Remote = {m}
  Wanted <- MCWanted
  Zones = {1, 2}
  FirstConfig <- MCFirst
  Boards = {"script", "gpio", "relay"}
  Lines <- MCLines
  Ports <- MCPorts
  BusyPorts = {443}
  Nobody = Nobody
  MaxSchedules = 3
  MaxRequests = 2
  MaxDue = 1
  MaxFaults = 1
INVARIANTS
  TypeOK
  EngineFollowsConfig
  OffRequestStops
  BoardInForce
  SettingsInForce
  QuietExitIsDry
CHECK_DEADLOCK FALSE
