SPECIFICATION Spec
CONSTANTS
  Clients = {m}
  Remote = {m}
  Wanted <- MCExitWanted
  Zones = {1, 2}
  FirstConfig <- MCFirst
  Boards = {"script", "gpio", "relay"}
  Lines <- MCLines
  Ports <- MCPorts
  BusyPorts = {443}
  Nobody = Nobody
  MaxSchedules = 3
  MaxRequests = 2
  MaxDue = 0
  MaxFaults = 0
INVARIANTS
  ExitIsDry
CHECK_DEADLOCK FALSE
