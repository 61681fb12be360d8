SPECIFICATION Spec
CONSTANTS
  Clients = {c1}
  Remote = {}
  Wanted <- MCPortsWanted
  Zones = {1, 2}
  FirstConfig <- MCPortsFirst
  Boards = {"script", "gpio", "negative"}
  Lines <- MCLines
  Ports <- MCPorts
  BusyPorts = {443}
  Nobody = Nobody
  MaxSchedules = 3
  MaxRequests = 2
  MaxDue = 0
  MaxFaults = 0
INVARIANTS
  PortInForce
CHECK_DEADLOCK FALSE
