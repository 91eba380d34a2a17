CONSTANTS
  u1 = u1  u2 = u2  d1 = d1  d2 = d2
  alice = alice  bob = bob  host = host
  Conns = {u1, d1}
  Users = {alice}
  Devices = {host}
  Principal <- MCPrincipal
  Org <- MCOrg
  NoConn = NoConn  NoMsg = NoMsg
  MaxPerUser = 2
  MaxPerDevice = 2
  OutQueue = 2
  SignalQueue = 1
  MaxRequests = 1
  Inputs = {"tunnel"}
SPECIFICATION Spec
INVARIANT HostToldOfEnd
CHECK_DEADLOCK FALSE
