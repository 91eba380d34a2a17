CONSTANTS
  u1 = u1  u2 = u2  d1 = d1  d2 = d2
  alice = alice  bob = bob  host = host
  Conns = {u1, d1, d2}
  Users = {alice}
  Devices = {host}
  Principal <- MCPrincipal
  Org <- MCOrg
  NoConn = NoConn  NoMsg = NoMsg
  MaxPerUser = 1
  MaxPerDevice = 2
  OutQueue = 1
  SignalQueue = 1
  MaxRequests = 1
  Inputs = {"tunnel", "end", "frame"}
SPECIFICATION Spec
INVARIANTS NoLeakedSession PresenceIsLive
PROPERTY DeviceStaysOnline
CHECK_DEADLOCK FALSE
