CONSTANTS
  u1 = u1  u2 = u2  d1 = d1  d2 = d2
  alice = alice  bob = bob  host = host
  Conns = {u1, u2, d1}
  Users = {alice, bob}
  Devices = {host}
  Principal <- MCPrincipal
  Org <- MCOrg
  NoConn = NoConn  NoMsg = NoMsg
  MaxPerUser = 2
  MaxPerDevice = 1
  OutQueue = 1
  SignalQueue = 1
  MaxRequests = 1
  Inputs = {"tunnel", "frame"}
 
SPECIFICATION FairSpec
PROPERTIES SlotsReleased StuckViewerDisconnected
CHECK_DEADLOCK FALSE
