CONSTANTS
  u1 = u1  u2 = u2  d1 = d1  d2 = d2
  alice = alice  bob = bob  host = host
  Conns = {u1, d1}
  Users = {alice}
  Devices = {host}
  Principal <- MCPrincipal
  Org <- MCOrg
  NoConn = NoConn  NoMsg = NoMsg
  MaxPerUser = 1
  MaxPerDevice = 2
  OutQueue = 1
  SignalQueue = 1
  MaxRequests = 2
  Inputs = {"legacy", "tunnel", "end", "data", "frame"}
SPECIFICATION Spec
INVARIANTS TypeOK 
PROPERTY ImplementsService
CHECK_DEADLOCK FALSE
