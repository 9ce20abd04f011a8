SPECIFICATION FairSpec
CONSTANTS
  Clients = {"c1"}
  Servers = {"s1"}
  Identifying = {}
  Segments <- MCPair
  Xid <- MCXid
  Requested <- MCNothing
  None = None
  Broadcast = Broadcast
  Traffic = FALSE
  Aborters = {}
INVARIANT ServersAlive
CHECK_DEADLOCK FALSE
