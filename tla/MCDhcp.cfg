SPECIFICATION FairSpec
CONSTANTS
  Clients = {"c1", "c2"}
  Servers = {"s1", "s2", "s3", "s4"}
  Identifying = {"s3", "s4"}
  Segments <- MCSegments
  Xid <- MCXid
  Requested <- MCRequested
  None = None
  Broadcast = Broadcast
  Traffic = TRUE
  Aborters = {"c1"}
INVARIANT BoundByChosen
PROPERTY Binds
CHECK_DEADLOCK FALSE
