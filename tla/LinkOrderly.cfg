CONSTANTS
  XorIRS <- MCXorIRS
  SeqMod = 16
  MaxWnd = 7
  RstJump = 4
  Int32 = FALSE
  TxCap = 2
  RxCap = 3
  MaxSeg = 1
  ClientISS = 14
  ServerISS = 3
  ClientBytes = 3
  ServerBytes = 0
  Chunk = 1
  NetCap = 2
  Faults = {}
  MaxFaults = 0
  Clock = FALSE
  ServerFirst = TRUE
  Closers = {"client"}
SPECIFICATION FairSpec
INVARIANT FinIsLast
PROPERTIES CloseReleases PeerReleases DialConnects
CHECK_DEADLOCK FALSE
