CONSTANTS
  XorIRS <- MCXorIRS
  SeqMod = 16
  MaxWnd = 7
  RstJump = 4
  Int32 = FALSE
  TxCap = 2
  RxCap = 2
  MaxSeg = 2
  ClientISS = 14
  ServerISS = 3
  ClientBytes = 1
  ServerBytes = 0
  Chunk = 1
  NetCap = 2
  Faults = {"drop"}
  MaxFaults = 1
  Clock = TRUE
  ServerFirst = TRUE
  Closers = {}
SPECIFICATION FairSpec
PROPERTY DialConnects
CHECK_DEADLOCK FALSE
