CONSTANTS
  XorIRS <- MCXorIRS
  SeqMod = 16
  MaxWnd = 7
  RstJump = 4
  Int32 = FALSE
  TxCap = 2
  RxCap = 2
  MaxSeg = 2
  ClientISS = 14
  ServerISS = 3
  ClientBytes = 0
  ServerBytes = 3
  Chunk = 1
  NetCap = 2
  Faults = {}
  MaxFaults = 0
  Clock = FALSE
  ServerFirst = TRUE
  Closers = {}
SPECIFICATION Spec
INVARIANT StreamPrefix
CHECK_DEADLOCK FALSE
