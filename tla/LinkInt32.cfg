CONSTANTS
  XorIRS <- MCXorIRS
  SeqMod = 16
  MaxWnd = 7
  RstJump = 4
  Int32 = TRUE
  TxCap = 2
  RxCap = 2
  MaxSeg = 2
  ClientISS = 14
  ServerISS = 3
  ClientBytes = 3
  ServerBytes = 1
  Chunk = 1
  NetCap = 2
  Faults = {}
  MaxFaults = 0
  Clock = FALSE
  ServerFirst = TRUE
  Closers = {"client", "server"}
SPECIFICATION Spec
INVARIANT SendAcceptsPending
CHECK_DEADLOCK FALSE
