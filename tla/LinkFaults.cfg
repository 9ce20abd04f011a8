CONSTANTS
  XorIRS <- MCXorIRS
  SeqMod = 16
  MaxWnd = 7
  RstJump = 4
  Int32 = FALSE
  TxCap = 2
  RxCap = 2
  MaxSeg = 2
  ClientISS = 14
  ServerISS = 3
  ClientBytes = 3
  ServerBytes = 1
  Chunk = 1
  NetCap = 2
  Faults = {"drop", "dup", "swap"}
  MaxFaults = 2
  Clock = FALSE
  ServerFirst = TRUE
  Closers = {"client"}
SPECIFICATION Spec
INVARIANTS StreamPrefix SeqAgreement AckedIsBuffered SendAcceptsPending
CHECK_DEADLOCK FALSE
