CONSTANTS
  XorIRS <- MCXorIRS
  SeqMod = 16
  MaxWnd = 7
  RstJump = 4
  Int32 = FALSE
  TxCap = 1
  RxCap = 2
  MaxSeg = 1
  NSlots = 2
  Clients = {c1, c2}
  NoClient = none
  ClientISS = 14
  ClientBytes = 1
  NetCap = 1
  Resends = FALSE
  Late = FALSE
  Hasty = TRUE
  StaleCalls = FALSE
SPECIFICATION Spec
SYMMETRY MCSymmetry
INVARIANTS SlotStream OneSlotPerRemote AcceptedAreUp
CHECK_DEADLOCK FALSE
