CONSTANTS
  SeqMod = 8
  MaxWnd = 3
  RstJump = 4
  XorIRS <- MCXorIRS
  Int32 = FALSE
  ISSs = {6}
  Windows = {0, 2}
  Payloads <- MCPayloads
  Incoming <- MCIncoming
SPECIFICATION Spec
INVARIANTS TypeOK QueueDiscipline ResetIsExact
PROPERTIES NothingAfterFin FollowsDiagram EstablishedIsAcked
