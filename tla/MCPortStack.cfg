SPECIFICATION FairSpec
CONSTANTS
  Port = {7, 8}
  UDPHandlers = {u1, u2}
  TCPHandlers = {t1}
  Nil = Nil
  MaxUDP = 2
  MaxTCP = 1
  Concurrent = FALSE
  MaxWork = 3
INVARIANTS TypeOK RemembersUDP
PROPERTY ServesUDP
