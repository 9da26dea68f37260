SPECIFICATION Spec
CONSTANTS
  c1 = c1
  c2 = c2
  w1 = w1
  w2 = w2
  a1 = a1
  a2 = a2
  Null = Null
  Conns <- MCConns
  Workers <- MCWorkers
  Addrs <- MCAddrs
  MaxReq <- MCMaxReq
  Window = 2
  MaxEvents = 2
  Abrupt = FALSE
INVARIANTS TypeOK NothingStranded TaskPerRequest TickPerResponse RevAlive
PROPERTIES Echoes Answered
CHECK_DEADLOCK FALSE
