SPECIFICATION Spec
CONSTANTS
  c1 = c1
  c2 = c2
  w1 = w1
  w2 = w2
  Null = Null
  Conns <- MCConns
  Workers <- MCWorkers
  Fds = {1, 2}
  MaxReq <- MCMaxReq
  MaxEvents = 2
SYMMETRY Symmetry
INVARIANTS NothingStranded AnsweredOnce
CHECK_DEADLOCK FALSE
