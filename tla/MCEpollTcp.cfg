SPECIFICATION Spec
CONSTANTS
  c1 = c1
  c2 = c2
  Conns <- MCConns
  MaxReq <- MCMaxReq
  Room <- MCRoom
INVARIANTS InOrder InputReported NothingLost
PROPERTIES ClosedEventually Answered
CHECK_DEADLOCK FALSE
