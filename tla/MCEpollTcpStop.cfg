SPECIFICATION Spec
CONSTANTS
  c1 = c1
  c2 = c2
  Conns <- MCConns
  MaxReq <- MCMaxReq
  Room <- MCRoom
PROPERTY StopEndsLoop
CHECK_DEADLOCK FALSE
