SPECIFICATION Spec
CONSTANTS
  c1 = c1
  c2 = c2
  c3 = c3
  Kinds <- MCKinds
  Clients <- MCClients
  MaxReq <- MCMaxReq
INVARIANTS NeverBlocks Survives
PROPERTIES Echoes Answered ClosedEventually
CHECK_DEADLOCK FALSE
