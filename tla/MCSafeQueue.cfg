SPECIFICATION Spec
CONSTANTS
  p1 = p1
  p2 = p2
  s1 = s1
  s2 = s2
  s3 = s3
  x1 = x1
  NoThread = NoThread
  Pushers <- MCPushers
  Shifters <- MCShifters
  Pollers <- MCPollers
  MaxPush = 4
SYMMETRY Symmetry
INVARIANTS FifoOK NoLostWakeup
PROPERTY Linearizable
CHECK_DEADLOCK FALSE
