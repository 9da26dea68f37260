SPECIFICATION PoolSpec
CONSTANTS
  p1 = p1
  w1 = w1
  w2 = w2
  w3 = w3
  NoThread = NoThread
  Pushers <- MCPushers
  Shifters <- MCWorkers
  Pollers <- MCPollers
  NullTasks <- MCNullTasks
  MaxPush = 4
INVARIANT ExactlyOnce
PROPERTY EveryTaskRuns
CHECK_DEADLOCK FALSE
