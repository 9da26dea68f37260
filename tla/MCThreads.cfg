SPECIFICATION ThreadsSpec
CONSTANTS
  p = p
  w = w
  k1 = k1
  k2 = k2
  k3 = k3
  Pro = p
  Waiter = w
  Consumers <- MCConsumers
  Tests <- MCTests
  Programs <- MCPrograms
  MaxVal = 3
  MaxSpurious = 1
INVARIANTS NoneSleepsOnWork LocksKept Lifetimes
PROPERTIES SharesValues Delivered Finishes
CHECK_DEADLOCK FALSE
