SPECIFICATION Spec
CONSTANTS
  Readers = {"eventfd"}
  MaxEvent = 5
INVARIANT ReadyToCollect
CHECK_DEADLOCK FALSE
