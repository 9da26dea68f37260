SPECIFICATION AioSpec
CONSTANTS
  MaxEvent = 5
  MaxBlocks = 9
  Readers <- MCReaders
  Methods <- MCMethods
INVARIANTS WithinContext AllRead Collected HandledWhenDone
PROPERTIES BatchFinishes Returns ResultHandled
CHECK_DEADLOCK FALSE
