CONSTANTS
  Tokens = {0, 1, 2}
  Batches <- SomeBatches
  Configs <- SomeConfigs
  MaxNew = 3
  MaxCalls = 1
SPECIFICATION Spec
INVARIANT SeesItsContext
CHECK_DEADLOCK FALSE
