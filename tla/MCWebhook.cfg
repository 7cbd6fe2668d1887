SPECIFICATION FairSpec
CONSTANTS
  Keys = {"update", "connect"}
  MaxEvents = 3
  MaxRetries = 2
  MaxDeliveries = 1
  Closers = {"c1"}
INVARIANTS Sound
PROPERTIES Progress
CHECK_DEADLOCK FALSE
