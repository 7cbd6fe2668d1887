SPECIFICATION FairSpec
CONSTANTS
  Proc = {"p", "q"}
  Update = {a, b}
  ChCap = 1
  None = None
  Setups <- MCSetups
INVARIANTS HandOver
PROPERTIES FlushBarrier ShutdownCovers Progress
CHECK_DEADLOCK FALSE
