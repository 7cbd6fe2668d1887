SPECIFICATION FairSpec
CONSTANTS
  k = k
  Nil = Nil
  Root = Root
  Unnamed = Unnamed
  Client = {1, 2, 3}
  Clock = {0, 1}
  Setups <- MCSetups
INVARIANTS WellFormed Convergence SyncComplete
PROPERTIES RefinesCausalStore EventualConsistency
