CONSTANTS
  t1 = t1
  t2 = t2
  b1 = b1
  b2 = b2
  MapFailed = MapFailed
  Threads <- TwoThreads
  Buffers <- TwoBuffers
  WorksOn <- Shared
  FreesEarly = TRUE
  MaxCalls = 2
SPECIFICATION FairSpec
INVARIANTS
  RunInOrder FaultsOnlyOnFreed
PROPERTIES
  Unlocks
CHECK_DEADLOCK FALSE
