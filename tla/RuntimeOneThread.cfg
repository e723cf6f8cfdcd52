CONSTANTS
  t1 = t1
  t2 = t2
  b1 = b1
  b2 = b2
  MapFailed = MapFailed
  Threads <- OneThread
  Buffers <- TwoBuffers
  WorksOn <- Shared
  FreesEarly = FALSE
  MaxCalls = 3
SPECIFICATION FairSpec
INVARIANTS
  TypeOK PendingIsClosed
PROPERTIES
  ReadsAreFresh ImplementsEagerCalls Returns
