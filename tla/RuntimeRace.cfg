CONSTANTS
  t1 = t1
  t2 = t2
  b1 = b1
  b2 = b2
  MapFailed = MapFailed
  Threads <- TwoThreads
  Buffers <- TwoBuffers
  WorksOn <- Own
  FreesEarly = FALSE
  MaxCalls = 3
SPECIFICATION FairSpec
PROPERTIES
  ReadsAreFresh
