CONSTANTS
  MaxElements = 5
  MaxWorkers = 2
  MaxBatchSize = 4
  MaxTasks = 1
SPECIFICATION Spec
INVARIANTS
  AtMostOnce
