CONSTANTS
  MaxElements = 5
  MaxWorkers = 3
  MaxBatchSize = 3
  MaxTasks = 2
SPECIFICATION FairSpec
INVARIANTS
  TypeOK NoSharedItem Complete RaisesOnlyWithoutItems
PROPERTIES
  Implements Terminates
