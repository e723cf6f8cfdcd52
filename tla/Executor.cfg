CONSTANTS
  MaxItems = 5
  MaxThreads = 3
  MaxTaskSize = 2
  MaxTasks = 2
SPECIFICATION FairSpec
INVARIANTS
  TypeOK AtMostOnce PipelineOrder NoSharedItem PanicOnlyWithoutItems
PROPERTIES
  Implements Terminates
