CONSTANTS
  MaxItems = 5
  MaxThreads = 4
  MaxTaskSize = 2
  MaxTasks = 1
SPECIFICATION Spec
INVARIANTS
  ClearedAfterwards
