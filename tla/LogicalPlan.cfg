CONSTANTS
  x = x
  y = y
  frame = frame
  groups = groups
  A = A
  none = none
  group = group
  merge = merge
  sort = sort
  log = log
  Values <- Two
  Functions <- Library
  Signature <- Annotations
  Mutates <- Updates
  Types <- Concrete
  Generics = {A}
  None = none
  MaxCalls = 3
  MaxRaises = 2
SPECIFICATION FairSpec
INVARIANTS
  TypeOK DependenciesBelow BuiltInOrder RunsInOrder RootsInOrder LinksAgree BreaksAtResults
PROPERTIES
  TypesStay ClearedWhenRun Returns
CHECK_DEADLOCK FALSE
