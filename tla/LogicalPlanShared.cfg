CONSTANTS
  x = x
  y = y
  frame = frame
  groups = groups
  A = A
  none = none
  group = group
  merge = merge
  sort = sort
  log = log
  Values <- One
  Functions <- Plain
  Signature <- PlainAnnotations
  Mutates <- Updates
  Types <- Concrete
  Generics = {A}
  None = none
  MaxCalls = 4
  MaxRaises = 1
SPECIFICATION Spec
INVARIANTS
  LeavesFirst
CHECK_DEADLOCK FALSE
