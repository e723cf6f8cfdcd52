CONSTANTS
  clone = clone
  color = color
  colorize = colorize
  img1 = img1
  img2 = img2
  x = x
  y = y
  Values <- Images
  Elements <- Sizes
  Splitter <- Wands
  Locations <- Variables
  Functions <- Library
  Params <- Parameters
  Returns <- Creators
  NumThreads = 3
  Rules <- SomeRules
  MaxTasks = 2
  MaxHandles = 2
SPECIFICATION Spec
INVARIANTS
  BroadcastIsWhole
CHECK_DEADLOCK FALSE
