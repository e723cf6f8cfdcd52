CONSTANTS
  clone = clone
  color = color
  colorize = colorize
  img1 = img1
  img2 = img2
  x = x
  y = y
  Values <- Images
  Elements <- Sizes
  Splitter <- Wands
  Locations <- Variables
  Functions <- Library
  Params <- Parameters
  Returns <- Creators
  NumThreads = 3
  Rules <- AllRules
  MaxTasks = 2
  MaxHandles = 2
SPECIFICATION Spec
INVARIANTS
  TypeOK OneIdPerValue FuturesArePending
PROPERTIES
  Implements
CHECK_DEADLOCK FALSE
