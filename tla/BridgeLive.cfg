SPECIFICATION FairSpec
CONSTANTS
  Connects = {n1}
  Commands = {m1}
  Disconnects = {d1}
  Children = {k1}
  NoChild = NoChild
  PipeLimit = 1
  SerialLifecycle = TRUE
  WritesMayBlock = FALSE
PROPERTY EveryCallReturns
CHECK_DEADLOCK FALSE
