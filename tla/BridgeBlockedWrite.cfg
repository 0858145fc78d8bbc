SPECIFICATION FairSpec
CONSTANTS
  Connects = {n1}
  Commands = {m1, m2}
  Disconnects = {}
  Children = {k1}
  NoChild = NoChild
  PipeLimit = 0
  SerialLifecycle = TRUE
  WritesMayBlock = TRUE
PROPERTY ExitRejectsBlockedWrite
CHECK_DEADLOCK FALSE
