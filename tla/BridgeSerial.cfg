SPECIFICATION Spec
CONSTANTS
  Connects = {n1, n2}
  Commands = {m1}
  Disconnects = {d1}
  Children = {k1, k2}
  NoChild = NoChild
  PipeLimit = 1
  SerialLifecycle = TRUE
  WritesMayBlock = TRUE
SYMMETRY Symmetry
INVARIANTS
  TypeOK
  NoOrphan
  ConnectedMeansReady
  ResultIsOwn
  NobodyForgotten
  
  ConnectedHasProcess
PROPERTY ImplementsPort
CHECK_DEADLOCK FALSE
