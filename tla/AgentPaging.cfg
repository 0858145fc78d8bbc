SPECIFICATION FairSpec
CONSTANTS
  Items <- MCItems
  Transports <- MCTransports
  MaxLimit = 3
  MaxChanges = 2
  MaxFailures = 1
  NoAnswer = NoAnswer
CHECK_DEADLOCK FALSE
INVARIANTS NothingSkipped NothingRepeated
PROPERTIES ReadingEnds
