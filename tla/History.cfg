SPECIFICATION FairSpec
CONSTANTS
  NumRooms = 2
  Searches <- MCSearches
  PageSize = 2
  RoomLimit = 2
  ScanLimit = 2
  Limits = {1}
  CursorLimit = 512
  MaxEvents <- MCEvents
  MaxFaults = 1
INVARIANTS NothingMissed InOrderOnce
PROPERTY SearchEnds
CHECK_DEADLOCK FALSE
