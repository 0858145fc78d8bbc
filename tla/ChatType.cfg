CONSTANTS
  r1 = r1
  r2 = r2
  t1 = t1
  t2 = t2
  NoRoom = NoRoom
  Rooms = {r1, r2}
  Active = {r1}
  Tasks = {t1, t2}
  MaxChanges = 2
  MaxTasks = 2
  MaxFailures = 1
SPECIFICATION Spec
SYMMETRY MCSymmetry
INVARIANTS TypeFollowsInTurn CachesAgree DirectKept
CHECK_DEADLOCK FALSE
