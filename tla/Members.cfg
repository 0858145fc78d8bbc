CONSTANTS
  r1 = r1
  r2 = r2
  c1 = c1
  c2 = c2
  NoRoom = NoRoom
  Rooms = {r1}
  Commands = {c1, c2}
  Kinds <- AllKinds
  MaxTold = 1
  MaxChanges = 4
  MaxMessages = 2
SPECIFICATION Spec
SYMMETRY MCSymmetry
INVARIANTS TypeOK NoGhostInvite MarkIsOfInvite UncrossedInvitesVisible JoinedAgrees NothingDropped
CHECK_DEADLOCK FALSE
