CONSTANTS
  matrix = matrix
  c1 = c1
  c2 = c2
  k1 = k1
  k2 = k2
  NoTarget = NoTarget
  Cleared = Cleared
  NotServed = NotServed
  Transports = {matrix}
  Chats = {c1, c2}
  Tasks = {k1, k2}
  Modes = {"line", "terminal"}
SPECIFICATION Spec
SYMMETRY MCSymmetry
INVARIANTS InviteListTrue PromptNeverLies TargetConfigured
PROPERTIES EchoNamesTheChat
CHECK_DEADLOCK FALSE
