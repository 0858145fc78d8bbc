CONSTANTS
  matrix = matrix
  slack = slack
  s1 = s1
  s2 = s2
  s3 = s3
  Boot = Boot
  Nobody = Nobody
  Names = {matrix, slack}
  Available = {matrix}
  Sends = {s1, s2, s3}
  Commands <- MCCommands
  FirstDisks <- MCDisks
  SerialSends = TRUE
  Frail <- Providers
  MaxCrashes = 1
SPECIFICATION Spec
SYMMETRY MCSymmetry
INVARIANTS AppliedIsSaved NoStray StaysConnected SettingsKept
CHECK_DEADLOCK FALSE
