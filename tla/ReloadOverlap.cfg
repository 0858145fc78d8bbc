CONSTANTS
  matrix = matrix
  slack = slack
  s1 = s1
  s2 = s2
  s3 = s3
  Boot = Boot
  Nobody = Nobody
  Names = {matrix}
  Available = {matrix}
  Sends = {s1, s2}
  Commands <- MCConfigure
  FirstDisks <- MCSetUpDisk
  SerialSends = FALSE
  Frail <- MCFrail
  MaxCrashes = 0
SPECIFICATION FairSpec
PROPERTIES EverySendEnds
CHECK_DEADLOCK FALSE
