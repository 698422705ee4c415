SPECIFICATION Spec
CONSTANTS
  Fat16 <- MCFat16
  Fat12 <- MCFat12
  Data <- MCData
  Floppies = {1}
  Values = {1}
  Tries = 2
  MaxFailed = 1
  ReloadFails = FALSE
INVARIANTS
  LatestSeen
PROPERTY
  CallsEnd
