CONSTANTS
  Files = {f1, f2}
  MaxLocks = 2
  Word = 8
  Psps = {1, 2}
  NumSft = 5
  JftSize = 6
  RefMax = 255
  ReadOnly = {f2}
  Devices = {"CON"}
  OpenModes <- MCModes
  Regions <- MCRegions
  UserH = {1, 5}
SPECIFICATION Spec
INVARIANTS RefcountExact SharingHolds LocksSound
PROPERTY HandlesSurvive
CHECK_DEADLOCK FALSE
