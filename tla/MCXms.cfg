CONSTANTS
  NHandles = 3
  PoolStart = 4
  PoolEnd = 9
  CountMax = 2
  EmsKb = {0, 2}
  Kb = {1, 2, 3}
SPECIFICATION FairSpec
INVARIANTS TypeOK NoOverlap WalkSound AllocExact QueryExact
PROPERTIES LockedStay CallsReturn
