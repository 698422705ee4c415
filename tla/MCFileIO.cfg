CONSTANTS
  MaxCluster = 3
  PerSector = 3
  ClusterSecs = 2
  Dirs = {root, sub}
  DirSize = 1
  Names = {a, b}
  NumSft = 2
  OpenModes <- MCModes
  Vals = {x}
  Counts = {2}
  Positions = {1}
  MaxSecs = 5
  Careful = TRUE
SYMMETRY Symmetric
SPECIFICATION Spec
INVARIANTS FilesSound DiskSound ReadsBack ShortOnlyWhenFull
PROPERTIES NoLostCluster StoreSpec
