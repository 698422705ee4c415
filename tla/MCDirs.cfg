SPECIFICATION Spec
CONSTANTS
  MaxCluster = 3
  RootSize = 5
  MaxPieces = 3
  SlotsPerCluster = 3
  LongBase <- MCLongBase
  LongSlots <- MCLongSlots
  MaxAlias = 2
  ShortNames <- MCShort
  AliasNames = FALSE
  DotNames = FALSE
  Attributes <- MCAttributes
  MaxEntries = 2
  Patterns <- MCPatterns
  Handles = {1}
  Searching = 1
  MinFound = 2
  MaxDuring = 2
  Masks = {FALSE}
  MovesAnywhere = FALSE
INVARIANTS
  
  TreeSound
  ScansComplete
CHECK_DEADLOCK FALSE
