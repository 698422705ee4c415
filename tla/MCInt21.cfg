SPECIFICATION ConsoleSpec
CONSTANTS
  Keys <- MCKeys
  KbdSize = 2
  MaxDepth = 3
  MaxBreaks = 2
  SplitBreak = FALSE
INVARIANTS
  HandlersSound
  BreaksExact
PROPERTY
  BreakWakes
CHECK_DEADLOCK FALSE
