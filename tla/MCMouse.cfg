SPECIFICATION MouseSpec
CONSTANTS
  MaxX = 3
  CellPixels = 2
  Moves <- MCMoves
  Ratios = {8, 16}
  Points <- MCPoints
  Attributes <- MCAttributes
  MinVisible <- MCMinVisible
  Wraps = FALSE
INVARIANTS
  Overlay
  CursorFollows
