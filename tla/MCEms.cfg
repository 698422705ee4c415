CONSTANTS
  NHandles = 2
  NWindows = 2
  total_pages = 3
  Values = {"written"}
  Junk = Junk
  Savers = {0}
  Reshuffle = FALSE
  DropMapped = FALSE
VIEW Seen
SPECIFICATION Spec
INVARIANTS RunsExact MapsLive
PROPERTY PagesKept
