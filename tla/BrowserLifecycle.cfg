SPECIFICATION FairBrowserSpec
CONSTANTS
  Pages = {p1, p2}
  Silence = 2
  Idle = 6
  Grace = 1
  Launch = 4
  None = None
INVARIANTS
  StopsOnlyUnused
PROPERTIES
  StopsWhenUnused
CHECK_DEADLOCK FALSE
