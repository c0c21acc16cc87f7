\* Four items, two writers, no room, two maintenance runs.  The runs end.
CONSTANTS
  MinConfidence = 45
  StaleAfter = 1
  RouteHealthStaleAfter = 0
  Items <- UpkeepItems
  Writers <- WritersHere
  Readers = {}
  Maintainers <- MaintainersHere
  Objective = "o"
  Limit = 2
  MaxClock = 2
  WritersMayDie = TRUE
  None = None
  w1 = w1
  w2 = w2
  r1 = r1
  m1 = m1
  m2 = m2
SPECIFICATION Spec
SYMMETRY Symmetry
CHECK_DEADLOCK FALSE
INVARIANTS
  RetirementsJustified
  MovesReportedOnce
