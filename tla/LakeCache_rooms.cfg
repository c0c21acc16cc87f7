\* Four items, one writer, one room shown two items, one maintenance run.
CONSTANTS
  MinConfidence = 45
  StaleAfter = 1
  RouteHealthStaleAfter = 0
  Items <- RoomItems
  Writers <- OneWriter
  Readers <- ReadersHere
  Maintainers <- OneMaintainer
  Objective = "o"
  Limit = 2
  MaxClock = 2
  WritersMayDie = TRUE
  None = None
  w1 = w1
  w2 = w2
  r1 = r1
  m1 = m1
  m2 = m2
SPECIFICATION Spec
INVARIANTS
  ViewsClean
  Inductive
PROPERTIES
  ContractHolds
  DeparturesExplained
