\* Two cycles, two rooms, any cycle may time out.  The only fairness is that of the timer and of
\* the reaping of a dead child.
CONSTANTS
  Rooms = {p1, p2}
  MaxCycles = 2
  MaxEdits = 3
  MayTimeout = TRUE
SPECIFICATION FairSpec
INVARIANTS
  VerdictBacked
  FinishedRunsAgree
  OrphansExplained
  DeliveredAsJudged
  Inductive
PROPERTIES
  DeliveriesUnderVerdict
  CyclesEnd
