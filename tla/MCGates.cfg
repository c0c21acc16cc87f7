\* The cache: every subset of nine items; route probes go stale after one unit, other items
\* after three.  The other topics have their bounds in the module.
CONSTANTS
  MinConfidence = 45
  StaleAfter = 3
  RouteHealthStaleAfter = 1
SPECIFICATION Spec
CHECK_DEADLOCK FALSE
INVARIANTS
  RankedIsSelection
  MaintenanceSettles
  TesterVerdictSound
  CollapsePicksBest
  QAPassHolds
  EvidenceNeverLowers
  ReportsEarned
  LessonsEarned
