\* Four positions, two at a time.
CONSTANTS
  N = 4
  Concurrency = 2
SPECIFICATION Spec
INVARIANTS
  ReportIsExact
  Inductive
PROPERTIES
  ContractHolds
