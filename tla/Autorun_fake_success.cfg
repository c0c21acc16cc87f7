\* A harness process of a killed cycle writes into the room of the next one.
CONSTANTS
  Rooms = {p1}
  MaxCycles = 2
  MaxEdits = 2
  MayTimeout = TRUE
SPECIFICATION Spec
INVARIANTS
  NoFakeSuccess
