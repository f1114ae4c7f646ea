SPECIFICATION Spec
CONSTANTS
  None = None
  Gone = Gone
  q1 = q1
  linux = linux
  Platforms = {linux}
  GateCount = 2
  CellCount = 2
  Decisions <- MCDecisions
  Readers = {q1}
  MaxAttempts = 3
  Faults = 2
  Expiries = 1
INVARIANTS
  TypeOK
  FetchedIsLatest
  FetchedEvidenceHolds
CHECK_DEADLOCK FALSE
