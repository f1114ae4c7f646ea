SPECIFICATION Spec
CONSTANTS
  p1 = p1
  p2 = p2
  p3 = p3
  w1 = w1
  w2 = w2
  Procs = {p1, p2, p3}
  Cleaners = {}
  Killable = {p2}
  Workspaces = {w1, w2}
  Home <- Shared
  Keeps <- OneEach
  MarkersFail = TRUE
  Stamps = {1, 2}
  None = None
CHECK_DEADLOCK FALSE
INVARIANTS
  TypeOK
  WholeUnlessRobbed
  QuietCollectionInBudget
