SPECIFICATION FairSpec
CONSTANTS
  p1 = p1
  p2 = p2
  p3 = p3
  w1 = w1
  w2 = w2
  Procs = {p1, p2, p3}
  Cleaners = {p3}
  Killable = {p1}
  Workspaces = {w1, w2}
  Home <- Shared
  Keeps <- OneOrNone
  MarkersFail = FALSE
  Stamps = {1}
  None = None
CHECK_DEADLOCK FALSE
INVARIANTS
  ResultsLeaveNothing
  TornByCleanOrRobbery
PROPERTY
  EveryInvocationEnds
