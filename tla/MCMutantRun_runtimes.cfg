SPECIFICATION FairSpec
CONSTANTS
  m1 = m1
  m2 = m2
  m3 = m3
  erlang = erlang
  node = node
  t1 = t1
  t2 = t2
  Tests <- TwoTests
  Failing <- FailingTests
  Selectors <- ReachingTests
  TimeoutStatuses <- Ends
  Planned <- ThreeMutants
  RuntimeOrder <- TwoRuntimes
  Inputs <- OtherInput
  Discharged <- WalkDischarged
  LostPartings <- WalkLost
  CacheModes = {"read-only", "write-only"}
  ImpactStates = {"disabled", "ready"}
  Jobs = 1
  MaxRuns = 2
INVARIANTS ResultsSound
PROPERTIES VerdictIsFinal EveryRunEnds
CHECK_DEADLOCK FALSE
