SPECIFICATION Spec
CONSTANTS
  m1 = m1
  m2 = m2
  m3 = m3
  erlang = erlang
  node = node
  t1 = t1
  t2 = t2
  Tests <- TwoTests
  Failing <- FailingTests
  Selectors <- ReachingTests
  TimeoutStatuses <- Ends
  Planned <- ThreeMutants
  RuntimeOrder <- OneRuntime
  Inputs <- TwoContexts
  Discharged <- NothingDischarged
  LostPartings <- NothingDischarged
  CacheModes = {"off", "read-write"}
  ImpactStates = {"unavailable", "ready"}
  Jobs = 2
  MaxRuns = 2
INVARIANTS TypeOK CacheSound ReportSound ReportComplete
PROPERTIES StoredWorkNotRepeated
CHECK_DEADLOCK FALSE
