SPECIFICATION FairSpec
CONSTANTS
  LeanSources = {s1, s2}
  CoreSource = core
  Config = inputs
  Suites = 1
  Runtimes = 2
  Contracts = 1
  Controls = 1
  Texts = {old, new}
  Compiled = old
  MaxFaults = 2
INVARIANTS
  PassMeansProved
  PassedTreeStood
PROPERTIES
  SupervisedRunsEnd
CHECK_DEADLOCK FALSE
