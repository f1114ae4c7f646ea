SPECIFICATION Spec
CONSTANTS
  c1 = c1
  c2 = c2
  s1 = s1
  s2 = s2
  None = None
  Alien = Alien
  Candidates = {c1, c2}
  Sources = {s1, s2}
  Source <- MCSource
  Archive <- MCArchive
  Names = {"archive", "manifest"}
  Extra = "extra"
  MaxReleases = 3
  MaxRuns = 2
  MaxAttempts = 2
  ReadbackChecks = 2
  Faults = 1
  Foreign = 1
  Patient = FALSE
SYMMETRY Sym
INVARIANTS
  TypeOK
  FinishedReleaseExact
  RegistryFollowsDraft
  DraftsFollowFaults
PROPERTIES
  PromiseKept
CHECK_DEADLOCK FALSE
