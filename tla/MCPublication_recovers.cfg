SPECIFICATION FairSpec
CONSTANTS
  c1 = c1
  c2 = c2
  s1 = s1
  s2 = s2
  None = None
  Alien = Alien
  Candidates = {c1}
  Sources = {s1}
  Source <- MCSource
  Archive <- MCArchive
  Names = {"archive", "manifest"}
  Extra = "extra"
  MaxReleases = 3
  MaxRuns = 2
  MaxAttempts = 6
  ReadbackChecks = 2
  Faults = 2
  Foreign = 0
  Patient = TRUE
PROPERTIES
  Recovers
CHECK_DEADLOCK FALSE
