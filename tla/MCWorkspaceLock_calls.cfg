SPECIFICATION FairSpec
CONSTANTS
  Procs = {p1, p2, p3}
  Erlang = {p1, p2}
  Killable = {p1, p2}
  Recycled = {p1}
  Denied = {p2, p3}
  WriteFails = TRUE
  Patience <- OneSleep
  None = None
CHECK_DEADLOCK FALSE
INVARIANTS
  TypeOK
  ExclusiveUntilRobbed
  SafeWhileAllLive
  LostOnlyIfRobbed
  WrittenStaleReclaimed
PROPERTY
  EveryCallAnswers
