SPECIFICATION Spec
CONSTANTS
  Procs = {p1, p2, p3}
  Erlang = {p1, p2}
  Killable = {}
  Recycled = {}
  Denied = {}
  WriteFails = FALSE
  Patience <- OneSleep
  None = None
CHECK_DEADLOCK FALSE
INVARIANT
  MutualExclusion
