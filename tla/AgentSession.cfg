SPECIFICATION Spec
CONSTANTS
  MaxSessions = 1
  max_lanes = 1
  Procs = {p, q}
INVARIANT DescendantsReaped
\* sessions end, and every bound is reached
CHECK_DEADLOCK FALSE
