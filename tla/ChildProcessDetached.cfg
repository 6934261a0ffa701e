SPECIFICATION Spec
CONSTANTS
  Procs = {p1, p2, p3}
  Outputs = {"stdout", "stderr"}
  MAX_PROCESSES = 1
  MAX_LANES = 8
  MaxWrites = 0
INVARIANT ProcessTrafficBounded
\* every process may be closed and every stream read to its end
CHECK_DEADLOCK FALSE
