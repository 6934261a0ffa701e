SPECIFICATION FairSpec
CONSTANTS
  Procs = {p1, p2}
  Outputs = {}
  MAX_PROCESSES = 1
  MAX_LANES = 3
  MaxWrites = 1
INVARIANTS AttachedTrafficBounded StdinClosedQuiet
PROPERTY ProcessesServed
\* every process may be closed and every stream read to its end
CHECK_DEADLOCK FALSE
