SPECIFICATION FairSpec
CONSTANTS
  Lanes = {l1, l2, l3}
  process_capacity = 2
  MAX_PROCESSES = 2
  MaxPid = 3
INVARIANT TableTrue
PROPERTY ExitsReported
\* the bound MaxPid ends the run
CHECK_DEADLOCK FALSE
