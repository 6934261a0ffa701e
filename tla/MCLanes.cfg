SPECIFICATION MCSpec
CONSTANTS
  Exchanges = {e1, e2, e3, e4}
  MAX_LANES = 2
INVARIANT PoolSound
PROPERTIES IsLanePool PoolSettles ConnectionProgress
\* a dead session serves nobody, and everybody may be content to wait
CHECK_DEADLOCK FALSE
