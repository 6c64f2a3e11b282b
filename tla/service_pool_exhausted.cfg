SPECIFICATION Spec
CONSTANTS
  Requests = {r1, r2}
  PoolLimit = 1
  PoolTimeouts = {3}
  CallTimeout = 2
  StatusTimeout = 1
  ProbeTimeout = 1
  RateLimit = 1
  Window = 2
  Grace = 3
  None = None
INVARIANTS
  ExhaustedPoolIs503
SYMMETRY Symmetry
CHECK_DEADLOCK FALSE
