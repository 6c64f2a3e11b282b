SPECIFICATION Spec
CONSTANTS
  Requests = {r1, r2}
  PoolLimit = 1
  PoolTimeouts = {1, 3}
  CallTimeout = 2
  StatusTimeout = 1
  ProbeTimeout = 1
  RateLimit = 1
  Window = 2
  Grace = 3
  None = None
INVARIANTS
  SlotsAreReturned
  WaitsAreBounded
  StatusIsTruthful
  NobodyIsCutOff
SYMMETRY Symmetry
CHECK_DEADLOCK FALSE
