SPECIFICATION Spec
CONSTANTS
  MaxRuns = 2
  Pbfs = {pbfA, pbfB}
  Baseline = Baseline
  Absent = Absent
  NoRow = NoRow
  Hooks = {"cost", "snap"}
  Overlap = TRUE
  Hazards = {}
INVARIANT PublishedWhole
CHECK_DEADLOCK FALSE
