SPECIFICATION FairSpec
CONSTANTS
  MaxRuns = 3
  Pbfs = {pbfA, pbfB}
  Baseline = Baseline
  Absent = Absent
  NoRow = NoRow
  Hooks = {"cost", "snap"}
  Overlap = FALSE
  Hazards = {"error", "crash", "ack_lost", "redis_down", "rollback"}
INVARIANTS
  TypeOK
  PublishedWhole
  LiveHasProvenance
  StatusDescribesLive
  ExitCodeTruthful
  LeftoversNeverBlock
  FlushFollowsCommit
PROPERTIES
  LiveIsNeverLost
  PublishesAtomically
  RunsEnd
CHECK_DEADLOCK FALSE
