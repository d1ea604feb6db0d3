CONSTANTS
  Metrics <- MCMetrics
  Services <- MCServices
  Sustain <- MCSustain
SPECIFICATION FairSpec
INVARIANTS
  RunsTwiceAtMost
  FalseAlarmIsEarned
PROPERTY EverySnapshotEnds
