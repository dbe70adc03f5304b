CONSTANTS
  Jobs = {j1}
  Runners = {c1, c2, r1}
  Cron = {c1, c2}
  MaxRuns = 3
  None = None
SPECIFICATION FairSpec
INVARIANTS
  TypeOK
  OneRunPerJob
  FailuresAnnounced
  RunningShownUntilEvent
PROPERTIES
  EveryRunEnds
CHECK_DEADLOCK FALSE
