CONSTANTS
  Jobs = {j1}
  Runners = {c1, r1}
  Cron = {c1}
  MaxRuns = 2
  None = None
SPECIFICATION Spec
INVARIANTS
  DiagnosticsAnnounced
CHECK_DEADLOCK FALSE
