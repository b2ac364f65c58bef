SPECIFICATION FairSpec
CONSTANTS
  w1 = w1  w2 = w2  NULL = NULL
  Jobs = {1, 2, 3, 4}
  Workers = {w1, w2}
  Duration <- MCDuration
  Poisoned = {1}
  Lease = 4
  Pause = 1
  MaxCrashes = 1
INVARIANTS TypeOK HealthyJobsRunOnce SlowJobsNeverComplete
PROPERTIES HealthyJobsClose
